--------------------------- MODULE Instance_proofs ---------------------------
(***************************************************************************)
(* The files and the table of Instance, for any keys and values, any       *)
(* number of sentences and any number of starts.                           *)
(***************************************************************************)
EXTENDS Instance, TLAPS

\* Before it serves the process has one thread.
StartingUp == pc \in {"off", "connect", "name", "configure", "keys", "load"}

\* Who is inside what the mutex guards, and who is saving there.
Exclusion ==
    /\ pc \in {"process", "save", "compacting", "unlock"} <=> atomic_operation = "main"
    /\ dump = "save" <=> atomic_operation = "dump"
    /\ StartingUp => dump = "none"
    /\ saving["main"].stage # "none" <=> pc = "save"
    /\ saving["dump"].stage # "none" => dump = "save"

\* What the thread of requests was asked.
Asked == pc \in {"lock", "process"} => request \in Requests

\* A key is saved with the value it has in the table, unless that was freed.
SavesTheTable ==
    /\ pc = "save" =>
         /\ saving["main"].key = request.key /\ request.key \in Keys
         /\ saving["main"].value = table[request.key]
         /\ saving["main"].value \in Contents
    /\ saving["dump"].stage # "none" =>
         /\ saving["dump"].key \in Keys /\ saving["dump"].value \in Contents
         /\ pc # "freed" => saving["dump"].value = table[saving["dump"].key]

\* The part of NoFileGoesBack about files.
FilesGoOn == \A k \in Keys \ cut : BeingSaved(k) \/ files[k] \in since[k]

\* What a dump has behind it is in the files.
Dumped ==
    dump = "save" /\ pc # "freed" =>
        \A k \in Keys : table[k] # NULL =>
            \/ k \in todo
            \/ saving["dump"].stage # "none" /\ saving["dump"].key = k
            \/ files[k] = table[k]

IInv == /\ TypeOK /\ Exclusion /\ Asked /\ SavesTheTable
        /\ FilesGoOn /\ ReadsWhatWasWritten /\ Dumped

-----------------------------------------------------------------------------
\* A step that leaves files, table and saves alone leaves what is said of them.
LEMMA FilesStay ==
  ASSUME FilesGoOn, ReadsWhatWasWritten, UNCHANGED <<data, saving>>
  PROVE  FilesGoOn' /\ ReadsWhatWasWritten'
BY DEF FilesGoOn, BeingSaved, ReadsWhatWasWritten, data

\* The steps of the start-up before the files are loaded.
LEMMA StartUpKeeps ==
  ASSUME IInv, NEW from, NEW to, StartUp(from, to), loading' \subseteq Keys,
         from \in {"connect", "name", "configure", "keys"},
         to \in {"name", "configure", "keys", "load"}
  PROVE  IInv'
<1>1. TypeOK'
  BY DEF IInv, StartUp, Goes, TypeOK, data, mutexes
<1>2. Exclusion' /\ Asked'
  BY DEF IInv, StartUp, Goes, Exclusion, StartingUp, Asked, mutexes
<1>3. SavesTheTable' /\ Dumped'
  BY DEF IInv, StartUp, Goes, SavesTheTable, Dumped, Exclusion, StartingUp
<1>4. FilesGoOn' /\ ReadsWhatWasWritten'
  BY FilesStay DEF IInv, StartUp
<1> QED
  BY <1>1, <1>2, <1>3, <1>4 DEF IInv

-----------------------------------------------------------------------------
(* The steps of the main thread that touch neither the table nor the files *)

LEMMA StartsKeeps == ASSUME IInv, Starts PROVE IInv'
<1>1. TypeOK'
  BY DEF IInv, Starts, Goes, TypeOK, data, mutexes
<1>2. Exclusion' /\ Asked'
  BY DEF IInv, Starts, Goes, Exclusion, StartingUp, Asked, mutexes
<1>3. SavesTheTable' /\ Dumped'
  BY DEF IInv, Starts, Goes, SavesTheTable, Dumped, Exclusion, StartingUp
<1>4. FilesGoOn' /\ ReadsWhatWasWritten'
  BY FilesStay DEF IInv, Starts
<1> QED
  BY <1>1, <1>2, <1>3, <1>4 DEF IInv

LEMMA LoadedKeeps == ASSUME IInv, Loaded PROVE IInv'
<1>1. TypeOK'
  BY DEF IInv, Loaded, Goes, TypeOK, data, mutexes
<1>2. Exclusion' /\ Asked'
  BY DEF IInv, Loaded, Goes, Exclusion, StartingUp, Asked, mutexes
<1>3. SavesTheTable' /\ Dumped'
  BY DEF IInv, Loaded, Goes, SavesTheTable, Dumped, Exclusion, StartingUp
<1>4. FilesGoOn' /\ ReadsWhatWasWritten'
  BY FilesStay DEF IInv, Loaded
<1> QED
  BY <1>1, <1>2, <1>3, <1>4 DEF IInv

LEMMA ReceiveKeeps == ASSUME IInv, Receive PROVE IInv'
<1>1. pc' \in {"answer", "lock", "serve", "freed"}
  BY DEF Receive, Goes
<1>2. pc' = "lock" => request' \in Requests
  BY DEF Receive, Goes
<1>3. pc = "serve"
  BY DEF Receive
<1>4. UNCHANGED <<data, mutexes, loading, dump, todo, saving>>
  BY DEF Receive
<1>5. TypeOK'
  BY <1>1, <1>2, <1>3, <1>4 DEF IInv, TypeOK, data, mutexes
<1>6. Exclusion' /\ Asked'
  BY <1>1, <1>2, <1>3, <1>4 DEF IInv, Exclusion, StartingUp, Asked, mutexes
<1>7. SavesTheTable' /\ Dumped'
  BY <1>1, <1>2, <1>3, <1>4 DEF IInv, SavesTheTable, Dumped, data
<1>8. FilesGoOn' /\ ReadsWhatWasWritten'
  BY <1>4, FilesStay DEF IInv
<1> QED
  BY <1>1, <1>2, <1>3, <1>4, <1>5, <1>6, <1>7, <1>8 DEF IInv

LEMMA LockKeeps == ASSUME IInv, Lock PROVE IInv'
<1>1. TypeOK'
  BY DEF IInv, Lock, Goes, TypeOK, Threads, data
<1>2. Exclusion' /\ Asked'
  BY InstanceAssumption DEF IInv, Lock, Goes, Exclusion, StartingUp, Asked, Threads
<1>3. SavesTheTable' /\ Dumped'
  BY DEF IInv, Lock, Goes, SavesTheTable, Dumped, data
<1>4. FilesGoOn' /\ ReadsWhatWasWritten'
  BY FilesStay DEF IInv, Lock
<1> QED
  BY <1>1, <1>2, <1>3, <1>4 DEF IInv

LEMMA ProcessGetKeeps == ASSUME IInv, ProcessGet PROVE IInv'
<1>1. TypeOK'
  BY DEF IInv, ProcessGet, Goes, TypeOK, data, mutexes
<1>2. Exclusion' /\ Asked'
  BY DEF IInv, ProcessGet, Goes, Exclusion, StartingUp, Asked, mutexes
<1>3. SavesTheTable' /\ Dumped'
  BY DEF IInv, ProcessGet, Goes, SavesTheTable, Dumped, Exclusion
<1>4. FilesGoOn' /\ ReadsWhatWasWritten'
  BY FilesStay DEF IInv, ProcessGet
<1> QED
  BY <1>1, <1>2, <1>3, <1>4 DEF IInv

LEMMA ProcessCompactionKeeps == ASSUME IInv, ProcessCompaction PROVE IInv'
<1>1. TypeOK'
  BY DEF IInv, ProcessCompaction, Goes, TypeOK, data, mutexes
<1>2. Exclusion' /\ Asked'
  BY DEF IInv, ProcessCompaction, Goes, Exclusion, StartingUp, Asked, mutexes
<1>3. SavesTheTable' /\ Dumped'
  BY DEF IInv, ProcessCompaction, Goes, SavesTheTable, Dumped, Exclusion
<1>4. FilesGoOn' /\ ReadsWhatWasWritten'
  BY FilesStay DEF IInv, ProcessCompaction
<1> QED
  BY <1>1, <1>2, <1>3, <1>4 DEF IInv

LEMMA UnlockKeeps == ASSUME IInv, Unlock PROVE IInv'
<1>1. TypeOK'
  BY DEF IInv, Unlock, Goes, TypeOK, data
<1>2. Exclusion' /\ Asked'
  BY InstanceAssumption DEF IInv, Unlock, Goes, Exclusion, StartingUp, Asked, Threads
<1>3. SavesTheTable' /\ Dumped'
  BY DEF IInv, Unlock, Goes, SavesTheTable, Dumped, Exclusion
<1>4. FilesGoOn' /\ ReadsWhatWasWritten'
  BY FilesStay DEF IInv, Unlock
<1> QED
  BY <1>1, <1>2, <1>3, <1>4 DEF IInv

LEMMA AnswerKeeps == ASSUME IInv, Answer PROVE IInv'
<1>1. TypeOK'
  BY DEF IInv, Answer, Goes, TypeOK, data, mutexes
<1>2. Exclusion' /\ Asked'
  BY DEF IInv, Answer, Goes, Exclusion, StartingUp, Asked, mutexes
<1>3. SavesTheTable' /\ Dumped'
  BY DEF IInv, Answer, Goes, SavesTheTable, Dumped, data
<1>4. FilesGoOn' /\ ReadsWhatWasWritten'
  BY FilesStay DEF IInv, Answer
<1> QED
  BY <1>1, <1>2, <1>3, <1>4 DEF IInv

LEMMA AnswerValueKeeps == ASSUME IInv, AnswerValue PROVE IInv'
<1>1. TypeOK'
  BY DEF IInv, AnswerValue, Goes, TypeOK, data, mutexes
<1>2. Exclusion' /\ Asked'
  BY DEF IInv, AnswerValue, Goes, Exclusion, StartingUp, Asked, mutexes
<1>3. SavesTheTable' /\ Dumped'
  BY DEF IInv, AnswerValue, Goes, SavesTheTable, Dumped, data
<1>4. FilesGoOn' /\ ReadsWhatWasWritten'
  BY FilesStay DEF IInv, AnswerValue
<1> QED
  BY <1>1, <1>2, <1>3, <1>4 DEF IInv

LEMMA JoinKeeps == ASSUME IInv, Join PROVE IInv'
<1>1. TypeOK'
  BY DEF IInv, Join, Goes, TypeOK, data, mutexes
<1>2. Exclusion' /\ Asked'
  BY DEF IInv, Join, Goes, Exclusion, StartingUp, Asked, mutexes
<1>3. SavesTheTable' /\ Dumped'
  BY DEF IInv, Join, Goes, SavesTheTable, Dumped, data
<1>4. FilesGoOn' /\ ReadsWhatWasWritten'
  BY FilesStay DEF IInv, Join
<1> QED
  BY <1>1, <1>2, <1>3, <1>4 DEF IInv

-----------------------------------------------------------------------------
(* The steps of the dump thread that do not, and the signal *)

LEMMA DumpGoesOnKeeps == ASSUME IInv, DumpGoesOn PROVE IInv'
<1>1. TypeOK'
  BY DEF IInv, DumpGoesOn, TypeOK, data, mutexes
<1>2. Exclusion' /\ Asked'
  BY DEF IInv, DumpGoesOn, Exclusion, StartingUp, Asked, mutexes
<1>3. SavesTheTable' /\ Dumped'
  BY DEF IInv, DumpGoesOn, SavesTheTable, Dumped, data
<1>4. FilesGoOn' /\ ReadsWhatWasWritten'
  BY FilesStay DEF IInv, DumpGoesOn
<1> QED
  BY <1>1, <1>2, <1>3, <1>4 DEF IInv

LEMMA DumpLocksKeeps == ASSUME IInv, DumpLocks PROVE IInv'
<1>1. TypeOK'
  BY DEF IInv, DumpLocks, TypeOK, Threads, data
<1>2. Exclusion' /\ Asked'
  BY InstanceAssumption DEF IInv, DumpLocks, Exclusion, StartingUp, Asked, Threads
<1>3. SavesTheTable' /\ Dumped'
  BY DEF IInv, DumpLocks, SavesTheTable, Dumped, data
<1>4. FilesGoOn' /\ ReadsWhatWasWritten'
  BY FilesStay DEF IInv, DumpLocks
<1> QED
  BY <1>1, <1>2, <1>3, <1>4 DEF IInv

LEMMA DumpUnlocksKeeps == ASSUME IInv, DumpUnlocks PROVE IInv'
<1>1. TypeOK'
  BY DEF IInv, DumpUnlocks, TypeOK, data
<1>2. Exclusion' /\ Asked'
  BY InstanceAssumption DEF IInv, DumpUnlocks, Exclusion, StartingUp, Asked, Threads
<1>3. SavesTheTable' /\ Dumped'
  BY DEF IInv, DumpUnlocks, SavesTheTable, Dumped, Exclusion
<1>4. FilesGoOn' /\ ReadsWhatWasWritten'
  BY FilesStay DEF IInv, DumpUnlocks
<1> QED
  BY <1>1, <1>2, <1>3, <1>4 DEF IInv

LEMMA SignalHandlerKeeps == ASSUME IInv, SignalHandler PROVE IInv'
<1>1. TypeOK'
  BY DEF IInv, SignalHandler, TypeOK, data, mutexes, threads
<1>2. Exclusion' /\ Asked'
  BY DEF IInv, SignalHandler, Exclusion, StartingUp, Asked, mutexes, threads
<1>3. SavesTheTable' /\ Dumped'
  BY DEF IInv, SignalHandler, SavesTheTable, Dumped, data, threads
<1>4. FilesGoOn' /\ ReadsWhatWasWritten'
  BY FilesStay DEF IInv, SignalHandler, threads
<1> QED
  BY <1>1, <1>2, <1>3, <1>4 DEF IInv

-----------------------------------------------------------------------------
(* The steps that change the table, a file or a save *)

LEMMA LoadKeeps == ASSUME IInv, Load PROVE IInv'
<1>1. TypeOK'
  BY DEF IInv, Load, Put, FileOf, TypeOK, mutexes
<1>2. Exclusion' /\ Asked'
  BY DEF IInv, Load, Exclusion, StartingUp, Asked, mutexes
<1>3. SavesTheTable'
  BY DEF IInv, Load, SavesTheTable, Exclusion, StartingUp
<1>4. FilesGoOn'
  BY DEF IInv, Load, FilesGoOn, BeingSaved
<1>5. ReadsWhatWasWritten'
  BY DEF IInv, Load, Put, FileOf, ReadsWhatWasWritten, FilesGoOn, BeingSaved, Exclusion,
     StartingUp, Threads
<1>6. Dumped'
  BY DEF IInv, Load, Put, FileOf, Dumped
<1> QED
  BY <1>1, <1>2, <1>3, <1>4, <1>5, <1>6 DEF IInv

LEMMA ProcessSetKeeps == ASSUME IInv, ProcessSet PROVE IInv'
<1>1. TypeOK'
  BY DEF IInv, ProcessSet, Goes, Put, Requests, TypeOK, Asked, Contents, mutexes
<1>2. Exclusion' /\ Asked'
  BY DEF IInv, ProcessSet, Goes, Exclusion, StartingUp, Asked, mutexes
<1>3. SavesTheTable'
  BY DEF IInv, ProcessSet, Goes, SavesTheTable, Exclusion
<1>4. FilesGoOn'
  BY DEF IInv, ProcessSet, FilesGoOn, BeingSaved
<1>5. ReadsWhatWasWritten'
  BY DEF IInv, ProcessSet, Put, ReadsWhatWasWritten, TypeOK
<1>6. Dumped'
  BY DEF IInv, ProcessSet, Dumped, Exclusion
<1> QED
  BY <1>1, <1>2, <1>3, <1>4, <1>5, <1>6 DEF IInv

LEMMA ProcessStoreKeeps == ASSUME IInv, ProcessStore PROVE IInv'
<1>1. TypeOK'
  BY DEF IInv, ProcessStore, Goes, SaveStarts, Requests, TypeOK, Asked, data, mutexes
<1>2. Exclusion' /\ Asked'
  BY DEF IInv, ProcessStore, Goes, SaveStarts, Exclusion, StartingUp, Asked, TypeOK,
     Threads, mutexes
<1>3. SavesTheTable'
  BY DEF IInv, ProcessStore, Goes, SaveStarts, Requests, SavesTheTable, TypeOK, Asked,
     Threads, data
<1>4. FilesGoOn'
  BY DEF IInv, ProcessStore, SaveStarts, FilesGoOn, BeingSaved, Exclusion, TypeOK, data
<1>5. ReadsWhatWasWritten'
  BY DEF IInv, ProcessStore, ReadsWhatWasWritten, data
<1>6. Dumped'
  BY DEF IInv, ProcessStore, Dumped, Exclusion
<1> QED
  BY <1>1, <1>2, <1>3, <1>4, <1>5, <1>6 DEF IInv

LEMMA MainTruncatesKeeps == ASSUME IInv, Truncates("main") PROVE IInv'
<1>1. TypeOK'
  BY DEF IInv, Truncates, FileOf, Threads, TypeOK, Exclusion, SavesTheTable, Contents,
     mutexes
<1>2. Exclusion' /\ Asked'
  BY DEF IInv, Truncates, Exclusion, StartingUp, Asked, mutexes
<1>3. SavesTheTable'
  BY DEF IInv, Truncates, SavesTheTable
<1>4. FilesGoOn'
  BY DEF IInv, Truncates, FileOf, Threads, FilesGoOn, BeingSaved, TypeOK
<1>5. ReadsWhatWasWritten'
  BY DEF IInv, Truncates, ReadsWhatWasWritten
<1>6. Dumped'
  BY DEF IInv, Truncates, Dumped, Exclusion
<1> QED
  BY <1>1, <1>2, <1>3, <1>4, <1>5, <1>6 DEF IInv

LEMMA DumpTruncatesKeeps == ASSUME IInv, Truncates("dump") PROVE IInv'
<1>1. TypeOK'
  BY DEF IInv, Truncates, FileOf, Threads, TypeOK, SavesTheTable, Contents, mutexes
<1>2. Exclusion' /\ Asked'
  BY DEF IInv, Truncates, Exclusion, StartingUp, Asked, mutexes
<1>3. SavesTheTable'
  BY DEF IInv, Truncates, SavesTheTable
<1>4. FilesGoOn'
  BY DEF IInv, Truncates, FileOf, Threads, FilesGoOn, BeingSaved, TypeOK
<1>5. ReadsWhatWasWritten'
  BY DEF IInv, Truncates, ReadsWhatWasWritten
<1>6. Dumped'
  BY DEF IInv, Truncates, FileOf, Dumped
<1> QED
  BY <1>1, <1>2, <1>3, <1>4, <1>5, <1>6 DEF IInv

LEMMA StoredKeeps == ASSUME IInv, Stored PROVE IInv'
<1>1. TypeOK'
  BY DEF IInv, Stored, Goes, Copied, FileOf, NoSave, TypeOK, SavesTheTable, Threads,
     mutexes
<1>2. Exclusion' /\ Asked'
  BY DEF IInv, Stored, Goes, NoSave, Exclusion, StartingUp, Asked, TypeOK, Threads,
     mutexes
<1>3. SavesTheTable'
  BY DEF IInv, Stored, Goes, SavesTheTable
<1>4. FilesGoOn'
  BY DEF IInv, Stored, Copied, FileOf, FilesGoOn, BeingSaved, SavesTheTable, TypeOK
<1>5. ReadsWhatWasWritten'
  BY DEF IInv, Stored, ReadsWhatWasWritten, SavesTheTable, TypeOK
<1>6. Dumped'
  BY DEF IInv, Stored, Dumped, Exclusion
<1> QED
  BY <1>1, <1>2, <1>3, <1>4, <1>5, <1>6 DEF IInv

LEMMA EndsKeeps == ASSUME IInv, Ends PROVE IInv'
<1>1. TypeOK'
  BY DEF IInv, Ends, Goes, NoSave, TypeOK, Contents
<1>2. Exclusion' /\ Asked'
  BY InstanceAssumption DEF Ends, Goes, NoSave, Threads, Exclusion, Asked
<1>3. SavesTheTable'
  BY DEF Ends, Goes, NoSave, Threads, SavesTheTable
<1>4. FilesGoOn'
  BY DEF IInv, Ends, FileOf, FilesGoOn, BeingSaved
<1>5. ReadsWhatWasWritten'
  BY DEF Ends, ReadsWhatWasWritten
<1>6. Dumped'
  BY DEF Ends, Dumped
<1> QED
  BY <1>1, <1>2, <1>3, <1>4, <1>5, <1>6 DEF IInv

LEMMA DumpTakesKeeps == ASSUME IInv, DumpTakes PROVE IInv'
<1>1. TypeOK'
  BY DEF IInv, DumpTakes, SaveStarts, TypeOK, Contents, data, mutexes
<1>2. Exclusion' /\ Asked'
  BY DEF IInv, DumpTakes, SaveStarts, Exclusion, StartingUp, Asked, TypeOK, Threads,
     mutexes
<1>3. SavesTheTable'
  BY DEF IInv, DumpTakes, SaveStarts, SavesTheTable, TypeOK, Exclusion, Contents, data
<1>4. FilesGoOn'
  BY DEF IInv, DumpTakes, SaveStarts, FilesGoOn, BeingSaved, TypeOK, data
<1>5. ReadsWhatWasWritten'
  BY DEF IInv, DumpTakes, ReadsWhatWasWritten, data
<1>6. Dumped'
  BY DEF IInv, DumpTakes, SaveStarts, Dumped, TypeOK, Threads, data
<1> QED
  BY <1>1, <1>2, <1>3, <1>4, <1>5, <1>6 DEF IInv

LEMMA DumpCopiesKeeps == ASSUME IInv, DumpCopies PROVE IInv'
<1>1. TypeOK'
  BY DEF IInv, DumpCopies, Copied, FileOf, NoSave, TypeOK, SavesTheTable, Threads,
     mutexes
<1>2. Exclusion' /\ Asked'
  BY DEF IInv, DumpCopies, Exclusion, StartingUp, Asked, mutexes
<1>3. SavesTheTable'
  BY DEF IInv, DumpCopies, NoSave, SavesTheTable
<1>4. FilesGoOn'
  BY InstanceAssumption DEF IInv, DumpCopies, Copied, FileOf, FilesGoOn, BeingSaved,
     SavesTheTable, TypeOK, ReadsWhatWasWritten
<1>5. ReadsWhatWasWritten'
  BY DEF IInv, DumpCopies, ReadsWhatWasWritten
<1>6. Dumped'
  BY DEF IInv, DumpCopies, Copied, FileOf, Dumped, SavesTheTable, TypeOK
<1> QED
  BY <1>1, <1>2, <1>3, <1>4, <1>5, <1>6 DEF IInv

-----------------------------------------------------------------------------
(* The process *)

LEMMA InitIInv == Init => IInv
<1> SUFFICES ASSUME Init PROVE IInv
  OBVIOUS
<1>1. TypeOK
  BY DEF Init, TypeOK, NoSave, Threads
<1>2. Exclusion /\ Asked /\ SavesTheTable /\ Dumped
  BY InstanceAssumption DEF Init, Exclusion, StartingUp, Asked, SavesTheTable, Dumped, NoSave, Threads
<1>3. FilesGoOn /\ ReadsWhatWasWritten
  BY DEF Init, FilesGoOn, ReadsWhatWasWritten
<1> QED
  BY <1>1, <1>2, <1>3 DEF IInv

LEMMA StutterKeeps == ASSUME IInv, UNCHANGED vars PROVE IInv'
<1>1. TypeOK' /\ Exclusion' /\ Asked'
  BY DEF IInv, TypeOK, Exclusion, StartingUp, Asked, vars, data, mutexes, threads
<1>2. SavesTheTable' /\ Dumped'
  BY DEF IInv, SavesTheTable, Dumped, vars, data, mutexes, threads
<1>3. FilesGoOn' /\ ReadsWhatWasWritten'
  BY FilesStay DEF IInv, vars, data, threads
<1> QED
  BY <1>1, <1>2, <1>3 DEF IInv

LEMMA MainKeeps == ASSUME IInv, Main PROVE IInv'
<1>1. CASE ConnectToCoordinator \/ SendInstanceName \/ ReceiveInstanceConfiguration \/ ReceiveKeysToLoad
  BY <1>1, StartUpKeeps DEF IInv, TypeOK, ConnectToCoordinator, SendInstanceName,
     ReceiveInstanceConfiguration, ReceiveKeysToLoad
<1>2. CASE StartUpFails \/ ExitGracefully \/ ExitWithError
  BY <1>2, EndsKeeps DEF StartUpFails, ExitGracefully, ExitWithError
<1>3. CASE Load \/ Loaded \/ Lock \/ Unlock \/ Answer \/ AnswerValue \/ Join
  BY <1>3, LoadKeeps, LoadedKeeps, LockKeeps, UnlockKeeps, AnswerKeeps, AnswerValueKeeps, JoinKeeps
<1>4. CASE ProcessSet \/ ProcessStore \/ Truncates("main") \/ Stored \/ ProcessGet \/ ProcessCompaction
  BY <1>4, ProcessSetKeeps, ProcessStoreKeeps, MainTruncatesKeeps, StoredKeeps, ProcessGetKeeps,
     ProcessCompactionKeeps
<1> QED
  BY <1>1, <1>2, <1>3, <1>4 DEF Main

LEMMA DumpIntervalKeeps == ASSUME IInv, DumpInterval PROVE IInv'
BY DumpGoesOnKeeps, DumpLocksKeeps, DumpTakesKeeps, DumpTruncatesKeeps, DumpCopiesKeeps,
   DumpUnlocksKeeps DEF DumpInterval

LEMMA NextKeepsIInv == IInv /\ [Next]_vars => IInv'
<1> SUFFICES ASSUME IInv, [Next]_vars PROVE IInv'
  OBVIOUS
<1>1. CASE Dies
  BY <1>1, EndsKeeps DEF Dies
<1> QED
  BY <1>1, MainKeeps, DumpIntervalKeeps, ReceiveKeeps, StartsKeeps, SignalHandlerKeeps,
     StutterKeeps DEF Next

THEOREM InstanceInvariant == Spec => []IInv
BY InitIInv, NextKeepsIInv, PTL DEF Spec

\* No file goes back, however many sentences, dumps, deaths and starts there are
\* (file_system_save, entry_table_store, entry_table_store_all).
THEOREM FilesNeverGoBack == Spec => []NoFileGoesBack
<1>1. IInv => NoFileGoesBack
  BY DEF IInv, FilesGoOn, NoFileGoesBack
<1> QED
  BY <1>1, InstanceInvariant, PTL

\* The table reads what was written, after any number of evictions and loads
\* (entry_table_put, load_dumped_values).
THEOREM TableReadsWhatWasWritten == Spec => []ReadsWhatWasWritten
<1>1. IInv => ReadsWhatWasWritten
  BY DEF IInv
<1> QED
  BY <1>1, InstanceInvariant, PTL

\* A dump saves one state of the table (dump, entry_table_store_all).
THEOREM DumpSavesOneState == Spec => DumpIsASnapshot
<1>1. ASSUME IInv, [Next]_vars, dump = "save", dump' = "check", pc # "freed"
      PROVE  \A k \in Keys : table[k] # NULL => files[k] = table[k]
  <2>1. todo = {} /\ saving["dump"].stage = "none"
    <3>1. CASE DumpInterval
      BY <3>1, <1>1 DEF DumpInterval, DumpGoesOn, DumpLocks, DumpTakes, Truncates, DumpCopies, DumpUnlocks
    <3>2. ~Loaded
      BY <1>1 DEF Loaded, IInv, Exclusion, StartingUp
    <3>3. ~Ends
      BY <1>1 DEF Ends
    <3>4. CASE Main
      BY <3>2, <3>3, <3>4, <1>1 DEF Main, StartUp, ConnectToCoordinator, SendInstanceName,
         ReceiveInstanceConfiguration, ReceiveKeysToLoad, StartUpFails, Load, Lock, ProcessSet,
         ProcessStore, Truncates, Stored, ProcessGet, ProcessCompaction, Unlock, Answer, AnswerValue,
         Join, ExitGracefully, ExitWithError
    <3> QED
      BY <3>1, <3>3, <3>4, <1>1 DEF Next, Receive, Starts, Dies, SignalHandler, vars, threads
  <2> QED
    BY <1>1, <2>1 DEF IInv, Dumped
<1> QED
  BY <1>1, InstanceInvariant, PTL DEF DumpIsASnapshot, Spec

=============================================================================
