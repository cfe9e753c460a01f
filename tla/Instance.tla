------------------------------ MODULE Instance ------------------------------
(***************************************************************************)
(* The process of an instance (instance.c): the thread that serves the     *)
(* coordinator, the thread that dumps the table to files every interval,   *)
(* the mutex between them, the files (file-system.c), and its ends: an     *)
(* interruption, an error, a crash at any step, after which it starts      *)
(* again and loads the files.  The table is here what each key reads;      *)
(* EntryTable is its inside, and says which SETs fail and what they evict. *)
(***************************************************************************)
EXTENDS Naturals, FiniteSets

CONSTANTS
    Keys, Values,
    NULL,
    MaxSentences, MaxStarts      \* bounds

Threads == {"main", "dump"}
\* What a file half written reads: nothing up to the first zero, or a mixture.
Contents == Values \cup {"empty", "mixed"}

ASSUME InstanceAssumption ==
    /\ Values \cap {"empty", "mixed", "absent"} = {}
    /\ NULL \notin Threads \cup Contents
    /\ MaxSentences \in Nat /\ MaxStarts \in Nat

VARIABLES
    table,             \* what each key reads, or NULL
    files,             \* what the file of each key reads, or "absent"
    atomic_operation,  \* the thread that holds the mutex, or NULL
    pc, request,       \* the main thread and what it was asked
    loading,           \* the keys that it still has to load
    dump, todo,        \* the dump thread and the keys it still has to save
    saving,            \* the call of file_system_save of each thread
    instance_running,  \* FALSE from an interruption, which closes the socket, or from its end
    sentences, starts, \* counters of the bounds
    since,             \* history: what each file may read, since the last STORE
    cut                \* history: the keys whose save an end of the process cut

mutexes == <<atomic_operation>>
data == <<table, files, since, cut>>
threads == <<pc, request, loading, dump, todo, saving>>
counters == <<sentences, starts>>
vars == <<data, mutexes, threads, instance_running, counters>>

-----------------------------------------------------------------------------
(* Files *)

NoSave == [stage |-> "none", key |-> NULL, value |-> NULL]

\* file_system_save of a value that was read from the table.
SaveStarts(t, k, value) ==
    saving' = [saving EXCEPT ![t] = [stage |-> "open", key |-> k, value |-> value]]

\* Mutant: every key goes to one file.
OneFile(k) == CHOOSE j \in Keys : TRUE

\* _make_full_file_name
FileOf(k) == k

\* The file takes the length of its new value: a new one reads zeros, another
\* what it had, cut or filled with zeros, which counts only if the process Ends.
Truncates(t) ==
    /\ saving[t].stage = "open"
    /\ LET k == FileOf(saving[t].key)
       IN  files' = [files EXCEPT ![k] = IF @ = "absent" THEN "empty" ELSE @]
    /\ saving' = [saving EXCEPT ![t].stage = "copy"]
    /\ UNCHANGED <<table, since, cut, mutexes, pc, request, loading, dump, todo, instance_running, counters>>

Copied(t) == [files EXCEPT ![FileOf(saving[t].key)] = saving[t].value]

-----------------------------------------------------------------------------
(* The main thread *)

Goes(where) == pc' = where

NoRequest == [op |-> NULL, key |-> NULL, value |-> NULL]

\* entry_table_put: a key is updated unless the value takes more entries, or
\* put after some evictions; or there is no room, or there is in pieces.
Put(k, value, result) ==
    \E evicted \in SUBSET {j \in Keys \ {k} : table[j] \notin {NULL, "empty"}} :
        /\ table[k] # NULL => evicted = {} /\ result # "NEED_COMPACTION"
        /\ table' = [j \in Keys |-> IF j \in evicted THEN NULL
                                    ELSE IF j = k /\ result = "OK" THEN value ELSE table[j]]

\* The memory is lost, and the files keep what was being copied.
Ends ==
    /\ Goes("off")
    /\ table' = [k \in Keys |-> NULL]
    /\ LET half == {k \in Keys : \E t \in Threads :
                       saving[t].stage = "copy" /\ FileOf(saving[t].key) = k}
       IN  /\ cut' = cut \cup half
           /\ \E mixed \in SUBSET half :
                 files' = [k \in Keys |-> IF k \in mixed THEN "mixed" ELSE files[k]]
    /\ saving' = [t \in Threads |-> NoSave]
    /\ dump' = "none" /\ todo' = {} /\ loading' = {} /\ atomic_operation' = NULL
    /\ request' = NoRequest
    /\ UNCHANGED <<since, instance_running, counters>>

\* The process, with its configuration and the folder of its files.
Starts ==
    /\ pc = "off" /\ starts < MaxStarts
    /\ starts' = starts + 1
    /\ instance_running' = TRUE
    /\ Goes("connect")
    /\ UNCHANGED <<data, mutexes, request, loading, dump, todo, saving, sentences>>

StartUp(from, to) ==
    /\ pc = from /\ Goes(to)
    /\ UNCHANGED <<data, mutexes, request, dump, todo, saving, instance_running, counters>>

\* What it says to the coordinator, and waits for: that it is an instance, ...
ConnectToCoordinator == StartUp("connect", "name") /\ UNCHANGED loading

\* ... its name, that no other may have, ...
SendInstanceName == StartUp("name", "configure") /\ UNCHANGED loading

\* ... the size of its table, which is empty until it loads ...
ReceiveInstanceConfiguration == StartUp("configure", "keys") /\ UNCHANGED loading

\* ... the keys that the coordinator believes it has.
ReceiveKeysToLoad == StartUp("keys", "load") /\ loading' \in SUBSET Keys

\* A coordinator that is gone, a name in use, a folder that cannot be made; a
\* list of keys cut short is a null that is read.  After an interruption, which
\* closes the socket if there is one already, what had come is still received.
StartUpFails == pc \in {"connect", "name", "configure", "keys"} /\ Ends

\* A key without a file is skipped; the first that cannot be put ends the load.
Load ==
    /\ pc = "load" /\ loading # {}
    /\ \E k \in loading, result \in {"OK", "FAILED", "NEED_COMPACTION"} :
          IF files[FileOf(k)] = "absent"
          THEN /\ result = "OK"
               /\ loading' = loading \ {k} /\ UNCHANGED table
          ELSE /\ Put(k, files[FileOf(k)], result)
               /\ loading' = IF result = "OK" THEN loading \ {k} ELSE {}
    /\ UNCHANGED <<files, since, cut, mutexes, pc, request, dump, todo, saving, instance_running, counters>>

Loaded ==
    /\ pc = "load" /\ loading = {}
    /\ Goes("serve")
    /\ dump' = "check"
    /\ UNCHANGED <<data, mutexes, request, loading, todo, saving, instance_running, counters>>

\* The key of a GET makes no difference to it.
Requests == [op : {"SET"}, key : Keys, value : Values]
                \cup [op : {"STORE"}, key : Keys, value : {NULL}]
                \cup [op : {"GET", "START_COMPACTION", "GET_KEY_VALUE", "HEALTH_CHECK"},
                       key : {NULL}, value : {NULL}]

\* A message; of a coordinator that is gone, nothing or part of one.
Receive ==
    /\ pc = "serve" /\ instance_running
    /\ \/ /\ sentences < MaxSentences
          /\ sentences' = sentences + 1
          /\ request' \in Requests
          /\ Goes(IF request'.op \in {"GET_KEY_VALUE", "HEALTH_CHECK"} THEN "answer" ELSE "lock")
          /\ UNCHANGED instance_running
       \/ /\ instance_running' = FALSE
          /\ UNCHANGED <<sentences, pc, request>>
       \/ /\ Goes("freed")
          /\ UNCHANGED <<sentences, instance_running, request>>
    /\ UNCHANGED <<data, mutexes, loading, dump, todo, saving, starts>>

\* Mutant: the sentence is processed without the mutex.
LockNothing ==
    /\ pc = "lock"
    /\ Goes("process")
    /\ UNCHANGED <<data, mutexes, request, loading, dump, todo, saving, instance_running, counters>>

Lock ==
    /\ pc = "lock" /\ atomic_operation = NULL
    /\ atomic_operation' = "main"
    /\ Goes("process")
    /\ UNCHANGED <<data, request, loading, dump, todo, saving, instance_running, counters>>

\* process_sentence.  A GET only reads; a STORE reads and saves.
ProcessSet ==
    /\ pc = "process" /\ request.op = "SET"
    /\ \E result \in {"OK", "FAILED", "NEED_COMPACTION"} :
          /\ Put(request.key, request.value, result)
          /\ since' = IF result = "OK"
                      THEN [since EXCEPT ![request.key] = @ \cup {request.value}] ELSE since
    /\ Goes("unlock")
    /\ UNCHANGED <<files, cut, mutexes, request, loading, dump, todo, saving, instance_running, counters>>

ProcessStore ==
    /\ pc = "process" /\ request.op = "STORE"
    /\ IF table[request.key] = NULL
       THEN Goes("unlock") /\ UNCHANGED saving
       ELSE SaveStarts("main", request.key, table[request.key]) /\ Goes("save")
    /\ UNCHANGED <<data, mutexes, request, loading, dump, todo, instance_running, counters>>

\* Mutant: the value is answered for before it is copied.
StoredBeforeCopy ==
    /\ pc = "save"
    /\ saving' = [saving EXCEPT !["main"] = NoSave]
    /\ since' = [since EXCEPT ![request.key] = {saving["main"].value}]
    /\ cut' = cut \ {request.key}
    /\ Goes("unlock")
    /\ UNCHANGED <<table, files, mutexes, request, loading, dump, todo, instance_running, counters>>

Stored ==
    /\ pc = "save" /\ saving["main"].stage = "copy"
    /\ files' = Copied("main")
    /\ saving' = [saving EXCEPT !["main"] = NoSave]
    /\ since' = [since EXCEPT ![request.key] = {saving["main"].value}]
    /\ cut' = cut \ {request.key}
    /\ Goes("unlock")
    /\ UNCHANGED <<table, mutexes, request, loading, dump, todo, instance_running, counters>>

ProcessGet ==
    /\ pc = "process" /\ request.op = "GET"
    /\ Goes("unlock")
    /\ UNCHANGED <<data, mutexes, request, loading, dump, todo, saving, instance_running, counters>>

\* entry_table_compact does not advance on an entry without length, unless
\* another of the same index comes before it in the dictionary.
ProcessCompaction ==
    /\ pc = "process" /\ request.op = "START_COMPACTION"
    /\ LET full == {k \in Keys : table[k] \notin {NULL, "empty"}}
           empty == {k \in Keys : table[k] = "empty"}
       IN  \/ (full # {} \/ empty = {}) /\ Goes("unlock")
           \/ empty # {} /\ Goes("compacting")
    /\ UNCHANGED <<data, mutexes, request, loading, dump, todo, saving, instance_running, counters>>

Unlock ==
    /\ pc = "unlock"
    /\ atomic_operation' = NULL
    /\ Goes("answer")
    /\ UNCHANGED <<data, request, loading, dump, todo, saving, instance_running, counters>>

\* send: on a socket that the interruption closed, or the coordinator reset, it
\* fails and the process ends with an error.
Answer ==
    /\ pc = "answer" /\ request.op # "GET_KEY_VALUE"
    /\ Goes("freed") \/ (instance_running /\ Goes("serve"))
    /\ request' = NoRequest
    /\ UNCHANGED <<data, mutexes, loading, dump, todo, saving, instance_running, counters>>

\* wait_for_key_value_requests: the key may not come, or its value not go, and
\* the process goes on; it reads the table without the mutex.
AnswerValue ==
    /\ pc = "answer" /\ request.op = "GET_KEY_VALUE"
    /\ Goes("serve")
    /\ request' = NoRequest
    /\ instance_running' \in {instance_running, FALSE}
    /\ UNCHANGED <<data, mutexes, loading, dump, todo, saving, counters>>

\* Out of the loop, the dump thread is waited for.
Join ==
    /\ pc = "serve" /\ ~instance_running
    /\ Goes("join")
    /\ UNCHANGED <<data, mutexes, request, loading, dump, todo, saving, instance_running, counters>>

\* exit_gracefully after the join, and after an error, without it.
ExitGracefully == pc = "join" /\ dump = "none" /\ Ends
ExitWithError == pc = "freed" /\ Ends

Dies == pc # "off" /\ Ends

-----------------------------------------------------------------------------
(* The dump thread *)

\* Mutant: the thread goes on whatever the flag says.
DumpForEver ==
    /\ dump = "check"
    /\ dump' = "sleep"
    /\ UNCHANGED <<data, mutexes, pc, request, loading, todo, saving, instance_running, counters>>

DumpGoesOn ==
    /\ dump = "check"
    /\ dump' = IF instance_running THEN "sleep" ELSE "none"
    /\ UNCHANGED <<data, mutexes, pc, request, loading, todo, saving, instance_running, counters>>

\* After the interval; entry_table_store_all lists the keys.  An error ended
\* the process with the mutex destroyed and the table freed, in use or not.
DumpLocks ==
    /\ dump = "sleep" /\ atomic_operation = NULL
    /\ atomic_operation' = "dump"
    /\ todo' = {k \in Keys : table[k] # NULL}
    /\ dump' = "save"
    /\ UNCHANGED <<data, pc, request, loading, saving, instance_running, counters>>

\* entry_table_get, here of a table that may be freed.
DumpTakes ==
    /\ dump = "save" /\ saving["dump"].stage = "none"
    /\ \E k \in todo :
          /\ todo' = todo \ {k}
          /\ IF table[k] = NULL THEN UNCHANGED saving
             ELSE \E value \in {table[k]} \cup IF pc = "freed" THEN {"mixed"} ELSE {} :
                     SaveStarts("dump", k, value)
    /\ UNCHANGED <<data, mutexes, pc, request, loading, dump, instance_running, counters>>

DumpCopies ==
    /\ saving["dump"].stage = "copy"
    /\ files' = Copied("dump")
    /\ saving' = [saving EXCEPT !["dump"] = NoSave]
    /\ cut' = IF pc = "freed" THEN cut \cup {saving["dump"].key} ELSE cut
    /\ UNCHANGED <<table, since, mutexes, pc, request, loading, dump, todo, instance_running, counters>>

\* Mutant: one dump and no more.
DumpOnce ==
    /\ dump = "save" /\ todo = {} /\ saving["dump"].stage = "none"
    /\ atomic_operation' = NULL
    /\ dump' = "none"
    /\ UNCHANGED <<data, pc, request, loading, todo, saving, instance_running, counters>>

\* The inner result of entry_table_store_all hides the outer: never an error.
DumpUnlocks ==
    /\ dump = "save" /\ todo = {} /\ saving["dump"].stage = "none"
    /\ atomic_operation' = NULL
    /\ dump' = "check"
    /\ UNCHANGED <<data, pc, request, loading, todo, saving, instance_running, counters>>

-----------------------------------------------------------------------------
(* Outside *)

\* SIGINT: the socket is closed and both loops are told.
SignalHandler ==
    /\ pc # "off" /\ instance_running
    /\ instance_running' = FALSE
    /\ UNCHANGED <<data, mutexes, threads, counters>>

-----------------------------------------------------------------------------
Init ==
    /\ table = [k \in Keys |-> NULL] /\ files = [k \in Keys |-> "absent"]
    /\ atomic_operation = NULL
    /\ pc = "off" /\ request = NoRequest
    /\ loading = {} /\ dump = "none" /\ todo = {}
    /\ saving = [t \in Threads |-> NoSave]
    /\ instance_running = TRUE
    /\ sentences = 0 /\ starts = 0
    /\ since = [k \in Keys |-> {"absent"}] /\ cut = {}

Main ==
    \/ ConnectToCoordinator \/ SendInstanceName \/ ReceiveInstanceConfiguration
    \/ ReceiveKeysToLoad \/ StartUpFails
    \/ Load \/ Loaded \/ Lock \/ ProcessSet \/ ProcessStore \/ Truncates("main") \/ Stored
    \/ ProcessGet \/ ProcessCompaction \/ Unlock \/ Answer \/ AnswerValue
    \/ Join \/ ExitGracefully \/ ExitWithError

DumpInterval ==
    DumpGoesOn \/ DumpLocks \/ DumpTakes \/ Truncates("dump") \/ DumpCopies \/ DumpUnlocks

Next == Main \/ DumpInterval \/ Receive \/ Starts \/ Dies \/ SignalHandler

Spec == Init /\ [][Next]_vars

\* Both threads run, and the coordinator answers a new instance or is found gone;
\* sentences, signals and deaths need not come.
FairSpec == Spec /\ WF_vars(DumpInterval) /\ WF_vars(Main)

-----------------------------------------------------------------------------
(* Properties *)

TypeOK ==
    /\ table \in [Keys -> Contents \cup {NULL}] /\ files \in [Keys -> Contents \cup {"absent"}]
    /\ atomic_operation \in Threads \cup {NULL}
    /\ pc \in {"off", "connect", "name", "configure", "keys", "load", "serve", "lock",
              "process", "save", "compacting", "unlock", "answer", "join", "freed"}
    /\ dump \in {"none", "check", "sleep", "save"}
    /\ loading \subseteq Keys /\ todo \subseteq Keys /\ cut \subseteq Keys
    /\ saving \in [Threads -> [stage : {"none", "open", "copy"}, key : Keys \cup {NULL},
                               value : Contents \cup {NULL}]]
    /\ since \in [Keys -> SUBSET (Contents \cup {"absent"})]

BeingSaved(k) == \E t \in Threads : saving[t].stage = "copy" /\ saving[t].key = k

\* No file goes back: from a STORE that was answered on, a file reads what was
\* stored or was SET later, through dumps, evictions, crashes and loads, as
\* long as no end of the process cuts a save of it.  (With the types of all.)
NoFileGoesBack ==
    TypeOK /\ \A k \in Keys \ cut : BeingSaved(k) \/ files[k] \in since[k]

\* And so does the table, after the files are loaded as well.
ReadsWhatWasWritten == \A k \in Keys \ cut : table[k] \in since[k] \cup {NULL}

\* When the dump thread lets the mutex go every key of the table is in its
\* file as it is then: no sentence got in between, nor a save of the other thread.
DumpIsASnapshot ==
    [][ dump = "save" /\ dump' = "check" /\ pc # "freed"
          => \A k \in Keys : table[k] # NULL => files[k] = table[k] ]_vars

\* A value stays out of its file only until the next dump, while the process goes on.
DumpHappens ==
    \A k \in Keys, v \in Values :
        table[k] = v ~> files[k] = v \/ table[k] # v \/ ~instance_running \/ pc = "compacting"

\* An instance told to stop stops, once its dump thread has.
Stops == ~instance_running ~> pc = "off" \/ pc = "compacting"

=============================================================================
