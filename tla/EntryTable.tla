----------------------------- MODULE EntryTable -----------------------------
(***************************************************************************)
(* The storage of one instance (src/instance/storage/entry-table.c): a     *)
(* dictionary of keys over a buffer of MaxEntries entries of EntrySize     *)
(* characters, with the bitmap of Availability and the victims' list of    *)
(* Replacement.  entry_table_put and entry_table_compact are loops: one    *)
(* action here is one turn of theirs.                                      *)
(*                                                                         *)
(* A value is an opaque constant with a length; what the buffer holds in   *)
(* an entry is <<v, j>>, the j-th piece of v (pieces count from 0).        *)
(***************************************************************************)
EXTENDS Availability, Replacement

CONSTANTS Keys, Values,
          EntrySize,           \* table->entry_size, in characters
          Length,              \* strlen of each value
          NoEntry, NoRequest, Blank

ASSUME EntrySizeAssumption == EntrySize \in Nat \ {0}

\* No client can SET an empty value: the parser of the scripts asks for one.
ASSUME LengthAssumption == Length \in [Values -> Nat \ {0}]

VARIABLES entries,             \* table->entries: what a key maps to
          taken,               \* table->availability
          data,                \* table->data, by entry number
          replacement,         \* table->replacement
          pc,                  \* the loop the instance is in
          request,             \* the arguments of entry_table_put
          start_index,         \* the local of entry_table_compact
          result               \* what the last operation answered

vars == <<entries, taken, data, replacement, pc, request, start_index, result>>

-----------------------------------------------------------------------------

\* _calculate_value_length_entries_count: length / entry_size, rounded up.
EntriesCount(length) ==
    length \div EntrySize + (IF length % EntrySize > 0 THEN 1 ELSE 0)

ValueEntriesCount(v) == EntriesCount(Length[v])

Entry == [index : Indexes, length : {Length[v] : v \in Values}]

Request == [key : Keys, value : Values]

ASSUME NullAssumption == NoEntry \notin Entry \cup Values /\ NoRequest \notin Request

Pieces == {<<v, j>> : v \in Values, j \in Indexes}

HasKey(k) == entries[k] # NoEntry

Present == {k \in Keys : HasKey(k)}

IsAtomic(length) == length <= EntrySize

\* The entries of the buffer that the dictionary gives to k.
Block(k) == Span(entries[k].index, EntriesCount(entries[k].length))

\* _copy_value_in_data
CopyValue(v, index) ==
    [i \in Indexes |-> IF i \in Span(index, ValueEntriesCount(v))
                       THEN <<v, i - index>> ELSE data[i]]

\* Mutant: the check for atomicity is dropped.
AddAnyToReplacement(list, k, length) == ReplacementAdd(list, k, length)

\* _entry_table_replacement_add, for the length the entry has by then.
AddToReplacement(list, k, length) ==
    IF IsAtomic(length) THEN ReplacementAdd(list, k, length) ELSE list

-----------------------------------------------------------------------------
(* entry_table_put *)

\* The instance takes a SET from its socket and calls entry_table_put.
Put(k, v) ==
    /\ pc = "idle"
    /\ pc' = "put"
    /\ request' = [key |-> k, value |-> v]
    /\ result' = "none"
    /\ UNCHANGED <<entries, taken, data, replacement, start_index>>

\* entry_table_put returns.
Answer(r) ==
    /\ pc' = "idle"
    /\ request' = NoRequest
    /\ result' = r
    /\ UNCHANGED start_index

EntriesNeeded == ValueEntriesCount(request.value)

\* _entry_table_update, and its result -1: the new value takes more entries.
UpdateBigger ==
    /\ pc = "put" /\ HasKey(request.key)
    /\ EntriesNeeded > EntriesCount(entries[request.key].length)
    /\ Answer("error")
    /\ UNCHANGED <<entries, taken, data, replacement>>

\* _entry_table_update: frees the entries the new value does not need.
Update ==
    /\ pc = "put" /\ HasKey(request.key)
    /\ LET entry       == entries[request.key]
           old_count   == EntriesCount(entry.length)
           new_length  == Length[request.value]
       IN  /\ EntriesNeeded <= old_count
           /\ taken' = FreeSpace(taken, entry.index + EntriesNeeded,
                                 old_count - EntriesNeeded)
           /\ entries' = [entries EXCEPT ![request.key].length = new_length]
           /\ data' = CopyValue(request.value, entry.index)
           /\ replacement' = AddToReplacement(replacement, request.key, new_length)
    /\ Answer("ok")

\* The loop's first branch: -2, the coordinator has to order a compaction.
PutNeedsCompaction ==
    /\ pc = "put" /\ ~HasKey(request.key)
    /\ NeedCompaction(taken, EntriesNeeded)
    /\ Answer("compact")
    /\ UNCHANGED <<entries, taken, data, replacement>>

\* Mutant: the SET is refused without trying to evict.
PutFullEarly ==
    /\ pc = "put" /\ ~HasKey(request.key)
    /\ FreeEntriesCount(taken) < EntriesNeeded
    /\ Answer("error")
    /\ UNCHANGED <<entries, taken, data, replacement>>

\* Too few free entries and nobody to evict: -1.
PutFull ==
    /\ pc = "put" /\ ~HasKey(request.key)
    /\ FreeEntriesCount(taken) < EntriesNeeded
    /\ ReplacementIsEmpty(replacement)
    /\ Answer("error")
    /\ UNCHANGED <<entries, taken, data, replacement>>

\* entry_table_remove of the list's head; the loop tries again.
PutEvicts ==
    /\ pc = "put" /\ ~HasKey(request.key)
    /\ FreeEntriesCount(taken) < EntriesNeeded
    /\ ~ReplacementIsEmpty(replacement)
    /\ LET victim == ReplacementTake(replacement)
           entry  == entries[victim]
       IN  /\ taken' = FreeSpace(taken, entry.index, EntriesCount(entry.length))
           /\ entries' = [entries EXCEPT ![victim] = NoEntry]
           /\ replacement' = ReplacementRemove(replacement, victim)
    /\ UNCHANGED <<data, pc, request, start_index, result>>

\* _entry_table_try_put at index i.
Place(i) ==
    /\ taken' = TakeSpace(taken, i, EntriesNeeded)
    /\ data' = CopyValue(request.value, i)
    /\ entries' = [entries EXCEPT ![request.key] =
                     [index |-> i, length |-> Length[request.value]]]
    /\ replacement' = AddToReplacement(replacement, request.key, Length[request.value])
    /\ Answer("ok")

\* The loop's last branch.  The code has a -1 for the case of no index; the
\* loop's first branch has already excluded it.
PutPlaces ==
    /\ pc = "put" /\ ~HasKey(request.key)
    /\ FreeEntriesCount(taken) >= EntriesNeeded
    /\ ~NeedCompaction(taken, EntriesNeeded)
    /\ IF HasFreeContinuousSpace(taken, EntriesNeeded)
       THEN \E i \in Indexes :
              FindsFreeContinuousIndex(taken, EntriesNeeded, i) /\ Place(i)
       ELSE Answer("error") /\ UNCHANGED <<entries, taken, data, replacement>>

-----------------------------------------------------------------------------
(* entry_table_store: a STORE is a use of the key, then a write to a file. *)

Store(k) ==
    /\ pc = "idle"
    /\ IF HasKey(k)
       THEN /\ replacement' = AddToReplacement(replacement, k, entries[k].length)
            /\ result' = "ok"
       ELSE /\ result' = "error"
            /\ UNCHANGED replacement
    /\ UNCHANGED <<entries, taken, data, pc, request, start_index>>

-----------------------------------------------------------------------------
(* entry_table_compact *)

StartCompaction ==
    /\ pc = "idle"
    /\ pc' = "compact"
    /\ start_index' = 0
    /\ UNCHANGED <<entries, taken, data, replacement, request, result>>

\* _entry_table_find_first_entry_by_index returns the entry of k.
FindsFirstEntry(k) ==
    /\ HasKey(k) /\ entries[k].index >= start_index
    /\ \A other \in Present :
         entries[other].index >= start_index => entries[k].index <= entries[other].index

\* Mutant: the space is given back after the new place is taken.
MoveSpaceSwapped(source, destination, size) ==
    FreeSpace(TakeSpace(taken, destination, size), source, size)

\* The bitmap after a move: free the old place, then take the new one.
MoveSpace(source, destination, size) ==
    TakeSpace(FreeSpace(taken, source, size), destination, size)

\* Mutant: the last entry, only partly used by the value, is not moved.
MoveDataShort(source, destination, size) ==
    [i \in Indexes |-> IF i \in Span(destination, size - 1)
                       THEN data[source + (i - destination)] ELSE data[i]]

\* The data after memmove of size entries from source to destination.
MoveData(source, destination, size) ==
    [i \in Indexes |-> IF i \in Span(destination, size)
                       THEN data[source + (i - destination)] ELSE data[i]]

\* Mutants: the cursor goes past the entry's old place, or stays when the entry
\* was already where it belongs.
NextStartIndexFromSource(k) == entries[k].index + EntriesCount(entries[k].length)
NextStartIndexOnlyIfMoved(k) ==
    IF entries[k].index = start_index THEN start_index
    ELSE start_index + EntriesCount(entries[k].length)

NextStartIndex(k) == start_index + EntriesCount(entries[k].length)

\* One turn of the loop: _entry_table_move_entry, then start_index advances.
CompactMoves ==
    /\ pc = "compact"
    /\ \E k \in Keys :
         /\ FindsFirstEntry(k)
         /\ LET source == entries[k].index
                size   == EntriesCount(entries[k].length)
            IN  /\ taken' = MoveSpace(source, start_index, size)
                /\ data' = MoveData(source, start_index, size)
                /\ entries' = [entries EXCEPT ![k].index = start_index]
                /\ start_index' = NextStartIndex(k)
    /\ UNCHANGED <<replacement, pc, request, result>>

CompactEnds ==
    /\ pc = "compact"
    /\ ~\E k \in Keys : FindsFirstEntry(k)
    /\ pc' = "idle"
    /\ start_index' = 0
    /\ UNCHANGED <<entries, taken, data, replacement, request, result>>

-----------------------------------------------------------------------------

Init ==
    /\ entries = [k \in Keys |-> NoEntry]
    /\ taken = {}
    /\ data = [i \in Indexes |-> Blank]
    /\ replacement = << >>
    /\ pc = "idle"
    /\ request = NoRequest
    /\ start_index = 0
    /\ result = "none"

\* What the instance's thread does on its own once an operation has begun.
Step ==
    \/ UpdateBigger \/ Update
    \/ PutNeedsCompaction \/ PutFull \/ PutEvicts \/ PutPlaces
    \/ CompactMoves \/ CompactEnds

Next ==
    \/ Step
    \/ \E k \in Keys : Store(k) \/ \E v \in Values : Put(k, v)
    \/ StartCompaction

Spec == Init /\ [][Next]_vars /\ WF_vars(Step)

-----------------------------------------------------------------------------
(* Properties *)

TypeOK ==
    /\ entries \in [Keys -> Entry \cup {NoEntry}]
    /\ taken \subseteq Indexes
    /\ data \in [Indexes -> Pieces \cup {Blank}]
    /\ replacement \in Seq([key : Keys, size : Nat \ {0}])
    /\ pc \in {"idle", "put", "compact"}
    /\ request \in Request \cup {NoRequest}
    /\ start_index \in 0 .. MaxEntries
    /\ result \in {"none", "ok", "error", "compact"}

\* Two keys never share an entry of the buffer, whatever sequence of SETs that
\* shrink a value, evictions and compaction moves led here.
BlocksDisjoint ==
    \A k1, k2 \in Present : k1 # k2 => Block(k1) \cap Block(k2) = {}

\* The bitmap marks exactly the entries the dictionary uses: no entry leaks
\* when a value shrinks or is evicted, and none is given out while in use.
BitmapMatchesEntries == taken = UNION {Block(k) : k \in Present}

\* Between two turns of the compaction, everything below start_index is in use
\* by entries that end below it, so the next move cannot reach another key.
CompactedPrefix ==
    pc = "compact" =>
        /\ 0 .. start_index - 1 \subseteq taken
        /\ \A k \in Present : entries[k].index < start_index =>
               \A i \in Block(k) : i < start_index

\* The bitmap, the dictionary and the compaction's cursor agree.
Layout == BlocksDisjoint /\ BitmapMatchesEntries /\ CompactedPrefix

\* The victims' list holds each atomic key of the dictionary once and nothing
\* else: entry_table_put evicts its head without asking whether the dictionary
\* still has it, and answers -1 only because the list is empty.
ReplacementMatchesEntries ==
    /\ KeysIn(replacement) = {k \in Present : IsAtomic(entries[k].length)}
    /\ EachKeyOnce(replacement)

\* What the buffer holds for a key is one whole value of the entry's length.
WholeValues ==
    \A k \in Present : \E v \in Values :
        /\ Length[v] = entries[k].length
        /\ \A i \in Block(k) : data[i] = <<v, i - entries[k].index>>

\* A compaction leaves every free entry in one run, so the SET that the
\* coordinator repeats after it is not answered -2 again, unless it has to evict:
\* what it evicts may leave holes anew.
CompactionMakesRoom ==
    [][ pc = "compact" /\ pc' = "idle" =>
          \A size \in 1 .. MaxEntries : ~NeedCompaction(taken', size) ]_vars

\* Under BSU the victim is a largest atomic value as values are now, not as
\* they were when their keys entered the list.
BSUEvictsLargest ==
    [][ \A k \in Keys : HasKey(k) /\ ~HasKey(k)' =>
          \A other \in Present : IsAtomic(entries[other].length) =>
              entries[other].length <= entries[k].length ]_vars

\* Every SET and every compaction ends: evicting cannot go on forever, and the
\* compaction's cursor passes every entry.
OperationsEnd == pc # "idle" ~> pc = "idle"
=============================================================================
