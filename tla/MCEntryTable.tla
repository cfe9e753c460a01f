---------------------------- MODULE MCEntryTable ----------------------------
(***************************************************************************)
(* EntryTable on small instances, and the refinement of KeyValueStore.     *)
(***************************************************************************)
EXTENDS EntryTable

\* Two characters an entry: "a" and "b" take part of one, "cc" a whole one,
\* "ddd" two and "ggggggg" all four; the first three are atomic.
MCLength == [v \in Values |->
    CASE v \in {"a", "b"} -> 1 [] v = "cc" -> 2 [] v = "ddd" -> 3 [] v = "ggggggg" -> 7]

\* The value the buffer holds for k: what entry_table_get would copy out.
Get(k) == CHOOSE v \in Values :
    /\ Length[v] = entries[k].length
    /\ \A i \in Block(k) : data[i] = <<v, i - entries[k].index>>

Stored == [k \in Keys |-> IF HasKey(k) THEN Get(k) ELSE NoEntry]

\* The abstract store read off the dictionary and the buffer.
Promise == INSTANCE KeyValueStore WITH
    Capacity  <- MaxEntries,
    Size      <- [v \in Values |-> ValueEntriesCount(v)],
    Evictable <- {v \in Values : IsAtomic(Length[v])},
    NoValue   <- NoEntry,
    store     <- Stored

\* An instance keeps the last value SET for each key until it gives up the key,
\* gives up keys only when a new one does not fit, refuses a new key only when
\* nothing can be given up, and compacts without a client noticing.
KeepsItsPromise == Promise!Spec
=============================================================================
