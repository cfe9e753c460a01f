---------------------------- MODULE Availability ----------------------------
(***************************************************************************)
(* The bitmap of an instance's storage                                     *)
(* (src/instance/storage/availability/availability.c).  The bit array is   *)
(* the set of the entry numbers whose bit is set; the operators take that  *)
(* set, and the C functions that mutate it return the next one.            *)
(***************************************************************************)
EXTENDS Integers, FiniteSets

CONSTANT MaxEntries            \* availability->max_entries

ASSUME MaxEntriesAssumption == MaxEntries \in Nat \ {0}

Indexes == 0 .. MaxEntries - 1

\* The entries from index on, size of them.
Span(index, size) == index .. index + size - 1

FreeEntriesCount(taken) == MaxEntries - Cardinality(taken)

IsContinuous(taken, index, size) == Span(index, size) \cap taken = {}

HasFreeContinuousSpace(taken, size) ==
    \E i \in 0 .. MaxEntries - size : IsContinuous(taken, i, size)

\* Mutant: the search goes one entry past the last place that fits.
FindsFreeIndexPastEnd(taken, size, index) ==
    /\ index \in 0 .. MaxEntries - size + 1
    /\ IsContinuous(taken, index, size)

\* availability_find_free_countinuous_index returns index: the search is
\* first-fit, so no smaller index would do.
FindsFreeContinuousIndex(taken, size, index) ==
    /\ index \in 0 .. MaxEntries - size
    /\ IsContinuous(taken, index, size)
    /\ \A i \in 0 .. index - 1 : ~IsContinuous(taken, i, size)

\* The free entries would be enough, but no run of them is.
NeedCompaction(taken, size) ==
    /\ FreeEntriesCount(taken) >= size
    /\ ~HasFreeContinuousSpace(taken, size)

TakeSpace(taken, index, size) == taken \cup Span(index, size)

FreeSpace(taken, index, size) == taken \ Span(index, size)
=============================================================================
