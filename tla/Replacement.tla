---------------------------- MODULE Replacement -----------------------------
(***************************************************************************)
(* The list from which an instance picks the key to evict                  *)
(* (src/instance/storage/replacement/replacement.c): a sequence of         *)
(* [key, size] whose head is the next victim.  The operators return the    *)
(* list that the C function leaves.                                        *)
(***************************************************************************)
EXTENDS SequencesExt

CONSTANT Algorithm             \* replacement->algorithm

Algorithms == {"CIRCULAR", "LRU", "BSU"}

ASSUME AlgorithmAssumption == Algorithm \in Algorithms

ReplacementContains(list, key) == \E i \in DOMAIN list : list[i].key = key

ReplacementRemove(list, key) ==
    RemoveFirstMatch(list, LAMBDA item : item.key = key)

\* The place of the first item smaller than size, or the end of the list.
IndexToInsertBSU(list, size) ==
    LET place == SelectInSeq(list, LAMBDA item : size > item.size)
    IN  IF place = 0 THEN Len(list) + 1 ELSE place

\* Mutants: a key that is used again keeps its place and its old size, under
\* every algorithm; a key that is used again goes to the end, under every one.
ReplacementAddOnce(list, key, size) ==
    IF ReplacementContains(list, key) THEN list
    ELSE Append(list, [key |-> key, size |-> size])
ReplacementAddLast(list, key, size) ==
    Append(ReplacementRemove(list, key), [key |-> key, size |-> size])

ReplacementAdd(list, key, size) ==
    LET item    == [key |-> key, size |-> size]
        without == ReplacementRemove(list, key)
    IN  CASE Algorithm = "CIRCULAR" ->
               IF ReplacementContains(list, key) THEN list ELSE Append(list, item)
          [] Algorithm = "LRU" -> Append(without, item)
          [] Algorithm = "BSU" -> InsertAt(without, IndexToInsertBSU(without, size), item)

ReplacementIsEmpty(list) == list = << >>

\* replacement_take: the head's key, which stays in the list.
ReplacementTake(list) == Head(list).key

-----------------------------------------------------------------------------
(* What the properties say of a list *)

KeysIn(list) == {list[i].key : i \in DOMAIN list}

EachKeyOnce(list) ==
    \A i, j \in DOMAIN list : list[i].key = list[j].key => i = j
=============================================================================
