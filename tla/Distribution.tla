---------------------------- MODULE Distribution ----------------------------
(***************************************************************************)
(* How the coordinator chooses the instance for a new key                  *)
(* (src/coordinator/coordinator.c): by equitative load (EL), by least      *)
(* space used (LSU) or by the first letter of the key (KE).  list is       *)
(* instances_thread_list in its order, d says which of its instances have  *)
(* is_available, and an operator gives the instance that is returned.      *)
(***************************************************************************)
EXTENDS Integers, SequencesExt

CONSTANTS NULL,                \* no instance
          GONE                 \* a connection that no instance has any more

-----------------------------------------------------------------------------
(* select_instance_to_send_by_equitative_load *)

\* last is last_instance_selected: NULL, an instance, or GONE once that instance
\* has connected again.  It is a copy, compared by thread and socket, which are
\* then others, and the walk to it runs off the list.  So it does on an empty one.
RunsOff(list, last) == IF last = NULL THEN list = << >> ELSE last \notin ToSet(list)

LastPlace(list, last) ==
    IF last = NULL THEN 0 ELSE CHOOSE p \in DOMAIN list : list[p] = last

\* The place that is step places after p in a list of n, going round.
WalkTo(p, step, n) == ((p + step - 1) % n) + 1

IsAvailableAt(list, d, p, step) == d[list[WalkTo(p, step, Len(list))]]

\* Mutant: the walk starts at the last instance chosen and not after it.
FirstStepFromItself(list, d, p, step) ==
    /\ step \in 0 .. Len(list) - 1
    /\ IsAvailableAt(list, d, p, step)
    /\ \A less \in 0 .. step - 1 : ~IsAvailableAt(list, d, p, less)

\* step takes the walk to the first available instance after place p.
FirstStep(list, d, p, step) ==
    /\ step \in 1 .. Len(list)
    /\ IsAvailableAt(list, d, p, step)
    /\ \A less \in 1 .. step - 1 : ~IsAvailableAt(list, d, p, less)

AnyAvailable(list, d) == \E i \in DOMAIN list : d[list[i]]

\* The walk from place p, 0 before anything was chosen.  With nothing available
\* it goes round until something is.
SelectByEL(list, d, p) ==
    list[WalkTo(p, CHOOSE step \in 0 .. Len(list) : FirstStep(list, d, p, step), Len(list))]

-----------------------------------------------------------------------------
(* select_instance_to_send_by_lsu *)

\* The available instances that tie for the fewest entries in use.
LeastUsed(list, d, in_use) ==
    LET available == {i \in ToSet(list) : d[i]}
    IN  {i \in available : \A other \in available : in_use[i] <= in_use[other]}

\* A tie is left to EL, which looks at every available instance and not only
\* at the ones that tie.
SelectByLSU(list, d, in_use, p) ==
    LET least == LeastUsed(list, d, in_use)
    IN  IF least = {} THEN NULL
        ELSE IF Cardinality(least) = 1 THEN CHOOSE i \in least : TRUE
        ELSE SelectByEL(list, d, p)

-----------------------------------------------------------------------------
(* select_instance_by_ke *)

LettersQty == 25               \* 'z' - 'a'

\* keys_per_instance: the quotient is already whole when ceil sees it.
KeysPerInstance(n) == LettersQty \div n

\* A division of int, which rounds towards zero.
Quotient(a, b) == IF a >= 0 THEN a \div b ELSE -((-a) \div b)

\* Mutant: one letter more for each instance.
InstanceIndexOneMore(letter, n) == Quotient(letter, KeysPerInstance(n) + 1)

\* letter is how far the key's first character, in lower case, is from 'a'.
InstanceIndex(letter, n) == Quotient(letter, KeysPerInstance(n))

\* list_filter of instances_thread_list.
AvailableInstances(list, d) ==
    LET upTo[i \in 0 .. Len(list)] ==
            IF i = 0 THEN << >>
            ELSE IF d[list[i]] THEN Append(upTo[i - 1], list[i]) ELSE upTo[i - 1]
    IN  upTo[Len(list)]

\* list_get gives null out of the list, and with no instance, or more than
\* letters, a division by zero ends the process.
DividesByZero(list, d) == Len(AvailableInstances(list, d)) \notin 1 .. LettersQty

SelectByKE(list, d, letter) ==
    LET available == AvailableInstances(list, d)
        index     == InstanceIndex(letter, Len(available))
    IN  IF index \in 0 .. Len(available) - 1 THEN available[index + 1] ELSE NULL
=============================================================================
