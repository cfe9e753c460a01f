---------------------------- MODULE KeyedQueues -----------------------------
(***************************************************************************)
(* What a t_dictionary of so-commons promises, with nothing of its table:  *)
(* each key has a queue of data.  A put goes to the end of it, get shows   *)
(* its first and remove takes the first out.                               *)
(***************************************************************************)
EXTENDS Sequences, Integers

CONSTANTS Keys, Data, NULL

VARIABLE store

Get(k) == IF store[k] = << >> THEN NULL ELSE Head(store[k])

Init == store = [k \in Keys |-> << >>]

Put(k, d) == store' = [store EXCEPT ![k] = Append(@, d)]

RemoveKey(k) == store[k] # << >> /\ store' = [store EXCEPT ![k] = Tail(@)]

\* What is first is replaced, unless it is a null.
PutPosta(k, d) ==
    store' = [store EXCEPT ![k] = Append(IF Get(k) = NULL THEN @ ELSE Tail(@), d)]

Clean == store' = [k \in Keys |-> << >>]

Next ==
    \/ Clean
    \/ \E k \in Keys : RemoveKey(k) \/ \E d \in Data : Put(k, d) \/ PutPosta(k, d)

Spec == Init /\ [][Next]_store
=============================================================================
