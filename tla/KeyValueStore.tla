--------------------------- MODULE KeyValueStore ----------------------------
(***************************************************************************)
(* What an instance promises to the coordinator, with nothing of how       *)
(* src/instance/storage keeps it: a map from keys to values whose sizes    *)
(* add up to at most Capacity.  Where a value lies, fragmentation and      *)
(* compaction do not show, except that a SET of a new key may be answered  *)
(* "compact" when its value would fit.                                     *)
(***************************************************************************)
EXTENDS Integers, FiniteSets

CONSTANTS Keys, Values, Capacity,
          Size,                \* how much room each value takes
          Evictable,           \* the values that may be given up
          NoValue, NoRequest

VARIABLES store, request, result

vars == <<store, request, result>>

Request == [key : Keys, value : Values]

Present == {k \in Keys : store[k] # NoValue}

EvictableKeys == {k \in Present : store[k] \in Evictable}

\* The room of the store that is in use: for each key, as much as its value takes.
Room == UNION {{k} \X (1 .. Size[store[k]]) : k \in Present}

Used == Cardinality(Room)

Fits(v) == Used + Size[v] <= Capacity

IsNew == store[request.key] = NoValue

Init ==
    /\ store = [k \in Keys |-> NoValue]
    /\ request = NoRequest
    /\ result = "none"

Ask(k, v) ==
    /\ request = NoRequest
    /\ request' = [key |-> k, value |-> v]
    /\ result' = "none"
    /\ UNCHANGED store

Answer(r) == request' = NoRequest /\ result' = r

\* A key that exists keeps its room: only a value that is no larger replaces it.
Replaces ==
    /\ request # NoRequest /\ ~IsNew
    /\ IF Size[request.value] <= Size[store[request.key]]
       THEN /\ store' = [store EXCEPT ![request.key] = request.value]
            /\ Answer("ok")
       ELSE UNCHANGED store /\ Answer("error")

Inserts ==
    /\ request # NoRequest /\ IsNew /\ Fits(request.value)
    /\ store' = [store EXCEPT ![request.key] = request.value]
    /\ Answer("ok")

AsksForCompaction ==
    /\ request # NoRequest /\ IsNew /\ Fits(request.value)
    /\ Answer("compact")
    /\ UNCHANGED store

\* A key is given up only for a new one that does not fit.
Evicts ==
    /\ request # NoRequest /\ IsNew /\ ~Fits(request.value)
    /\ \E k \in EvictableKeys : store' = [store EXCEPT ![k] = NoValue]
    /\ UNCHANGED <<request, result>>

\* A SET of a new key fails only once nothing is left to give up.
Rejects ==
    /\ request # NoRequest /\ IsNew /\ ~Fits(request.value)
    /\ EvictableKeys = {}
    /\ Answer("error")
    /\ UNCHANGED store

Stores(k) ==
    /\ request = NoRequest
    /\ result' = IF k \in Present THEN "ok" ELSE "error"
    /\ UNCHANGED <<store, request>>

Next ==
    \/ Replaces \/ Inserts \/ AsksForCompaction \/ Evicts \/ Rejects
    \/ \E k \in Keys : Stores(k) \/ \E v \in Values : Ask(k, v)

Spec == Init /\ [][Next]_vars
=============================================================================
