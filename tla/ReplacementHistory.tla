------------------------ MODULE ReplacementHistory -------------------------
(***************************************************************************)
(* EntryTable with a history of which key counted for the algorithm after  *)
(* which, to say what victim LRU and CIRCULAR may choose.                  *)
(***************************************************************************)
EXTENDS EntryTable

VARIABLE older                 \* <<a, b>> when b counted since a last did

WasAtomic(k) == k \in Present /\ IsAtomic(entries[k].length)

\* Under LRU every use of a key counts; under CIRCULAR only the one that makes
\* its value atomic.
Counts(k) ==
    older' = IF Algorithm = "CIRCULAR" /\ WasAtomic(k) THEN older
             ELSE {p \in older : p[1] # k} \cup ((Keys \ {k}) \X {k})

HistoryInit == Init /\ older = {}

HistoryNext ==
    \/ Step /\ IF pc = "put" /\ result' = "ok" THEN Counts(request.key) ELSE UNCHANGED older
    \/ \E k \in Keys : Store(k) /\ IF result' = "ok" THEN Counts(k) ELSE UNCHANGED older
    \/ \E k \in Keys, v \in Values : Put(k, v) /\ UNCHANGED older
    \/ StartCompaction /\ UNCHANGED older

HistorySpec == HistoryInit /\ [][HistoryNext]_<<vars, older>>

\* The key evicted is the atomic one that counted longest ago: under LRU the
\* one least recently SET or STOREd, under CIRCULAR the one that has been
\* atomic for longest.
VictimIsOldest ==
    [][ \A k \in Keys : k \in Present /\ k \notin Present' =>
          \A other \in Present \ {k} : WasAtomic(other) => <<k, other>> \in older ]_<<vars, older>>
=============================================================================
