--------------------------- MODULE MCReplacement ----------------------------
(***************************************************************************)
(* ReplacementHistory under LRU and under CIRCULAR in one run: which of    *)
(* the two, the configuration says at the start.  What its property says   *)
(* of the history is the same for both.                                    *)
(***************************************************************************)
EXTENDS ReplacementHistory

VARIABLE algorithm             \* the configuration's; Algorithm is "LRU" here

CIRCULAR == INSTANCE ReplacementHistory WITH Algorithm <- "CIRCULAR"

MCLength == [v \in Values |-> IF v = "ddd" THEN 3 ELSE 1]

EitherInit == HistoryInit /\ algorithm \in {Algorithm, "CIRCULAR"}

EitherNext ==
    /\ \/ algorithm = Algorithm /\ HistoryNext
       \/ algorithm = "CIRCULAR" /\ CIRCULAR!HistoryNext
    /\ UNCHANGED algorithm

EitherSpec == EitherInit /\ [][EitherNext]_<<vars, older, algorithm>>
=============================================================================
