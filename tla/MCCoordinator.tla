--------------------------- MODULE MCCoordinator ----------------------------
(***************************************************************************)
(* Coordinator on small instances.                                         *)
(***************************************************************************)
EXTENDS Coordinator, TLC

CONSTANTS i1, i2

\* One of the two instances may come back.
MCMaxConnections == (i1 :> 2) @@ (i2 :> 1)
=============================================================================
