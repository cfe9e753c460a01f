----------------------------- MODULE MCRafagas ------------------------------
(***************************************************************************)
(* Rafagas on small instances.  ESIs connect in any order and nothing tells *)
(* one from another but its script, so they may be permuted.               *)
(***************************************************************************)
EXTENDS Rafagas

Simetria == Permutations(ESIs)
=============================================================================
