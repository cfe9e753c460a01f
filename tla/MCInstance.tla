----------------------------- MODULE MCInstance -----------------------------
(***************************************************************************)
(* Instance on small instances.                                            *)
(***************************************************************************)
EXTENDS Instance
=============================================================================
