---------------------------- MODULE MCPlanifier -----------------------------
(***************************************************************************)
(* Planifier on small instances.                                           *)
(***************************************************************************)
EXTENDS Planifier

CONSTANTS r1, r2

S(op, r) == [op |-> op, recurso |-> r]

\* Under FIFO an ESI runs until it ends or blocks, so resources are contended
\* when somebody blocks while it holds one: r2 starts out taken, the first
\* script waits for it holding r1, the second waits for it too, and if the third
\* frees it for the second these two wait for each other.  The third goes on to
\* a SET that it may not do.
MCGuiones == { <<S("GET", r1), S("GET", r2), S("STORE", r2)>>,
               <<S("GET", r2), S("GET", r1), S("SET", r1)>>,
               <<S("STORE", r2), S("SET", r1)>> }
=============================================================================
