---------------------------- MODULE MCDictionary ----------------------------
(***************************************************************************)
(* Dictionary on small tables, and the refinement of KeyedQueues.          *)
(***************************************************************************)
EXTENDS Dictionary, TLC

CONSTANTS k1, k2, k3, k4, k5

\* Two and two share a bucket in a table of two; all four part in one of four,
\* which is then as full as the one of two was.  The fifth key shares its hash.
MCHash == (k1 :> 0) @@ (k2 :> 2) @@ (k3 :> 5) @@ (k4 :> 7) @@ (k5 :> 7)

Hashes == {Hash[k] : k \in Keys}

\* The data of the elements of hash h in a chain, in its order.
DataIn(chain, h) ==
    LET upTo[i \in 0 .. Len(chain)] ==
            IF i = 0 THEN << >>
            ELSE IF Hash[chain[i].key] = h THEN Append(upTo[i - 1], chain[i].data)
            ELSE upTo[i - 1]
    IN  upTo[Len(chain)]

\* The data of hash h where a search for it looks.
DataOf(h, table) ==
    IF table = << >> THEN << >> ELSE DataIn(table[(h % Len(table)) + 1], h)

\* What is not yet linked again comes after what is.
Stored == [h \in Hashes |-> DataOf(h, elements) \o DataOf(h, old_table)]

\* The keys of one hash are one key for the table.
Queues == INSTANCE KeyedQueues WITH Keys <- Hashes, store <- Stored

\* Whatever buckets keys share and whenever the table grows, each key keeps a
\* queue of its own in the order of its puts.
KeepsItsQueues == Queues!Spec
=============================================================================
