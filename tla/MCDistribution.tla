--------------------------- MODULE MCDistribution ---------------------------
(***************************************************************************)
(* Distribution while instances come, go, are chosen for new keys and      *)
(* receive the sentences of the keys they have.                            *)
(***************************************************************************)
EXTENDS Distribution

CONSTANTS Instances,
          MaxEntries           \* entries of an instance, which only LSU looks at

\* What stands for a connection that is no instance's.
ASSUME NoInstance == NULL # GONE /\ {NULL, GONE} \cap Instances = {}

ASSUME EntriesAssumption == MaxEntries \in Nat

VARIABLES distribution,        \* the configuration's: EL or LSU
          list, is_available, entries_in_use,
          last,                \* last_instance_selected
          with_keys,           \* the instances that some key is located in
          dead,                \* the coordinator has died of a null pointer
          turns,               \* under EL, who was chosen while each one waits its turn
          fuller               \* under LSU, who was chosen since a least used one was

vars == <<distribution, list, is_available, entries_in_use, last, with_keys, dead,
          turns, fuller>>

Init ==
    /\ distribution \in {"EL", "LSU"}
    /\ list = << >>
    /\ is_available = [i \in Instances |-> FALSE]
    /\ entries_in_use = [i \in Instances |-> 0]
    /\ last = NULL
    /\ with_keys = {}
    /\ dead = FALSE
    /\ turns = [i \in Instances |-> {}]
    /\ fuller = {}

\* check_if_exists_or_create_new_instance: an instance that comes back keeps its
\* place and its count of entries, and has another thread and another socket.
Connect(i) ==
    /\ ~is_available[i]
    /\ list' = IF i \in ToSet(list) THEN list ELSE Append(list, i)
    /\ is_available' = [is_available EXCEPT ![i] = TRUE]
    /\ last' = IF last = i THEN GONE ELSE last
    /\ turns' = [turns EXCEPT ![i] = {}]
    /\ fuller' = {}
    /\ UNCHANGED <<distribution, entries_in_use, with_keys, dead>>

Least == LeastUsed(list, is_available, entries_in_use)

\* handle_instance_disconnection, which writes in last_instance_selected too.
\* Once one of the least used has left, who is among them is another matter.
Disconnect(i) ==
    /\ is_available[i]
    /\ is_available' = [is_available EXCEPT ![i] = FALSE]
    /\ dead' = (last = NULL)
    /\ fuller' = IF i \in Least THEN {} ELSE fuller
    /\ UNCHANGED <<distribution, list, entries_in_use, last, with_keys, turns>>

\* _send_to_instance: the instance answers with the entries it has in use, or it
\* is found disconnected, and what is taken for its answer is not initialized.
SendToInstance(i) ==
    /\ last' = i
    /\ \/ UNCHANGED is_available
       \/ is_available' = [is_available EXCEPT ![i] = FALSE]
    /\ \E entries \in IF distribution = "LSU" THEN 0 .. MaxEntries ELSE {0} :
           entries_in_use' = [entries_in_use EXCEPT ![i] = entries]

UsesEL == distribution = "EL" \/ Cardinality(Least) > 1

Chosen ==
    IF distribution = "EL" THEN SelectByEL(list, is_available, LastPlace(list, last))
    ELSE SelectByLSU(list, is_available, entries_in_use, LastPlace(list, last))

\* A SET of a new key: the walk runs off the list, or an instance is chosen,
\* passes its health check and is sent the sentence.
Select ==
    \/ /\ UsesEL /\ RunsOff(list, last)
       /\ dead' = TRUE
       /\ UNCHANGED <<distribution, list, is_available, entries_in_use, last, with_keys,
                      turns, fuller>>
    \/ /\ UsesEL => ~RunsOff(list, last)
       /\ AnyAvailable(list, is_available)
       /\ LET i == Chosen IN
          /\ SendToInstance(i)
          /\ with_keys' = with_keys \cup {i}
          /\ turns' = [j \in Instances |->
                 IF j = i \/ distribution = "LSU" THEN {} ELSE turns[j] \cup {i}]
          /\ fuller' = IF i \in Least \/ distribution = "EL" THEN {} ELSE fuller \cup {i}
       /\ UNCHANGED <<distribution, list, dead>>

\* A SET or a STORE of a key located in i, available or not; EL takes it
\* for its last choice.
Use(i) ==
    /\ i \in with_keys
    /\ SendToInstance(i)
    /\ turns' = [j \in Instances |-> {}]
    /\ fuller' = {}
    /\ UNCHANGED <<distribution, list, with_keys, dead>>

Next ==
    /\ ~dead
    /\ Select \/ \E i \in Instances : Connect(i) \/ Disconnect(i) \/ Use(i)

Spec == Init /\ [][Next]_vars

Symmetry == Permutations(Instances)

-----------------------------------------------------------------------------

\* EL shares the new keys out evenly whatever instances come and go: while every
\* sentence is for a new key, none is chosen twice while another one, available
\* all along, waits its turn.
NobodyIsSkipped ==
    [][ Select /\ ~dead' =>
          \A j \in Instances : is_available[j] /\ last' # j => last' \notin turns[j] ]_vars

\* LSU leaves a tie for the fewest entries to EL, which may choose an instance
\* with more.  Not the same one twice, however, before one with the fewest has
\* its turn, while every sentence is for a new key, nobody connects and none of
\* those with the fewest leaves.
LSUSoonChoosesTheLeast ==
    [][ distribution = "LSU" /\ Select /\ ~dead' => last' \in Least \/ last' \notin fuller ]_vars

Letters == 0 .. LettersQty      \* 'a' .. 'z'

Available == {i \in ToSet(list) : is_available[i]}

LettersOf(i) == {letter \in Letters : SelectByKE(list, is_available, letter) = i}

\* KE gives every available instance the same number of letters and one run of
\* them, in the order of the list, unless there are none or too many for it.
KEIsEven ==
    ~DividesByZero(list, is_available) =>
        /\ \A i \in Available : Cardinality(LettersOf(i)) = KeysPerInstance(Cardinality(Available))
        /\ \A p, q \in DOMAIN list : p < q /\ {list[p], list[q]} \subseteq Available =>
               \A a \in LettersOf(list[p]), b \in LettersOf(list[q]) : a < b
=============================================================================
