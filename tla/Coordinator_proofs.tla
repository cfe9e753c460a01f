------------------------- MODULE Coordinator_proofs -------------------------
(***************************************************************************)
(* Proofs about Coordinator.  The types need nothing.  The rest needs that *)
(* the ISEs take turns, which the planifier gives as long as no user       *)
(* interrupts one (MayInterrupt = {}, as in the run): a key has one owner; *)
(* whatever goes on a socket is one exchange at a time, awaited; from that *)
(* account of the sockets, that an instance compacts before its SET is     *)
(* sent again, and that a key stored is on the disk of where it is taken;  *)
(* and each ISE takes its own answer from the planifier's socket.          *)
(***************************************************************************)
EXTENDS Coordinator, TLAPS

-----------------------------------------------------------------------------
(* The inductive invariant *)

Chosen == {"send", "receive", "locate", "order", "filter", "await"}
AfterSending == Chosen \cup {"close", "inform"}
AfterPlanifier == AfterSending \cup {"select", "look", "health"}
PCs == AfterPlanifier \cup {"idle", "notify", "validation", "value"}

Local == [op : {"none", "GET", "SET", "STORE", "CALCULATE_INSTANCE"}, key : Keys \cup {NULL},
          selected : Instances \cup {NULL}, retried : BOOLEAN, result : Results, socket : Nat]

Request ==
    [thread : Threads, op : {"SET", "STORE"}, key : Keys] \cup
    [thread : Threads, op : {"HEALTH_CHECK", "GET_KEY_VALUE", "START_COMPACTION"}, key : Keys \cup {NULL}]

Reply == [thread : Threads, word : Results]

\* What the planifier is asked, and what it says.
Question == [thread : Threads, op : {"GET", "SET", "STORE", "KEY_UNREACHABLE"}]

Verdict == [thread : Threads, result : {"OK", "KEY_BLOCKED"}]

Types ==
    /\ keys_location \in [Keys -> Seq(Instances \cup {NULL})] /\ keys_mtx \in Threads \cup {NULL}
    /\ socket_id \in [Instances -> Nat] /\ is_available \in [Instances -> BOOLEAN]
    /\ pc \in [Threads -> PCs] /\ local \in [Threads -> Local]
    /\ waiting \subseteq Instances \X Nat
    /\ asked \in Seq(Question) /\ answers \in Seq(Verdict)
    /\ requests \in [Sockets -> Seq(Request)] /\ replies \in [Sockets -> Seq(Reply)]
    /\ reset \subseteq Sockets
    /\ peer \in [Instances -> Nat] /\ registering \in [Instances -> Nat]
    /\ held \in [Instances -> SUBSET Keys] /\ stored \in [Instances -> SUBSET Keys]
    /\ compact \in [Instances -> BOOLEAN] /\ accepted \in [Instances -> Nat]
    /\ orphans \subseteq Keys /\ promised \subseteq Keys
    /\ crossed \in BOOLEAN /\ down \in BOOLEAN

\* A connection is used from the time that it is in the list, one at a time.
Connected(i) ==
    /\ socket_id[i] <= accepted[i] /\ accepted[i] <= MaxConnections[i]
    /\ peer[i] \in {0, accepted[i]} /\ registering[i] \in {0, accepted[i]}
    /\ registering[i] # 0 => socket_id[i] < registering[i] /\ compact[i]

InTheList(i) == i \in Instances => socket_id[i] # 0

Connections ==
    /\ \A i \in Instances : Connected(i)
    /\ \A s \in Sockets : /\ requests[s] # << >> => Open(s)
                          /\ s[2] > socket_id[s[1]] => requests[s] = << >> /\ replies[s] = << >>
    /\ \A k \in Keys : \A n \in DOMAIN keys_location[k] : InTheList(keys_location[k][n])
    /\ \A t \in Threads : local[t].selected \in Instances =>
          socket_id[local[t].selected] # 0 /\ local[t].socket <= socket_id[local[t].selected]
    /\ \A w \in waiting : socket_id[w[1]] # 0 /\ w[2] <= socket_id[w[1]]

\* What each point of a thread's way knows of what it is doing.
Control ==
    /\ pc[console] \in {"idle", "select", "look", "health", "value"}
    /\ pc[console] \in {"select", "look", "health"} => local[console].op = "CALCULATE_INSTANCE"
    /\ \A t \in ISEs : /\ pc[t] # "value"
                       /\ pc[t] # "idle" => local[t].op \in {"GET", "SET", "STORE"} /\ local[t].key \in Keys
                       /\ pc[t] \in AfterPlanifier => local[t].op # "GET"
                       /\ pc[t] \in {"look", "health"} => local[t].op = "SET"
    /\ \A t \in Threads : /\ pc[t] \in {"idle", "notify", "validation", "select"} => local[t].socket = 0
                          /\ pc[t] \in Chosen \cup {"health"} => local[t].selected \in Instances
                          /\ pc[t] = "value" /\ ~down => local[t].selected \in Instances

TInv == Types /\ Connections /\ Control

-----------------------------------------------------------------------------

\* The planifier lets one ISE run, and nobody interrupts it.
OneAtATime ==
    /\ interrupted = {}
    /\ \A t, u \in ISEs : pc[t] # "idle" /\ pc[u] # "idle" => t = u

\* A thread has the key on its way to an instance.
Takes(t, k, i) == pc[t] \in AfterSending /\ local[t].key = k /\ local[t].selected = i

SetPending(k, i) == \E s \in Sockets : \E n \in DOMAIN requests[s] :
    s[1] = i /\ requests[s][n].op = "SET" /\ requests[s][n].key = k

\* A key that was never put at null is at one place, the one that it is taken to.
Located(k) ==
    /\ keys_location[k] = << >> \/ \E j \in Instances : keys_location[k] = <<j>>
    /\ \A t \in ISEs : local[t].key = k =>
          /\ pc[t] \in {"look", "health"} => keys_location[k] = << >>
          /\ pc[t] \in AfterSending /\ keys_location[k] # << >> => local[t].selected = keys_location[k][1]
    /\ \A i \in Instances : k \in held[i] \/ SetPending(k, i) =>
          \/ keys_location[k] = <<i>>
          \/ keys_location[k] = << >> /\ (\E t \in ISEs : Takes(t, k, i))

Owners == \A k \in Keys \ orphans : Located(k)

-----------------------------------------------------------------------------

\* A thread reads the socket that the instance has now.
Reads(t, i) == local[t].selected = i /\ local[t].socket \in {0, socket_id[i]}

\* It is, or will be, waiting for the instance to compact.
Compacts(t, i) ==
    /\ t \in ISEs
    /\ pc[t] = "filter" \/ (pc[t] = "await" /\ \E w \in waiting : w[1] = i /\ w[2] \in {0, socket_id[i]})

\* What a thread may be waiting for from an instance.  An instance that is not
\* available may have been asked to compact by one that does not wait any more.
WaitsFor(kind, t, i) ==
    \/ kind = "health" /\ pc[t] = "health" /\ Reads(t, i)
    \/ kind = "value" /\ pc[t] = "value" /\ Reads(t, i)
    \/ kind = "result" /\ t \in ISEs /\ pc[t] = "receive" /\ Reads(t, i)
    \/ kind = "compaction" /\ (Compacts(t, i) \/ ~is_available[i])

Kinds == {"health", "value", "result", "compaction"}

KindOf(op) ==
    CASE op = "HEALTH_CHECK" -> "health"
      [] op = "GET_KEY_VALUE" -> "value"
      [] op = "START_COMPACTION" -> "compaction"
      [] OTHER -> "result"

\* What is left to read of an answer.
Words(kind, q) ==
    CASE kind = "value" -> /\ q[1].word \in {"KEY_VALUE_FOUND", "KEY_VALUE_NOT_FOUND", "value"}
                           /\ (Len(q) = 2) <=> (q[1].word = "KEY_VALUE_FOUND")
                           /\ Len(q) = 2 => q[2].word = "value"
      [] kind = "result" -> /\ q[1].word \in {"OK", "FAILED", "NEED_COMPACTION", "entries in use"}
                            /\ Len(q) = 2 => q[2].word = "entries in use"
      [] OTHER -> Len(q) = 1 /\ q[1].word = "OK"

\* The question on an instance's socket, and the answer, are for a thread that waits for them.
AskedFor(r, i) ==
    /\ WaitsFor(KindOf(r.op), r.thread, i)
    /\ r.op \in {"SET", "STORE"} => r.op = local[r.thread].op /\ r.key = local[r.thread].key

AnswerFor(q, i) == \E kind \in Kinds : WaitsFor(kind, q[1].thread, i) /\ Words(kind, q)

\* One question at a time on each socket, and the words of one answer.
Exchange(s) ==
    /\ requests[s] # << >> => Len(requests[s]) = 1 /\ replies[s] = << >>
    /\ Len(replies[s]) <= 2
    /\ Len(replies[s]) = 2 => replies[s][2].thread = replies[s][1].thread

InStep(i) ==
    LET s == SocketOf(i)
    IN  /\ requests[s] # << >> => AskedFor(requests[s][1], i)
        /\ replies[s] # << >> => AnswerFor(replies[s], i)

Exchanges ==
    /\ \A s \in Sockets : Exchange(s)
    /\ \A i \in Instances : socket_id[i] # 0 => InStep(i)

-----------------------------------------------------------------------------

\* An instance has compacted, or the order to do so is on its way to it and awaited.
Ordered(t, i, s) ==
    \/ compact[i] \/ ~Open(s)
    \/ /\ requests[s] # << >> /\ requests[s][1].op = "START_COMPACTION"
       /\ pc[t] = "await" => \E w \in waiting : w[1] = i /\ w[2] \in {0, socket_id[i]}

\* A SET that is sent again finds its instance compact.
Again(t, i, s) ==
    /\ pc[t] = "send" => compact[i] \/ ~Open(s)
    /\ pc[t] = "receive" => (requests[s] # << >> /\ requests[s][1].op = "SET" => compact[i])

\* The instance selected and its socket.
CompactionOn(t, i, s) ==
    /\ pc[t] \in {"filter", "await"} /\ is_available[i] => Ordered(t, i, s)
    /\ local[t].retried => Again(t, i, s) /\ pc[t] \notin {"notify", "validation", "select", "look", "health"}

Compaction(t) == CompactionOn(t, local[t].selected, SocketOf(local[t].selected))

\* The ISE hears OK of a STORE only when the key is on the disk of the instance it went to.
StoringOn(t, i, r) ==
    local[t].op = "STORE" =>
        /\ pc[t] = "receive" =>
             (Len(replies[r]) = 2 /\ replies[r][1].word = "OK" => local[t].key \in stored[i])
        /\ pc[t] \in {"locate", "close"} /\ local[t].result = "OK" =>
             i \in Instances /\ local[t].key \in stored[i]

Storing(t) == StoringOn(t, local[t].selected, Source(t))

\* A key whose STORE was answered OK, and is not lost: while the planifier hears that its
\* instance is gone it has no location, and is put back at that instance.
Kept(k) ==
    /\ \/ \E t \in ISEs : pc[t] = "inform" /\ local[t].key = k
       \/ keys_location[k] # << >> /\ k \in stored[keys_location[k][1]]
    /\ \A t \in ISEs : pc[t] = "inform" /\ local[t].key = k /\ local[t].selected # NULL =>
          k \in stored[local[t].selected]

Promises == \A k \in promised \ orphans : Kept(k)
-----------------------------------------------------------------------------
(* Sockets, records and the start of a sequence *)

LEMMA SocketIsPair ==
    \A s \in Sockets : /\ s = <<s[1], s[2]>> /\ s[1] \in Instances
                       /\ s[2] \in 1 .. MaxConnections[s[1]] /\ s[2] \in Nat /\ s[2] # 0
BY CoordinatorAssumption DEF Sockets

LEMMA PairIsSocket ==
    ASSUME NEW i \in Instances, NEW n \in Nat, n # 0, n <= MaxConnections[i]
    PROVE  <<i, n>> \in Sockets
<1>1. n \in 1 .. MaxConnections[i]
  BY CoordinatorAssumption
<1> QED
  BY <1>1 DEF Sockets

\* An instance in the list has a socket.
LEMMA SocketOfIsSocket ==
    ASSUME Types, Connections, NEW i \in Instances, socket_id[i] # 0
    PROVE  SocketOf(i) \in Sockets
<1>1. socket_id[i] \in Nat /\ accepted[i] \in Nat /\ MaxConnections[i] \in Nat
  BY CoordinatorAssumption DEF Types
<1>2. socket_id[i] <= MaxConnections[i]
  BY <1>1 DEF Connections, Connected
<1> QED
  BY <1>1, <1>2, PairIsSocket DEF SocketOf

\* So has a thread that reads, whenever it read the list.
LEMMA RecvSocketIsSocket ==
    ASSUME Types, Connections, NEW i \in Instances, socket_id[i] # 0,
           NEW n \in Nat, n <= socket_id[i]
    PROVE  /\ RecvSocket(i, n) \in Sockets
           /\ RecvSocket(i, n)[1] = i
           /\ RecvSocket(i, n)[2] \in Nat /\ RecvSocket(i, n)[2] <= socket_id[i]
           /\ n \in {0, socket_id[i]} => RecvSocket(i, n) = SocketOf(i)
           /\ RecvSocket(i, n) = SocketOf(i) => n \in {0, socket_id[i]}
<1>1. socket_id[i] \in Nat /\ accepted[i] \in Nat /\ MaxConnections[i] \in Nat
  BY CoordinatorAssumption DEF Types
<1>2. socket_id[i] <= MaxConnections[i]
  BY <1>1 DEF Connections, Connected
<1>3. CASE n = 0
  BY <1>1, <1>2, <1>3, PairIsSocket DEF RecvSocket, SocketOf
<1>4. CASE n # 0
  BY <1>1, <1>2, <1>4, PairIsSocket DEF RecvSocket, SocketOf
<1> QED
  BY <1>3, <1>4

LEMMA LocalTypes ==
    ASSUME Types, NEW t \in Threads
    PROVE  /\ \A r \in Results : Result(t, r) => local' \in [Threads -> Local]
           /\ \A i \in Instances : Selects(t, i) => local' \in [Threads -> Local]
           /\ \A r \in Results : Ends(t, r) =>
                 local' \in [Threads -> Local] /\ pc' \in [Threads -> PCs]
           /\ \A where \in PCs : Goes(t, where) => pc' \in [Threads -> PCs]
<1> local[t] \in Local /\ local \in [Threads -> Local] /\ pc \in [Threads -> PCs]
  BY DEF Types
<1>1. ASSUME NEW r \in Results, Result(t, r) PROVE local' \in [Threads -> Local]
  <2>1. [local[t] EXCEPT !.result = r] \in Local
    BY DEF Local
  <2>2. local' = [local EXCEPT ![t] = [local[t] EXCEPT !.result = r]]
    BY <1>1 DEF Result
  <2> QED
    BY <2>1, <2>2
<1>2. ASSUME NEW i \in Instances, Selects(t, i) PROVE local' \in [Threads -> Local]
  <2>1. [local[t] EXCEPT !.selected = i] \in Local
    BY DEF Local
  <2>2. local' = [local EXCEPT ![t] = [local[t] EXCEPT !.selected = i]]
    BY <1>2 DEF Selects
  <2> QED
    BY <2>1, <2>2
<1>3. \A where \in PCs : Goes(t, where) => pc' \in [Threads -> PCs]
  BY DEF Goes
<1>4. ASSUME NEW r \in Results, Ends(t, r) PROVE local' \in [Threads -> Local]
  <2>1. [Free EXCEPT !.result = r] \in Local
    BY DEF Local, Free
  <2>2. local' = [local EXCEPT ![t] = [Free EXCEPT !.result = r]]
    BY <1>4 DEF Ends
  <2> QED
    BY <2>1, <2>2
<1>5. "idle" \in PCs
  BY DEF PCs
<1> QED
  BY <1>1, <1>2, <1>3, <1>4, <1>5 DEF Ends

LEMMA TakeTypes ==
    ASSUME Types, NEW s \in Sockets, NEW n \in {1, 2}, Received(s, n), Take(s, n)
    PROVE  replies' \in [Sockets -> Seq(Reply)]
<1>1. replies[s] \in Seq(Reply) /\ Len(replies[s]) \in Nat /\ n + 1 \in Nat
  BY DEF Types
<1>2. SubSeq(replies[s], n + 1, Len(replies[s])) \in Seq(Reply)
  BY <1>1
<1> QED
  BY <1>2 DEF Take, Types

\* What is left of an answer when its first words are taken.
LEMMA TakeLeaves ==
    ASSUME Types, NEW s \in Sockets, NEW n \in {1, 2}, Received(s, n), Take(s, n)
    PROVE  /\ Len(replies[s]) \in Nat /\ Len(replies'[s]) = Len(replies[s]) - n
           /\ \A m \in 1 .. Len(replies[s]) - n : replies'[s][m] = replies[s][m + n]
           /\ \A r \in Sockets \ {s} : replies'[r] = replies[r]
           /\ requests' = requests /\ reset' = reset
<1>1. replies[s] \in Seq(Reply) /\ Len(replies[s]) \in Nat /\ Len(replies[s]) >= n
  BY DEF Types, Received
<1>2. replies'[s] = SubSeq(replies[s], n + 1, Len(replies[s]))
  BY DEF Take, Types
<1>3. Len(replies'[s]) = Len(replies[s]) - n
  BY <1>1, <1>2
<1>4. \A m \in 1 .. Len(replies[s]) - n : replies'[s][m] = replies[s][m + n]
  BY <1>1, <1>2
<1> QED
  BY <1>1, <1>3, <1>4 DEF Take, Types

LEMMA SendToTypes ==
    ASSUME Types, NEW t \in Threads, NEW to \in SUBSET Sockets,
           NEW op \in {"HEALTH_CHECK", "SET", "STORE", "GET_KEY_VALUE", "START_COMPACTION"},
           NEW k \in Keys \cup {NULL}, op \in {"SET", "STORE"} => k \in Keys, SendTo(t, to, op, k)
    PROVE  /\ requests' \in [Sockets -> Seq(Request)] /\ reset' \subseteq Sockets
           /\ crossed' \in BOOLEAN /\ down' \in BOOLEAN /\ replies' = replies
<1>1. [thread |-> t, op |-> op, key |-> k] \in Request
  BY DEF Request
<1>2. requests' \in [Sockets -> Seq(Request)]
  BY <1>1 DEF SendTo, Types
<1> QED
  BY <1>2 DEF SendTo, Types

LEMMA AsksTypes ==
    ASSUME Types, Connections, NEW t \in Threads, NEW i \in Instances, socket_id[i] # 0,
           NEW op \in {"HEALTH_CHECK", "SET", "STORE", "GET_KEY_VALUE"},
           NEW k \in Keys \cup {NULL}, op \in {"SET", "STORE"} => k \in Keys, Asks(t, i, op, k)
    PROVE  /\ requests' \in [Sockets -> Seq(Request)] /\ reset' \subseteq Sockets
           /\ crossed' \in BOOLEAN /\ down' \in BOOLEAN /\ replies' = replies
           /\ local' \in [Threads -> Local]
<1>1. {SocketOf(i)} \in SUBSET Sockets
  BY SocketOfIsSocket
<1>2. local' \in [Threads -> Local]
  <2>1. PICK n \in {0, socket_id[i]} :
           local' = [local EXCEPT ![t] = [local[t] EXCEPT !.selected = i, !.socket = n]]
    BY DEF Asks
  <2>2. local[t] \in Local /\ n \in Nat /\ local \in [Threads -> Local]
    BY DEF Types
  <2>3. [local[t] EXCEPT !.selected = i, !.socket = n] \in Local
    BY <2>2 DEF Local
  <2> QED
    BY <2>1, <2>2, <2>3
<1>3. SendTo(t, {SocketOf(i)}, op, k)
  BY DEF Asks
<1>4. op \in {"HEALTH_CHECK", "SET", "STORE", "GET_KEY_VALUE", "START_COMPACTION"}
  OBVIOUS
<1> QED
  BY <1>1, <1>2, <1>3, <1>4, SendToTypes

-----------------------------------------------------------------------------
(* The types are kept *)

LEMMA PCsMembers ==
    {"idle", "notify", "validation", "value", "select", "look", "health", "send", "receive", "locate",
     "order", "filter", "await", "close", "inform"} = PCs
BY DEF PCs, AfterPlanifier, AfterSending, Chosen

LEMMA ResultsMembers ==
    {"OK", "FAILED", "NEED_COMPACTION", "KEY_UNREACHABLE", "KEY_BLOCKED",
     "INSTANCE_AVAILABLE_FOR_KEY", "none"} \subseteq Results
BY DEF Results

LEMMA HeadIn ==
    ASSUME NEW S, NEW q \in Seq(S), q # << >>
    PROVE  Head(q) \in S /\ Head(q) = q[1] /\ Len(q) >= 1
OBVIOUS

LEMMA WordTypes ==
    ASSUME NEW q \in Seq(Reply), NEW n \in 1 .. Len(q)
    PROVE  q[n].word \in Results /\ q[n].thread \in Threads
<1>1. q[n] \in Reply
  OBVIOUS
<1> QED
  BY <1>1 DEF Reply

LEMMA TypesReceiveSentence ==
    ASSUME TInv, NEW t \in ISEs, ReceiveSentence(t) PROVE Types'
<1>1. PICK op \in {"GET", "SET", "STORE"}, k \in Keys :
         local' = [local EXCEPT ![t] = [Free EXCEPT !.op = op, !.key = k]]
  BY DEF ReceiveSentence
<1>2. [Free EXCEPT !.op = op, !.key = k] \in Local
  BY DEF Free, Local, Results
<1>3. local' \in [Threads -> Local]
  BY <1>1, <1>2 DEF TInv, Types, Threads
<1>4. pc' \in [Threads -> PCs]
  BY PCsMembers DEF ReceiveSentence, Goes, TInv, Types, Threads
<1> QED
  BY <1>3, <1>4 DEF ReceiveSentence, instances, history, wires, list, dictionary, planifier, TInv, Types

LEMMA TypesNotifyPlanifier ==
    ASSUME TInv, NEW t \in Threads, NotifyPlanifier(t) PROVE Types'
<1>1. t \in ISEs
  BY DEF NotifyPlanifier, TInv, Control, Threads
<1>2. [thread |-> t, op |-> local[t].op] \in Question
  BY <1>1 DEF Question, NotifyPlanifier, TInv, Control
<1>3. asked' \in Seq(Question)
  BY <1>2 DEF NotifyPlanifier, TInv, Types
<1>4. pc' \in [Threads -> PCs]
  BY PCsMembers DEF NotifyPlanifier, Goes, TInv, Types
<1> QED
  BY <1>3, <1>4 DEF NotifyPlanifier, others, instances, outside, history, wires, list, dictionary, TInv, Types

LEMMA TypesPlanifierAnswers ==
    ASSUME TInv, PlanifierAnswers PROVE Types'
<1>1. asked' \in Seq(Question)
  BY DEF PlanifierAnswers, TInv, Types
<1>2. Head(asked).thread \in Threads
  <2>1. Head(asked) \in Question
    BY HeadIn DEF PlanifierAnswers, TInv, Types
  <2> QED
    BY <2>1 DEF Question
<1>3. PICK result \in {"OK", "KEY_BLOCKED"} :
         answers' = Append(answers, [thread |-> Head(asked).thread, result |-> result])
  BY DEF PlanifierAnswers
<1>4. answers' \in Seq(Verdict)
  BY <1>2, <1>3 DEF Verdict, TInv, Types
<1> QED
  BY <1>1, <1>4 DEF PlanifierAnswers, others, instances, outside, history, wires, list, dictionary, threads,
                    TInv, Types

LEMMA TypesValidation ==
    ASSUME TInv, NEW t \in Threads, Validation(t) PROVE Types'
<1>1. answers' \in Seq(Verdict)
  BY DEF Validation, TInv, Types
<1>2. Head(answers).result \in {"OK", "KEY_BLOCKED"}
  <2>1. Head(answers) \in Verdict
    BY HeadIn DEF Validation, TInv, Types
  <2> QED
    BY <2>1 DEF Verdict
<1>3. pc' \in [Threads -> PCs] /\ local' \in [Threads -> Local]
  BY <1>2, LocalTypes, PCsMembers, ResultsMembers DEF Validation, TInv, Types
<1> QED
  BY <1>1, <1>3 DEF Validation, others, instances, outside, history, wires, list, dictionary, TInv, Types

LEMMA LocationTypes ==
    ASSUME Types, NEW k \in Keys
    PROVE  Location(k) \in Instances \cup {NULL}
BY DEF Types, Location

LEMMA TypesSelect ==
    ASSUME TInv, NEW t \in Threads, Select(t) PROVE Types'
<1> DEFINE i == Location(local[t].key)
<1>1. PICK j : j = i
  OBVIOUS
<1>2. pc' \in [Threads -> PCs] /\ local' \in [Threads -> Local]
  <2>1. CASE i = NULL
    BY <2>1, LocalTypes, PCsMembers, ResultsMembers DEF Select, TInv, Types
  <2>2. CASE i # NULL
    <3>1. local[t].key \in Keys \/ t = console
      BY DEF Select, TInv, Control, Threads
    <3>2. CASE t = console
      BY <3>2, <2>2, LocalTypes, PCsMembers, ResultsMembers, CoordinatorAssumption DEF Select, TInv, Types
    <3>3. CASE t # console
      BY <3>1, <3>3, <2>2, LocalTypes, LocationTypes, PCsMembers DEF Select, TInv, Types
    <3> QED
      BY <3>2, <3>3
  <2> QED
    BY <2>1, <2>2
<1> QED
  BY <1>2 DEF Select, others, instances, outside, history, wires, list, dictionary, planifier, TInv, Types

LEMMA TypesHandleInstanceDisconnection ==
    ASSUME Types, NEW i \in Instances, HandleInstanceDisconnection(i)
    PROVE  is_available' \in [Instances -> BOOLEAN] /\ down' \in BOOLEAN /\ socket_id' = socket_id
BY DEF HandleInstanceDisconnection, Types

LEMMA TypesLookForInstance ==
    ASSUME TInv, NEW t \in Threads, LookForInstance(t) PROVE Types'
<1>1. CASE RunsOff /\ down' = TRUE /\ UNCHANGED <<wires, pc, local>>
  BY <1>1 DEF LookForInstance, others, instances, outside, history, wires, list, dictionary, planifier, TInv, Types
<1>2. CASE \E i \in Available : Asks(t, i, "HEALTH_CHECK", NULL) /\ Goes(t, "health")
  <2>1. PICK i \in Available : Asks(t, i, "HEALTH_CHECK", NULL)
    BY <1>2
  <2>2. i \in Instances /\ socket_id[i] # 0
    BY DEF Available
  <2>3. /\ requests' \in [Sockets -> Seq(Request)] /\ reset' \subseteq Sockets
        /\ crossed' \in BOOLEAN /\ down' \in BOOLEAN /\ replies' = replies
        /\ local' \in [Threads -> Local]
    BY <2>1, <2>2, AsksTypes DEF TInv
  <2>4. pc' \in [Threads -> PCs]
    BY <1>2, LocalTypes, PCsMembers DEF TInv
  <2> QED
    BY <2>3, <2>4 DEF LookForInstance, others, instances, outside, history, list, dictionary, planifier, TInv, Types
<1> QED
  BY <1>1, <1>2 DEF LookForInstance

\* What a thread that reads an instance's socket has.
LEMMA SourceIsSocket ==
    ASSUME TInv, NEW t \in Threads, local[t].selected \in Instances
    PROVE  /\ Source(t) \in Sockets /\ socket_id[local[t].selected] # 0
           /\ Source(t)[1] = local[t].selected
           /\ Source(t)[2] \in Nat /\ Source(t)[2] <= socket_id[local[t].selected]
           /\ Reads(t, local[t].selected) <=> Source(t) = SocketOf(local[t].selected)
<1>1. local[t].socket \in Nat /\ socket_id[local[t].selected] # 0
      /\ local[t].socket <= socket_id[local[t].selected]
  BY DEF TInv, Types, Local, Connections
<1> QED
  BY <1>1, RecvSocketIsSocket DEF TInv, Source, Reads

LEMMA TypesHealthCheck ==
    ASSUME TInv, NEW t \in Threads, HealthCheck(t) PROVE Types'
<1>1. local[t].selected \in Instances
  BY DEF HealthCheck, TInv, Control
<1>2. Source(t) \in Sockets
  BY <1>1, SourceIsSocket
<1>3. Types
  BY DEF TInv
<1>4. pc' \in [Threads -> PCs] /\ local' \in [Threads -> Local]
  BY <1>3, LocalTypes, PCsMembers, ResultsMembers DEF HealthCheck, Types
<1>5. is_available' \in [Instances -> BOOLEAN] /\ down' \in BOOLEAN /\ socket_id' = socket_id
  BY <1>1, <1>3, TypesHandleInstanceDisconnection DEF HealthCheck, Types, list
<1>6. requests' = requests /\ reset' = reset
  BY DEF HealthCheck, Take, wires
<1>7. replies' \in [Sockets -> Seq(Reply)]
  BY <1>2, <1>3, TakeTypes DEF HealthCheck, Types, wires
<1> QED
  BY <1>3, <1>4, <1>5, <1>6, <1>7
  DEF HealthCheck, others, instances, outside, history, dictionary, planifier, Types

LEMMA TypesSendToInstance ==
    ASSUME TInv, NEW t \in Threads, SendToInstance(t) PROVE Types'
<1> DEFINE i == local[t].selected
<1>1. i \in Instances /\ t \in ISEs
  BY DEF SendToInstance, TInv, Control, Chosen, Threads
<1>2. socket_id[i] # 0 /\ Types /\ Connections
  BY <1>1 DEF TInv, Connections
<1>3. local[t].op \in {"HEALTH_CHECK", "SET", "STORE", "GET_KEY_VALUE"} /\ local[t].key \in Keys
  BY <1>1 DEF SendToInstance, TInv, Control, AfterPlanifier, AfterSending, Chosen
<1>4. Asks(t, i, local[t].op, local[t].key)
  BY DEF SendToInstance
<1>5. /\ requests' \in [Sockets -> Seq(Request)] /\ reset' \subseteq Sockets
      /\ crossed' \in BOOLEAN /\ down' \in BOOLEAN /\ replies' = replies
      /\ local' \in [Threads -> Local]
  BY <1>1, <1>2, <1>3, <1>4, AsksTypes
<1>6. pc' \in [Threads -> PCs]
  BY <1>2, LocalTypes, PCsMembers DEF SendToInstance
<1> QED
  BY <1>2, <1>5, <1>6 DEF SendToInstance, others, instances, outside, history, dictionary, planifier, Types

LEMMA TypesReceiveResult ==
    ASSUME TInv, NEW t \in Threads, ReceiveResult(t) PROVE Types'
<1>1. local[t].selected \in Instances
  BY DEF ReceiveResult, TInv, Control, Chosen
<1>2. Source(t) \in Sockets
  BY <1>1, SourceIsSocket
<1>3. Types
  BY DEF TInv
<1>4. pc' \in [Threads -> PCs] /\ local' \in [Threads -> Local]
  <2>1. Received(Source(t), 2) => Head(replies[Source(t)]).word \in Results
    <3>1. Received(Source(t), 2) => 1 \in 1 .. Len(replies[Source(t)])
      BY <1>2, <1>3 DEF Received, Types
    <3>2. Received(Source(t), 2) => Head(replies[Source(t)]) = replies[Source(t)][1]
      BY <1>2, <1>3 DEF Received, Types
    <3> QED
      BY <1>2, <1>3, <3>1, <3>2, WordTypes DEF Types
  <2> QED
    BY <1>3, <2>1, LocalTypes, PCsMembers, ResultsMembers DEF ReceiveResult, Types
<1>5. is_available' \in [Instances -> BOOLEAN] /\ down' \in BOOLEAN /\ socket_id' = socket_id
  BY <1>1, <1>3, TypesHandleInstanceDisconnection DEF ReceiveResult, Types, list
<1>6. requests' = requests /\ reset' = reset
  BY DEF ReceiveResult, Take
<1>7. replies' \in [Sockets -> Seq(Reply)]
  <2>1. CASE Received(Source(t), 2) /\ Take(Source(t), 2)
    BY <2>1, <1>2, <1>3, TakeTypes
  <2>2. CASE replies' = [replies EXCEPT ![Source(t)] = << >>]
    <3>1. << >> \in Seq(Reply)
      OBVIOUS
    <3> QED
      BY <2>2, <1>3, <3>1 DEF Types
  <2> QED
    BY <2>1, <2>2 DEF ReceiveResult
<1> QED
  BY <1>3, <1>4, <1>5, <1>6, <1>7
  DEF ReceiveResult, others, instances, outside, history, dictionary, planifier, Types

LEMMA PutPostaTypes ==
    ASSUME NEW chain \in Seq(Instances \cup {NULL}), NEW i \in Instances \cup {NULL}
    PROVE  /\ PutPosta(chain, i) \in Seq(Instances \cup {NULL})
           /\ \A n \in DOMAIN PutPosta(chain, i) :
                 PutPosta(chain, i)[n] = i \/ \E m \in DOMAIN chain : PutPosta(chain, i)[n] = chain[m]
<1> DEFINE rest == IF chain # << >> /\ Head(chain) # NULL THEN Tail(chain) ELSE chain
<1>1. rest \in Seq(Instances \cup {NULL})
  OBVIOUS
<1>2. \A n \in DOMAIN rest : \E m \in DOMAIN chain : rest[n] = chain[m]
  <2>1. CASE chain # << >> /\ Head(chain) # NULL
    <3>1. \A n \in DOMAIN Tail(chain) : n + 1 \in DOMAIN chain /\ Tail(chain)[n] = chain[n + 1]
      BY <2>1
    <3> QED
      BY <2>1, <3>1
  <2>2. CASE ~(chain # << >> /\ Head(chain) # NULL)
    BY <2>2
  <2> QED
    BY <2>1, <2>2
<1>3. PutPosta(chain, i) = Append(rest, i)
  BY DEF PutPosta
<1> HIDE DEF rest
<1>4. Append(rest, i) \in Seq(Instances \cup {NULL})
  BY <1>1
<1>5. \A n \in DOMAIN Append(rest, i) : Append(rest, i)[n] = i
                                         \/ (n \in DOMAIN rest /\ Append(rest, i)[n] = rest[n])
  BY <1>1
<1> QED
  BY <1>2, <1>3, <1>4, <1>5

LEMMA WithoutFirstTypes ==
    ASSUME NEW chain \in Seq(Instances \cup {NULL})
    PROVE  /\ WithoutFirst(chain) \in Seq(Instances \cup {NULL})
           /\ \A n \in DOMAIN WithoutFirst(chain) :
                 \E m \in DOMAIN chain : WithoutFirst(chain)[n] = chain[m]
<1>1. CASE chain = << >>
  BY <1>1 DEF WithoutFirst
<1>2. CASE chain # << >>
  <2>1. \A n \in DOMAIN Tail(chain) : n + 1 \in DOMAIN chain /\ Tail(chain)[n] = chain[n + 1]
    BY <1>2
  <2> QED
    BY <1>2, <2>1 DEF WithoutFirst
<1> QED
  BY <1>1, <1>2

LEMMA TypesLocate ==
    ASSUME TInv, NEW t \in Threads, Locate(t) PROVE Types'
<1>1. t \in ISEs /\ local[t].key \in Keys /\ local[t].selected \in Instances
  BY DEF Locate, TInv, Control, Chosen, Threads
<1>2. PutPosta(keys_location[local[t].key], local[t].selected) \in Seq(Instances \cup {NULL})
  BY <1>1, PutPostaTypes DEF TInv, Types
<1>3. keys_location' \in [Keys -> Seq(Instances \cup {NULL})]
  BY <1>1, <1>2 DEF Locate, TInv, Types
<1>4. pc' \in [Threads -> PCs]
  BY LocalTypes, PCsMembers DEF Locate, TInv
<1> QED
  BY <1>3, <1>4 DEF Locate, others, instances, outside, history, wires, list, planifier, TInv, Types

LEMMA TypesOrderCompaction ==
    ASSUME TInv, NEW t \in Threads, OrderCompaction(t) PROVE Types'
<1> DEFINE to == {SocketOf(i) : i \in ToCompact(t)}
<1>1. to \in SUBSET Sockets
  BY SocketOfIsSocket DEF ToCompact, Available, TInv
<1>2. SendTo(t, to, "START_COMPACTION", NULL) /\ Types
  BY DEF OrderCompaction, TInv
<1>3. /\ requests' \in [Sockets -> Seq(Request)] /\ reset' \subseteq Sockets
      /\ crossed' \in BOOLEAN /\ down' \in BOOLEAN /\ replies' = replies
  BY <1>1, <1>2, SendToTypes
<1>4. pc' \in [Threads -> PCs]
  BY <1>2, LocalTypes, PCsMembers DEF OrderCompaction
<1> QED
  BY <1>2, <1>3, <1>4 DEF OrderCompaction, others, instances, outside, history, list, dictionary, planifier, Types

LEMMA TypesFilterAgain ==
    ASSUME TInv, NEW t \in Threads, FilterAgain(t) PROVE Types'
<1>1. waiting' \subseteq Instances \X Nat
  BY DEF FilterAgain, ToAwait, ToCompact, Available, TInv, Types
<1>2. pc' \in [Threads -> PCs]
  BY LocalTypes, PCsMembers DEF FilterAgain, TInv
<1> QED
  BY <1>1, <1>2 DEF FilterAgain, others, instances, outside, history, wires, list, dictionary, planifier,
                    TInv, Types

\* The socket of one that is awaited.
LEMMA AwaitedIsSocket ==
    ASSUME TInv, NEW w \in waiting
    PROVE  /\ w[1] \in Instances /\ socket_id[w[1]] # 0 /\ RecvSocket(w[1], w[2]) \in Sockets
           /\ RecvSocket(w[1], w[2])[1] = w[1]
           /\ w[2] \in {0, socket_id[w[1]]} <=> RecvSocket(w[1], w[2]) = SocketOf(w[1])
<1>1. w[1] \in Instances /\ w[2] \in Nat /\ socket_id[w[1]] # 0 /\ w[2] <= socket_id[w[1]]
  BY DEF TInv, Types, Connections
<1> QED
  BY <1>1, RecvSocketIsSocket DEF TInv

LEMMA TypesAwaitCompaction ==
    ASSUME TInv, NEW t \in Threads, AwaitCompaction(t) PROVE Types'
<1>1. PICK w \in waiting :
         /\ \/ /\ Received(RecvSocket(w[1], w[2]), 1) /\ Take(RecvSocket(w[1], w[2]), 1)
               /\ IF Head(replies[RecvSocket(w[1], w[2])]).word = "OK"
                  THEN UNCHANGED <<list, down>> ELSE HandleInstanceDisconnection(w[1])
            \/ /\ EndOfFile(RecvSocket(w[1], w[2]), 1) /\ HandleInstanceDisconnection(w[1])
               /\ UNCHANGED wires
         /\ waiting' = waiting \ {w}
  BY DEF AwaitCompaction
<1>2. RecvSocket(w[1], w[2]) \in Sockets /\ w[1] \in Instances
  BY AwaitedIsSocket
<1>3. Types
  BY DEF TInv
<1>4. replies' \in [Sockets -> Seq(Reply)] /\ requests' = requests /\ reset' = reset
  <2>1. CASE UNCHANGED wires
    BY <2>1, <1>3 DEF wires, Types
  <2>2. CASE Received(RecvSocket(w[1], w[2]), 1) /\ Take(RecvSocket(w[1], w[2]), 1)
    BY <2>2, <1>2, <1>3, TakeTypes DEF Take
  <2> QED
    BY <1>1, <2>1, <2>2
<1>5. is_available' \in [Instances -> BOOLEAN] /\ down' \in BOOLEAN /\ socket_id' = socket_id
  BY <1>1, <1>2, <1>3, TypesHandleInstanceDisconnection DEF Types, list
<1> QED
  BY <1>1, <1>3, <1>4, <1>5
  DEF AwaitCompaction, others, instances, outside, history, dictionary, planifier, Types

LEMMA TypesRetry ==
    ASSUME TInv, NEW t \in Threads, Retry(t) PROVE Types'
<1>1. Types /\ local[t] \in Local /\ local \in [Threads -> Local]
  BY DEF TInv, Types
<1>2. pc' \in [Threads -> PCs] /\ local' \in [Threads -> Local]
  <2>1. CASE is_available[local[t].selected]
    <3>1. [local[t] EXCEPT !.retried = TRUE] \in Local
      BY <1>1 DEF Local
    <3>2. local' = [local EXCEPT ![t] = [local[t] EXCEPT !.retried = TRUE]]
      BY <2>1, <1>1 DEF Retry
    <3> QED
      BY <1>1, <2>1, <3>1, <3>2, LocalTypes, PCsMembers DEF Retry
  <2>2. CASE ~is_available[local[t].selected]
    BY <1>1, <2>2, LocalTypes, PCsMembers, ResultsMembers DEF Retry
  <2> QED
    BY <2>1, <2>2
<1> QED
  BY <1>1, <1>2 DEF Retry, others, instances, outside, history, wires, list, dictionary, planifier, Types

LEMMA TypesPutBack ==
    ASSUME TInv, NEW t \in ISEs, local[t].key \in Keys, PutBack(t)
    PROVE  keys_location' \in [Keys -> Seq(Instances \cup {NULL})] /\ orphans' \subseteq Keys
<1>1. Types /\ local[t] \in Local
  BY DEF TInv, Types, Threads
<1>2. local[t].selected \in Instances \cup {NULL}
  BY <1>1 DEF Local
<1>3. PutPosta(keys_location[local[t].key], local[t].selected) \in Seq(Instances \cup {NULL})
  BY <1>1, <1>2, PutPostaTypes DEF Types
<1> QED
  BY <1>1, <1>3 DEF PutBack, Types

LEMMA TypesClose ==
    ASSUME TInv, NEW t \in Threads, Close(t) PROVE Types'
<1>1. t \in ISEs /\ local[t].key \in Keys
  BY DEF Close, TInv, Control, Threads
<1>2. Types /\ local[t] \in Local
  BY DEF TInv, Types
<1>3. CASE local[t].result = "KEY_UNREACHABLE"
  <2>1. WithoutFirst(keys_location[local[t].key]) \in Seq(Instances \cup {NULL})
    BY <1>1, <1>2, WithoutFirstTypes DEF Types
  <2>2. keys_location' \in [Keys -> Seq(Instances \cup {NULL})]
    BY <1>1, <1>2, <1>3, <2>1 DEF Close, Types
  <2>3. asked' \in Seq(Question)
    <3>1. [thread |-> t, op |-> "KEY_UNREACHABLE"] \in Question
      BY DEF Question
    <3>2. asked' = Append(asked, [thread |-> t, op |-> "KEY_UNREACHABLE"]) /\ asked \in Seq(Question)
      BY <1>2, <1>3 DEF Close, Types
    <3> QED
      BY <3>1, <3>2
  <2>4. pc' \in [Threads -> PCs]
    BY <1>2, <1>3, LocalTypes, PCsMembers DEF Close
  <2> QED
    BY <1>2, <1>3, <2>2, <2>3, <2>4 DEF Close, instances, outside, wires, list, Types
<1>4. CASE local[t].result # "KEY_UNREACHABLE"
  <2>1. keys_location' \in [Keys -> Seq(Instances \cup {NULL})] /\ orphans' \subseteq Keys
    BY <1>1, <1>4, TypesPutBack DEF Close
  <2>2. local[t].result \in Results
    BY <1>2 DEF Local
  <2>3. pc' \in [Threads -> PCs] /\ local' \in [Threads -> Local]
    BY <1>2, <1>4, <2>2, LocalTypes DEF Close
  <2>4. promised' \subseteq Keys
    BY <1>1, <1>2, <1>4 DEF Close, Types
  <2> QED
    BY <1>2, <1>4, <2>1, <2>3, <2>4 DEF Close, instances, outside, wires, list, Types
<1> QED
  BY <1>3, <1>4

LEMMA TypesInform ==
    ASSUME TInv, NEW t \in Threads, Inform(t) PROVE Types'
<1>1. t \in ISEs /\ local[t].key \in Keys
  BY DEF Inform, TInv, Control, Threads
<1>2. Types /\ local[t] \in Local
  BY DEF TInv, Types
<1>3. keys_location' \in [Keys -> Seq(Instances \cup {NULL})] /\ orphans' \subseteq Keys
  BY <1>1, TypesPutBack DEF Inform
<1>4. local[t].result \in Results
  BY <1>2 DEF Local
<1>5. pc' \in [Threads -> PCs] /\ local' \in [Threads -> Local]
  BY <1>2, <1>4, LocalTypes DEF Inform
<1>6. answers' \in Seq(Verdict)
  BY <1>2 DEF Inform, Types
<1> QED
  BY <1>2, <1>3, <1>5, <1>6 DEF Inform, instances, outside, wires, list, Types

LEMMA TypesAskInstance ==
    ASSUME TInv, AskInstance PROVE Types'
<1>1. Types /\ console \in Threads
  BY DEF TInv, Threads
<1>2. PICK k \in Keys :
         IF keys_location[k] # << >>
         THEN down' = (Location(k) = NULL) /\ UNCHANGED <<pc, local>>
         ELSE /\ Goes(console, "select")
              /\ local' = [local EXCEPT ![console] = [Free EXCEPT !.op = "CALCULATE_INSTANCE", !.key = k]]
              /\ UNCHANGED down
  BY DEF AskInstance
<1>3. [Free EXCEPT !.op = "CALCULATE_INSTANCE", !.key = k] \in Local
  BY DEF Free, Local, Results
<1>4. pc' \in [Threads -> PCs] /\ local' \in [Threads -> Local] /\ down' \in BOOLEAN
  BY <1>1, <1>2, <1>3, LocalTypes, PCsMembers DEF Types
<1> QED
  BY <1>1, <1>4 DEF AskInstance, instances, history, wires, list, dictionary, planifier, Types

LEMMA TypesAskValue ==
    ASSUME TInv, AskValue PROVE Types'
<1>1. Types /\ console \in Threads /\ Connections
  BY DEF TInv, Threads
<1>2. PICK k \in Keys :
         /\ keys_location[k] # << >>
         /\ IF Location(k) = NULL THEN down' = TRUE /\ UNCHANGED <<wires, local>>
            ELSE Asks(console, Location(k), "GET_KEY_VALUE", k)
  BY DEF AskValue
<1>3. pc' \in [Threads -> PCs]
  BY <1>1, LocalTypes, PCsMembers DEF AskValue
<1>4. CASE Location(k) = NULL
  BY <1>1, <1>2, <1>3, <1>4 DEF AskValue, instances, history, list, planifier, wires, Types
<1>5. CASE Location(k) # NULL
  <2>1. Location(k) \in Instances /\ socket_id[Location(k)] # 0
    <3>1. Location(k) \in Instances
      BY <1>1, <1>5, LocationTypes
    <3>2. keys_location[k] \in Seq(Instances \cup {NULL})
      BY <1>1 DEF Types
    <3>3. 1 \in DOMAIN keys_location[k] /\ Location(k) = keys_location[k][1]
      BY <1>2, <3>2 DEF Location
    <3> QED
      BY <1>1, <3>1, <3>3 DEF Connections, InTheList
  <2>2. /\ requests' \in [Sockets -> Seq(Request)] /\ reset' \subseteq Sockets
        /\ crossed' \in BOOLEAN /\ down' \in BOOLEAN /\ replies' = replies
        /\ local' \in [Threads -> Local]
    BY <1>1, <1>2, <1>5, <2>1, AsksTypes
  <2> QED
    BY <1>1, <1>3, <2>2 DEF AskValue, instances, history, list, planifier, Types
<1> QED
  BY <1>4, <1>5

LEMMA TypesReceiveValue ==
    ASSUME TInv, ~down, ReceiveValue PROVE Types'
<1>1. Types /\ console \in Threads /\ local[console].selected \in Instances
  BY DEF ReceiveValue, TInv, Control, Threads
<1>2. Source(console) \in Sockets
  BY <1>1, SourceIsSocket
<1>3. pc' \in [Threads -> PCs] /\ local' \in [Threads -> Local]
  BY <1>1, LocalTypes, ResultsMembers DEF ReceiveValue
<1>4. replies' \in [Sockets -> Seq(Reply)] /\ requests' = requests /\ reset' = reset
  <2>1. CASE UNCHANGED wires
    BY <2>1, <1>1 DEF wires, Types
  <2>2. CASE \E n \in {1, 2} : Received(Source(console), n) /\ Take(Source(console), n)
    BY <2>2, <1>1, <1>2, TakeTypes DEF Take
  <2> QED
    BY <2>1, <2>2 DEF ReceiveValue
<1> QED
  BY <1>1, <1>3, <1>4 DEF ReceiveValue, others, instances, outside, history, list, planifier, Types

-----------------------------------------------------------------------------
(* What an instance's step does to its sockets *)

\* A question that is pending is on the socket that its instance has now.
LEMMA ServedSocket ==
    ASSUME TInv, NEW i \in Instances, peer[i] # 0
    PROVE  /\ <<i, peer[i]>> \in Sockets /\ Open(<<i, peer[i]>>)
           /\ requests[<<i, peer[i]>>] # << >> => <<i, peer[i]>> = SocketOf(i)
<1>1. peer[i] \in Nat /\ socket_id[i] \in Nat /\ accepted[i] \in Nat /\ MaxConnections[i] \in Nat
  BY CoordinatorAssumption DEF TInv, Types
<1>2. socket_id[i] <= accepted[i] /\ accepted[i] <= MaxConnections[i] /\ peer[i] = accepted[i]
  BY <1>1 DEF TInv, Connections, Connected
<1>3. <<i, peer[i]>> \in Sockets
  BY <1>1, <1>2, PairIsSocket
<1>4. requests[<<i, peer[i]>>] # << >> => ~(peer[i] > socket_id[i])
  BY <1>3 DEF TInv, Connections
<1>5. requests[<<i, peer[i]>>] # << >> => peer[i] = socket_id[i]
  BY <1>1, <1>2, <1>4
<1> QED
  BY <1>3, <1>5 DEF Open, SocketOf

\* The words of an answer, one or two.
AnswerReplies(t, words) == [n \in DOMAIN words |-> [thread |-> t, word |-> words[n]]]

LEMMA AnswerTypes ==
    ASSUME TInv, NEW i \in Instances, NEW r \in Request, NEW set \in {"OK", "FAILED", "NEED_COMPACTION"}
    PROVE  LET words == Answer(i, r, set)
           IN  /\ words \in Seq(Results) /\ Len(words) \in {1, 2}
               /\ AnswerReplies(r.thread, words) \in Seq(Reply)
               /\ Len(AnswerReplies(r.thread, words)) = Len(words)
               /\ \A n \in 1 .. Len(words) : AnswerReplies(r.thread, words)[n].thread = r.thread
                                             /\ AnswerReplies(r.thread, words)[n].word = words[n]
<1> DEFINE words == Answer(i, r, set)
<1>1. words \in Seq(Results) /\ Len(words) \in {1, 2}
  <2>1. words = <<set, "entries in use">> \/ words = <<"OK", "entries in use">>
        \/ words = <<"FAILED", "entries in use">> \/ words = <<"KEY_VALUE_FOUND", "value">>
        \/ words = <<"KEY_VALUE_NOT_FOUND">> \/ words = <<"OK">>
    BY DEF Answer
  <2>2. {"OK", "FAILED", "NEED_COMPACTION", "entries in use", "KEY_VALUE_FOUND", "value",
         "KEY_VALUE_NOT_FOUND"} \subseteq Results
    BY DEF Results
  <2>3. \A a, b \in Results : <<a, b>> \in Seq(Results) /\ Len(<<a, b>>) = 2
                             /\ <<a>> \in Seq(Results) /\ Len(<<a>>) = 1
    OBVIOUS
  <2> HIDE DEF words
  <2> QED
    BY <2>1, <2>2, <2>3
<1> HIDE DEF words
<1>2. \A n \in 1 .. Len(words) : words[n] \in Results
  BY <1>1
<1>3. DOMAIN words = 1 .. Len(words) /\ Len(words) \in Nat
  BY <1>1
<1>4. r.thread \in Threads
  BY DEF Request
<1>5. AnswerReplies(r.thread, words) \in [1 .. Len(words) -> Reply]
  BY <1>2, <1>3, <1>4 DEF AnswerReplies, Reply
<1>6. AnswerReplies(r.thread, words) \in Seq(Reply)
  BY <1>3, <1>5
<1>7. Len(AnswerReplies(r.thread, words)) = Len(words)
  BY <1>3, <1>5, <1>6
<1>8. \A n \in 1 .. Len(words) : AnswerReplies(r.thread, words)[n].thread = r.thread
                                 /\ AnswerReplies(r.thread, words)[n].word = words[n]
  BY <1>3 DEF AnswerReplies
<1> QED
  BY <1>1, <1>6, <1>7, <1>8 DEF words

\* A step of Serve, with what it answers named.
Serves(i, r, set, evicted) ==
    /\ peer[i] # 0 /\ requests[<<i, peer[i]>>] # << >> /\ r = Head(requests[<<i, peer[i]>>])
    /\ set \in {"OK", "FAILED", "NEED_COMPACTION"}
    /\ requests' = [requests EXCEPT ![<<i, peer[i]>>] = Tail(@)]
    /\ replies' = [replies EXCEPT ![<<i, peer[i]>>] = @ \o AnswerReplies(r.thread, Answer(i, r, set))]
    /\ held' = [held EXCEPT ![i] = (@ \ evicted) \cup IF r.op = "SET" /\ set = "OK" THEN {r.key} ELSE {}]
    /\ compact' = [compact EXCEPT ![i] = r.op # "SET" /\ (@ \/ r.op = "START_COMPACTION")]
    /\ stored' = [stored EXCEPT ![i] = IF r.op = "STORE" THEN @ \cup ({r.key} \cap held[i]) ELSE @]
    /\ UNCHANGED <<outside, history, list, dictionary, planifier, threads, peer, reset, registering, down,
                   crossed>>

LEMMA ServeServes ==
    ASSUME NEW i \in Instances, Serve(i)
    PROVE  \E r, set, evicted : Serves(i, r, set, evicted)
<1> DEFINE s == <<i, peer[i]>>
           r == Head(requests[s])
<1>1. PICK put \in IF r.op = "SET" THEN Puts(i, r.key) ELSE {<<"OK", {}>>} :
      /\ requests' = [requests EXCEPT ![s] = Tail(@)]
      /\ replies' = [replies EXCEPT ![s] = @ \o AnswerReplies(r.thread, Answer(i, r, put[1]))]
      /\ held' = [held EXCEPT ![i] = (@ \ put[2]) \cup IF r.op = "SET" /\ put[1] = "OK" THEN {r.key} ELSE {}]
      /\ compact' = [compact EXCEPT ![i] = r.op # "SET" /\ (@ \/ r.op = "START_COMPACTION")]
      /\ stored' = [stored EXCEPT ![i] = IF r.op = "STORE" THEN @ \cup ({r.key} \cap held[i]) ELSE @]
  BY DEF Serve, AnswerReplies
<1>2. put[1] \in {"OK", "FAILED", "NEED_COMPACTION"}
  BY DEF Puts
<1>3. peer[i] # 0 /\ requests[s] # << >>
      /\ UNCHANGED <<outside, history, list, dictionary, planifier, threads, peer, reset, registering, down,
                     crossed>>
  BY DEF Serve
<1> QED
  BY <1>1, <1>2, <1>3 DEF Serves

LEMMA ServesRequest ==
    ASSUME TInv, NEW i \in Instances, NEW r, NEW set, NEW evicted, Serves(i, r, set, evicted)
    PROVE  /\ <<i, peer[i]>> \in Sockets /\ <<i, peer[i]>> = SocketOf(i) /\ r \in Request
           /\ r = requests[<<i, peer[i]>>][1] /\ Open(<<i, peer[i]>>)
           /\ requests[<<i, peer[i]>>] \in Seq(Request) /\ Len(requests[<<i, peer[i]>>]) >= 1
<1>1. <<i, peer[i]>> \in Sockets /\ <<i, peer[i]>> = SocketOf(i) /\ Open(<<i, peer[i]>>)
  BY ServedSocket DEF Serves
<1>2. requests[<<i, peer[i]>>] \in Seq(Request)
  BY <1>1 DEF TInv, Types
<1> QED
  BY <1>1, <1>2, HeadIn DEF Serves

LEMMA TypesServe ==
    ASSUME TInv, NEW i \in Instances, Serve(i) PROVE Types'
<1>1. PICK r, set, evicted : Serves(i, r, set, evicted)
  BY ServeServes
<1> DEFINE s == <<i, peer[i]>>
<1>2. /\ s \in Sockets /\ r \in Request /\ requests[s] \in Seq(Request) /\ requests[s] # << >>
      /\ set \in {"OK", "FAILED", "NEED_COMPACTION"} /\ Types
  BY <1>1, ServesRequest DEF Serves, TInv
<1> HIDE DEF s
<1>3. requests' \in [Sockets -> Seq(Request)]
  <2>1. Tail(requests[s]) \in Seq(Request)
    BY <1>2
  <2> QED
    BY <1>1, <1>2, <2>1 DEF Serves, s, Types
<1>4. replies' \in [Sockets -> Seq(Reply)]
  <2>1. AnswerReplies(r.thread, Answer(i, r, set)) \in Seq(Reply) /\ replies[s] \in Seq(Reply)
    BY <1>2, AnswerTypes DEF Types
  <2>2. replies[s] \o AnswerReplies(r.thread, Answer(i, r, set)) \in Seq(Reply)
    BY <2>1
  <2> QED
    BY <1>1, <1>2, <2>2 DEF Serves, s, Types
<1>5. held' \in [Instances -> SUBSET Keys]
  <2>1. r.op = "SET" => r.key \in Keys
    BY <1>2 DEF Request
  <2>2. (held[i] \ evicted) \cup (IF r.op = "SET" /\ set = "OK" THEN {r.key} ELSE {}) \in SUBSET Keys
    BY <1>2, <2>1 DEF Types
  <2> QED
    BY <1>1, <1>2, <2>2 DEF Serves, Types
<1>6. compact' \in [Instances -> BOOLEAN]
  BY <1>1, <1>2 DEF Serves, Types
<1>7. stored' \in [Instances -> SUBSET Keys]
  <2>1. (IF r.op = "STORE" THEN stored[i] \cup ({r.key} \cap held[i]) ELSE stored[i]) \in SUBSET Keys
    BY <1>2 DEF Types
  <2> QED
    BY <1>1, <1>2, <2>1 DEF Serves, Types
<1> QED
  BY <1>1, <1>2, <1>3, <1>4, <1>5, <1>6, <1>7
  DEF Serves, outside, history, list, dictionary, planifier, threads, Types

LEMMA TypesDies ==
    ASSUME TInv, NEW i \in Instances, Dies(i) PROVE Types'
<1> DEFINE s == <<i, peer[i]>>
<1>1. s \in Sockets /\ Types
  BY ServedSocket DEF Dies, TInv
<1>2. requests' \in [Sockets -> Seq(Request)]
  <2>1. << >> \in Seq(Request)
    OBVIOUS
  <2> QED
    BY <1>1, <2>1 DEF Dies, Types
<1>3. reset' \subseteq Sockets
  BY <1>1 DEF Dies, Types
<1> QED
  BY <1>1, <1>2, <1>3
  DEF Dies, outside, history, list, dictionary, planifier, threads, Types

LEMMA TypesConnects ==
    ASSUME TInv, NEW i \in Instances, Connects(i) PROVE Types'
<1>1. Types /\ accepted[i] \in Nat
  BY DEF TInv, Types
<1>2. held' \in [Instances -> SUBSET Keys]
  BY <1>1 DEF Connects, KeysToLoad, Types
<1> QED
  BY <1>1, <1>2 DEF Connects, history, wires, list, dictionary, planifier, threads, Types

LEMMA TypesCheckIfExistsOrCreate ==
    ASSUME TInv, NEW i \in Instances, CheckIfExistsOrCreate(i) PROVE Types'
BY DEF CheckIfExistsOrCreate, outside, history, wires, dictionary, planifier, threads, TInv, Types

LEMMA TypesStep ==
    ASSUME TInv, [Next]_vars PROVE Types'
<1>1. CASE UNCHANGED vars
  BY <1>1 DEF vars, dictionary, list, threads, planifier, wires, others, instances, outside, history, TInv, Types
<1>2. ASSUME NEW t \in ISEs, ReceiveSentence(t) PROVE Types'
  BY <1>2, TypesReceiveSentence
<1>3. ASSUME NEW t \in Threads, Runs(t) PROVE Types'
  BY <1>3, TypesNotifyPlanifier, TypesValidation, TypesSelect, TypesLookForInstance, TypesHealthCheck,
     TypesSendToInstance, TypesReceiveResult, TypesLocate, TypesOrderCompaction, TypesFilterAgain,
     TypesAwaitCompaction, TypesRetry, TypesClose, TypesInform
  DEF Runs
<1>4. ASSUME NEW i \in Instances, Serve(i) \/ Dies(i) \/ Connects(i) \/ CheckIfExistsOrCreate(i)
      PROVE  Types'
  BY <1>4, TypesServe, TypesDies, TypesConnects, TypesCheckIfExistsOrCreate
<1> QED
  BY <1>1, <1>2, <1>3, <1>4, TypesAskInstance, TypesAskValue, TypesReceiveValue, TypesPlanifierAnswers
  DEF Next

-----------------------------------------------------------------------------
(* Connections *)

Still == UNCHANGED <<socket_id, accepted, peer, registering, compact>>

\* Which steps touch the connections of the instances.
LEMMA StillOrInstance ==
    ASSUME TInv, [Next]_vars
    PROVE  Still \/ \E i \in Instances : Serve(i) \/ Dies(i) \/ Connects(i) \/ CheckIfExistsOrCreate(i)
<1> USE DEF Still, others, instances, list
<1>1. CASE UNCHANGED vars
  BY <1>1 DEF vars, dictionary, threads, planifier, wires, outside, history
<1>2. ASSUME NEW t \in ISEs, ReceiveSentence(t) PROVE Still
  BY <1>2 DEF ReceiveSentence
<1>3. ASSUME NEW t \in Threads, Runs(t) PROVE Still
  <2>1. CASE NotifyPlanifier(t) \/ Validation(t) \/ Select(t) \/ LookForInstance(t)
    BY <2>1 DEF NotifyPlanifier, Validation, Select, LookForInstance, outside
  <2>2. CASE HealthCheck(t) \/ SendToInstance(t) \/ ReceiveResult(t) \/ Locate(t)
    BY <2>2 DEF HealthCheck, SendToInstance, ReceiveResult, Locate, outside, HandleInstanceDisconnection
  <2>3. CASE OrderCompaction(t) \/ FilterAgain(t) \/ AwaitCompaction(t) \/ Retry(t)
    BY <2>3 DEF OrderCompaction, FilterAgain, AwaitCompaction, Retry, outside, HandleInstanceDisconnection
  <2>4. CASE Close(t) \/ Inform(t)
    BY <2>4 DEF Close, Inform, outside
  <2> QED
    BY <1>3, <2>1, <2>2, <2>3, <2>4 DEF Runs
<1>4. AskInstance \/ AskValue \/ ReceiveValue \/ PlanifierAnswers => Still
  BY DEF AskInstance, AskValue, ReceiveValue, PlanifierAnswers, outside
<1> QED
  BY <1>1, <1>2, <1>3, <1>4 DEF Next

LEMMA ConnectedStep ==
    ASSUME TInv, [Next]_vars PROVE \A i \in Instances : Connected(i)'
<1>1. SUFFICES ASSUME NEW j \in Instances PROVE Connected(j)'
  OBVIOUS
<1>2. /\ socket_id \in [Instances -> Nat] /\ accepted \in [Instances -> Nat] /\ peer \in [Instances -> Nat]
      /\ registering \in [Instances -> Nat] /\ compact \in [Instances -> BOOLEAN] /\ Connected(j)
      /\ MaxConnections[j] \in Nat
  BY CoordinatorAssumption DEF TInv, Types, Connections
<1>3. CASE Still
  BY <1>2, <1>3 DEF Still, Connected
<1>4. ASSUME NEW i \in Instances, Serve(i) PROVE Connected(j)'
  <2>1. PICK r, set, evicted : Serves(i, r, set, evicted)
    BY <1>4, ServeServes
  <2>2. <<i, peer[i]>> = SocketOf(i)
    BY <2>1, ServesRequest
  <2>3. UNCHANGED <<socket_id, accepted, peer, registering>> /\ (j # i => compact'[j] = compact[j])
    BY <2>1, <1>2 DEF Serves, outside, list
  <2>4. CASE j = i
    <3>1. registering[j] = 0
      BY <2>2, <2>4, <1>2, <2>1 DEF SocketOf, Connected, Serves
    <3> QED
      BY <3>1, <2>3, <1>2 DEF Connected
  <2> QED
    BY <2>3, <2>4, <1>2 DEF Connected
<1>5. ASSUME NEW i \in Instances, Dies(i) PROVE Connected(j)'
  BY <1>2, <1>5 DEF Dies, Connected, outside, list
<1>6. ASSUME NEW i \in Instances, Connects(i) PROVE Connected(j)'
  <2>1. /\ accepted' = [accepted EXCEPT ![i] = accepted[i] + 1] /\ peer' = [peer EXCEPT ![i] = accepted[i] + 1]
        /\ registering' = [registering EXCEPT ![i] = accepted[i] + 1]
        /\ compact' = [compact EXCEPT ![i] = TRUE] /\ socket_id' = socket_id
        /\ accepted[i] < MaxConnections[i]
    BY <1>6 DEF Connects, list
  <2> QED
    BY <1>2, <2>1 DEF Connected
<1>7. ASSUME NEW i \in Instances, CheckIfExistsOrCreate(i) PROVE Connected(j)'
  <2>1. /\ socket_id' = [socket_id EXCEPT ![i] = registering[i]] /\ registering[i] # 0
        /\ registering' = [registering EXCEPT ![i] = 0]
        /\ peer' = peer /\ compact' = compact /\ accepted' = accepted
    BY <1>7 DEF CheckIfExistsOrCreate, outside
  <2> QED
    BY <1>2, <2>1 DEF Connected
<1> QED
  BY <1>3, <1>4, <1>5, <1>6, <1>7, StillOrInstance

\* No step of a thread or of the planifier writes on a socket but to send.
Reading ==
    requests' = requests /\ \A s \in Sockets :
        \/ replies'[s] = replies[s]
        \/ /\ replies[s] # << >> /\ Len(replies'[s]) < Len(replies[s])
           /\ \A n \in DOMAIN replies'[s] : \E m \in DOMAIN replies[s] : replies'[s][n] = replies[s][m]

Sending ==
    \E t \in Threads, to \in SUBSET Sockets,
       op \in {"HEALTH_CHECK", "SET", "STORE", "GET_KEY_VALUE", "START_COMPACTION"}, k \in Keys \cup {NULL} :
          /\ SendTo(t, to, op, k) /\ \A s \in to : s = SocketOf(s[1])
          /\ op \in {"SET", "STORE"} => t \in ISEs /\ pc[t] = "send"

LEMMA AsksSends ==
    ASSUME TInv, NEW t \in Threads, NEW i \in Instances, socket_id[i] # 0,
           NEW op \in {"HEALTH_CHECK", "SET", "STORE", "GET_KEY_VALUE"},
           NEW k \in Keys \cup {NULL}, Asks(t, i, op, k),
           op \in {"SET", "STORE"} => t \in ISEs /\ pc[t] = "send"
    PROVE  Sending
<1>1. {SocketOf(i)} \in SUBSET Sockets
  BY SocketOfIsSocket DEF TInv
<1>2. \A s \in {SocketOf(i)} : s = SocketOf(s[1])
  BY DEF SocketOf
<1>3. SendTo(t, {SocketOf(i)}, op, k)
  BY DEF Asks
<1>4. op \in {"HEALTH_CHECK", "SET", "STORE", "GET_KEY_VALUE", "START_COMPACTION"}
  OBVIOUS
<1> QED
  BY <1>1, <1>2, <1>3, <1>4 DEF Sending

LEMMA TakeReads ==
    ASSUME TInv, NEW s \in Sockets, NEW n \in {1, 2}, Received(s, n), Take(s, n)
    PROVE  Reading
<1>1. /\ Len(replies[s]) \in Nat /\ Len(replies'[s]) = Len(replies[s]) - n
      /\ \A m \in 1 .. Len(replies[s]) - n : replies'[s][m] = replies[s][m + n]
      /\ \A r \in Sockets \ {s} : replies'[r] = replies[r]
      /\ requests' = requests
  BY TakeLeaves DEF TInv
<1>2. replies[s] \in Seq(Reply) /\ replies'[s] \in Seq(Reply)
  BY TakeTypes DEF TInv, Types
<1>3. replies[s] # << >> /\ Len(replies'[s]) < Len(replies[s])
  BY <1>1, <1>2 DEF Received
<1>4. ASSUME NEW m \in DOMAIN replies'[s]
      PROVE  m + n \in DOMAIN replies[s] /\ replies'[s][m] = replies[s][m + n]
  <2>1. m \in 1 .. Len(replies[s]) - n
    BY <1>1, <1>2
  <2>2. \A len \in Nat : m \in 1 .. len - n => m + n \in 1 .. len
    OBVIOUS
  <2>3. m + n \in 1 .. Len(replies[s])
    BY <1>1, <2>1, <2>2
  <2> QED
    BY <1>1, <1>2, <2>1, <2>3
<1> QED
  BY <1>1, <1>3, <1>4 DEF Reading

LEMMA ReadingOrSending ==
    ASSUME TInv, [Next]_vars, ~ (\E i \in Instances : Serve(i) \/ Dies(i))
    PROVE  Reading \/ Sending
<1>1. UNCHANGED wires => Reading
  BY DEF wires, Reading
<1>2. CASE UNCHANGED vars
  BY <1>1, <1>2 DEF vars
<1>3. ASSUME NEW t \in ISEs, ReceiveSentence(t) PROVE Reading
  BY <1>1, <1>3 DEF ReceiveSentence
<1>4. ASSUME NEW t \in Threads, Runs(t) PROVE Reading \/ Sending
  <2>1. CASE NotifyPlanifier(t) \/ Validation(t) \/ Select(t) \/ Locate(t) \/ FilterAgain(t) \/ Retry(t)
             \/ Close(t) \/ Inform(t)
    BY <1>1, <2>1 DEF NotifyPlanifier, Validation, Select, Locate, FilterAgain, Retry, Close, Inform
  <2>2. CASE LookForInstance(t)
    <3>1. CASE UNCHANGED wires
      BY <1>1, <3>1
    <3>2. CASE \E i \in Available : Asks(t, i, "HEALTH_CHECK", NULL)
      BY <3>2, AsksSends DEF Available
    <3> QED
      BY <2>2, <3>1, <3>2 DEF LookForInstance
  <2>3. CASE HealthCheck(t)
    <3>1. Source(t) \in Sockets
      BY <2>3, SourceIsSocket DEF HealthCheck, TInv, Control
    <3> QED
      BY <1>1, <2>3, <3>1, TakeReads DEF HealthCheck
  <2>4. CASE SendToInstance(t)
    <3>1. local[t].selected \in Instances /\ local[t].op \in {"HEALTH_CHECK", "SET", "STORE", "GET_KEY_VALUE"}
          /\ local[t].key \in Keys \cup {NULL}
      BY <2>4 DEF SendToInstance, TInv, Control, Chosen, AfterSending, AfterPlanifier, Threads
    <3>2. socket_id[local[t].selected] # 0
      BY <3>1 DEF TInv, Connections
    <3>3. t \in ISEs /\ pc[t] = "send"
      BY <2>4 DEF SendToInstance, TInv, Control, Threads
    <3> QED
      BY <2>4, <3>1, <3>2, <3>3, AsksSends DEF SendToInstance
  <2>5. CASE ReceiveResult(t)
    <3>1. Source(t) \in Sockets
      BY <2>5, SourceIsSocket DEF ReceiveResult, TInv, Control, Chosen
    <3>2. CASE Received(Source(t), 2) /\ Take(Source(t), 2)
      BY <3>1, <3>2, TakeReads
    <3>3. CASE replies' = [replies EXCEPT ![Source(t)] = << >>] /\ UNCHANGED <<requests, reset>>
      BY <3>1, <3>3 DEF Reading, TInv, Types
    <3> QED
      BY <2>5, <3>2, <3>3 DEF ReceiveResult
  <2>6. CASE OrderCompaction(t)
    <3> DEFINE to == {SocketOf(i) : i \in ToCompact(t)}
    <3>1. to \in SUBSET Sockets
      BY SocketOfIsSocket DEF ToCompact, Available, TInv
    <3>2. \A s \in to : s = SocketOf(s[1])
      BY DEF SocketOf
    <3>3. SendTo(t, to, "START_COMPACTION", NULL)
      BY <2>6 DEF OrderCompaction
    <3> QED
      BY <3>1, <3>2, <3>3 DEF Sending
  <2>7. CASE AwaitCompaction(t)
    <3>1. PICK w \in waiting : \/ UNCHANGED wires
                               \/ Received(RecvSocket(w[1], w[2]), 1) /\ Take(RecvSocket(w[1], w[2]), 1)
      BY <2>7 DEF AwaitCompaction
    <3>2. RecvSocket(w[1], w[2]) \in Sockets
      BY AwaitedIsSocket
    <3> QED
      BY <1>1, <3>1, <3>2, TakeReads
  <2> QED
    BY <1>4, <2>1, <2>2, <2>3, <2>4, <2>5, <2>6, <2>7 DEF Runs
<1>5. AskInstance \/ PlanifierAnswers => Reading
  BY <1>1 DEF AskInstance, PlanifierAnswers
<1>6. AskValue => Reading \/ Sending
  <2>1. SUFFICES ASSUME AskValue PROVE Reading \/ Sending
    OBVIOUS
  <2>2. PICK k \in Keys :
           /\ keys_location[k] # << >>
           /\ IF Location(k) = NULL THEN UNCHANGED wires ELSE Asks(console, Location(k), "GET_KEY_VALUE", k)
    BY <2>1 DEF AskValue
  <2>3. CASE Location(k) # NULL
    <3>1. keys_location[k] \in Seq(Instances \cup {NULL})
      BY DEF TInv, Types
    <3>2. 1 \in DOMAIN keys_location[k] /\ Location(k) = keys_location[k][1] /\ Location(k) \in Instances
      BY <2>2, <2>3, <3>1 DEF Location
    <3>3. socket_id[Location(k)] # 0
      BY <3>2 DEF TInv, Connections, InTheList
    <3> QED
      BY <2>2, <2>3, <3>2, <3>3, AsksSends DEF Threads
  <2> QED
    BY <1>1, <2>2, <2>3
<1>7. ReceiveValue /\ ~down => Reading
  <2>1. SUFFICES ASSUME ReceiveValue, ~down PROVE Reading
    OBVIOUS
  <2>2. Source(console) \in Sockets
    BY <2>1, SourceIsSocket DEF ReceiveValue, TInv, Control, Threads
  <2>3. CASE \E n \in {1, 2} : Received(Source(console), n) /\ Take(Source(console), n)
    BY <2>2, <2>3, TakeReads
  <2> QED
    BY <1>1, <2>1, <2>3 DEF ReceiveValue
<1>8. ASSUME NEW i \in Instances, Connects(i) \/ CheckIfExistsOrCreate(i) PROVE Reading
  BY <1>1, <1>8 DEF Connects, CheckIfExistsOrCreate
<1> QED
  BY <1>2, <1>3, <1>4, <1>5, <1>6, <1>7, <1>8 DEF Next

SocketInUse(s) ==
    /\ requests[s] # << >> => Open(s)
    /\ s[2] > socket_id[s[1]] => requests[s] = << >> /\ replies[s] = << >>

LEMMA SocketsStep ==
    ASSUME TInv, [Next]_vars PROVE \A s \in Sockets : SocketInUse(s)'
<1>1. SUFFICES ASSUME NEW s \in Sockets PROVE SocketInUse(s)'
  OBVIOUS
<1>2. /\ SocketInUse(s) /\ Types /\ s[1] \in Instances /\ s[2] \in Nat /\ s = <<s[1], s[2]>> /\ s[2] # 0
      /\ Connected(s[1]) /\ peer[s[1]] \in Nat /\ socket_id[s[1]] \in Nat /\ accepted[s[1]] \in Nat
  BY SocketIsPair DEF TInv, Types, Connections, SocketInUse
<1>3. ASSUME NEW i \in Instances, Serve(i) PROVE SocketInUse(s)'
  <2>1. PICK r, set, evicted : Serves(i, r, set, evicted)
    BY <1>3, ServeServes
  <2>2. UNCHANGED <<socket_id, peer>>
    BY <2>1 DEF Serves, list
  <2>3. CASE s = <<i, peer[i]>>
    <3>1. Open(s) /\ s = SocketOf(i)
      BY <2>1, <2>3, ServesRequest
    <3> QED
      BY <3>1, <2>2, <2>3, <1>2 DEF SocketInUse, Open, SocketOf
  <2>4. CASE s # <<i, peer[i]>>
    <3>1. requests'[s] = requests[s] /\ replies'[s] = replies[s]
      BY <2>1, <2>4, <1>2 DEF Serves, Types
    <3> QED
      BY <3>1, <2>2, <1>2 DEF SocketInUse, Open
  <2> QED
    BY <2>3, <2>4
<1>4. ASSUME NEW i \in Instances, Dies(i) PROVE SocketInUse(s)'
  <2>1. /\ peer' = [peer EXCEPT ![i] = 0] /\ socket_id' = socket_id /\ replies' = replies
        /\ requests' = [requests EXCEPT ![<<i, peer[i]>>] = << >>]
    BY <1>4 DEF Dies, list
  <2>2. CASE s[1] = i
    <3>1. requests'[s] = << >>
      BY <2>1, <2>2, <1>2 DEF SocketInUse, Open, Types
    <3> QED
      BY <3>1, <2>1, <1>2 DEF SocketInUse
  <2>3. CASE s[1] # i
    BY <2>1, <2>3, <1>2 DEF SocketInUse, Open, Types
  <2> QED
    BY <2>2, <2>3
<1>5. CASE Still /\ (Reading \/ Sending)
  <2>1. CASE Reading
    BY <1>2, <1>5, <2>1 DEF Still, Reading, SocketInUse, Open
  <2>2. CASE Sending
    <3>1. PICK t \in Threads, to \in SUBSET Sockets,
               op \in {"HEALTH_CHECK", "SET", "STORE", "GET_KEY_VALUE", "START_COMPACTION"},
               k \in Keys \cup {NULL} : SendTo(t, to, op, k) /\ \A z \in to : z = SocketOf(z[1])
      BY <2>2 DEF Sending
    <3>2. replies' = replies /\ UNCHANGED <<socket_id, peer>>
      BY <1>5, <3>1 DEF SendTo, Still
    <3>3. CASE s \in to /\ Open(s)
      BY <3>1, <3>2, <3>3, <1>2 DEF SocketInUse, Open, SocketOf
    <3>4. CASE ~ (s \in to /\ Open(s))
      <4>1. requests'[s] = requests[s]
        BY <3>1, <3>4 DEF SendTo
      <4> QED
        BY <4>1, <3>2, <1>2 DEF SocketInUse, Open
    <3> QED
      BY <3>3, <3>4
  <2> QED
    BY <1>5, <2>1, <2>2
<1>6. ASSUME NEW i \in Instances, Connects(i) PROVE SocketInUse(s)'
  <2>1. /\ peer' = [peer EXCEPT ![i] = accepted[i] + 1] /\ socket_id' = socket_id /\ peer[i] = 0
        /\ requests' = requests /\ replies' = replies
    BY <1>6 DEF Connects, list, wires
  <2>2. s[1] = i => requests[s] = << >>
    BY <1>2, <2>1 DEF SocketInUse, Open
  <2> QED
    BY <2>1, <2>2, <1>2 DEF SocketInUse, Open, Types
<1>7. ASSUME NEW i \in Instances, CheckIfExistsOrCreate(i) PROVE SocketInUse(s)'
  <2>1. /\ socket_id' = [socket_id EXCEPT ![i] = registering[i]] /\ registering[i] # 0
        /\ requests' = requests /\ replies' = replies /\ peer' = peer /\ registering[i] \in Nat
    BY <1>7, <1>2 DEF CheckIfExistsOrCreate, wires, Types
  <2>2. CASE s[1] = i
    <3>1. s[2] > registering[i] => s[2] > socket_id[i]
      BY <1>2, <2>1, <2>2 DEF Connected
    <3> QED
      BY <3>1, <2>1, <2>2, <1>2 DEF SocketInUse, Open, Types
  <2>3. CASE s[1] # i
    BY <2>1, <2>3, <1>2 DEF SocketInUse, Open, Types
  <2> QED
    BY <2>2, <2>3
<1> QED
  BY <1>3, <1>4, <1>5, <1>6, <1>7, StillOrInstance, ReadingOrSending

\* An instance in the list stays in it, on the same socket or a later one.
LEMMA ListGrows ==
    ASSUME TInv, [Next]_vars, NEW i \in Instances
    PROVE  socket_id[i] \in Nat /\ socket_id'[i] \in Nat /\ socket_id[i] <= socket_id'[i]
<1>1. socket_id \in [Instances -> Nat] /\ registering \in [Instances -> Nat]
  BY DEF TInv, Types
<1>2. CASE UNCHANGED socket_id
  BY <1>1, <1>2
<1>3. ASSUME NEW j \in Instances, CheckIfExistsOrCreate(j) PROVE socket_id[i] <= socket_id'[i] /\ socket_id'[i] \in Nat
  <2>1. socket_id' = [socket_id EXCEPT ![j] = registering[j]] /\ registering[j] # 0
    BY <1>3 DEF CheckIfExistsOrCreate
  <2>2. socket_id[j] < registering[j]
    BY <2>1 DEF TInv, Connections, Connected
  <2> QED
    BY <1>1, <2>1, <2>2
<1>4. ASSUME NEW j \in Instances, Serve(j) \/ Dies(j) \/ Connects(j) PROVE UNCHANGED socket_id
  BY <1>4 DEF Serve, Dies, Connects, list
<1> QED
  BY <1>1, <1>2, <1>3, <1>4, StillOrInstance DEF Still

LocationInTheList(k) == \A n \in DOMAIN keys_location[k] : InTheList(keys_location[k][n])

LEMMA PutPostaInTheList ==
    ASSUME TInv, [Next]_vars, NEW t \in ISEs, local[t].key \in Keys,
           keys_location' = [keys_location EXCEPT ![local[t].key] = PutPosta(@, local[t].selected)],
           NEW k \in Keys
    PROVE  LocationInTheList(k)'
<1>1. Types /\ local[t].selected \in Instances \cup {NULL} /\ Connections /\ t \in Threads
  BY DEF TInv, Types, Local, Threads
<1>2. InTheList(local[t].selected)
  BY <1>1 DEF InTheList, Connections
<1>3. ASSUME NEW n \in DOMAIN keys_location'[k] PROVE InTheList(keys_location'[k][n])
  <2>1. CASE k = local[t].key
    <3>1. keys_location'[k] = PutPosta(keys_location[k], local[t].selected)
          /\ keys_location[k] \in Seq(Instances \cup {NULL})
      BY <1>1, <2>1 DEF Types
    <3>2. keys_location'[k][n] = local[t].selected
          \/ \E m \in DOMAIN keys_location[k] : keys_location'[k][n] = keys_location[k][m]
      BY <1>1, <1>3, <3>1, PutPostaTypes
    <3> QED
      BY <1>1, <1>2, <3>2 DEF Connections
  <2>2. CASE k # local[t].key
    <3>1. keys_location'[k] = keys_location[k]
      BY <1>1, <2>2 DEF Types
    <3> QED
      BY <1>1, <3>1, <1>3 DEF Connections
  <2> QED
    BY <2>1, <2>2
<1>4. \A i : InTheList(i) => InTheList(i)'
  BY ListGrows DEF InTheList
<1> QED
  BY <1>3, <1>4 DEF LocationInTheList, InTheList

LEMMA LocationsStep ==
    ASSUME TInv, [Next]_vars PROVE \A k \in Keys : LocationInTheList(k)'
<1>1. \A i : InTheList(i) => InTheList(i)'
  BY ListGrows DEF InTheList
<1>2. CASE UNCHANGED keys_location
  BY <1>1, <1>2 DEF TInv, Connections, LocationInTheList, InTheList
<1>3. ASSUME NEW t \in Threads, Locate(t) \/ Inform(t) PROVE \A k \in Keys : LocationInTheList(k)'
  <2>1. t \in ISEs /\ local[t].key \in Keys
    BY <1>3 DEF Locate, Inform, TInv, Control, Threads
  <2> QED
    BY <1>3, <2>1, PutPostaInTheList DEF Locate, Inform, PutBack
<1>4. ASSUME NEW t \in Threads, Close(t) PROVE \A k \in Keys : LocationInTheList(k)'
  <2>1. t \in ISEs /\ local[t].key \in Keys
    BY <1>4 DEF Close, TInv, Control, Threads
  <2>2. CASE local[t].result # "KEY_UNREACHABLE"
    BY <1>4, <2>1, <2>2, PutPostaInTheList DEF Close, PutBack
  <2>3. CASE local[t].result = "KEY_UNREACHABLE"
    <3>1. keys_location' = [keys_location EXCEPT ![local[t].key] = WithoutFirst(@)]
      BY <1>4, <2>3 DEF Close
    <3>2. SUFFICES ASSUME NEW k \in Keys, NEW n \in DOMAIN keys_location'[k]
                   PROVE  InTheList(keys_location'[k][n])
      BY <1>1 DEF LocationInTheList, InTheList
    <3>3. keys_location[k] \in Seq(Instances \cup {NULL}) /\ keys_location \in [Keys -> Seq(Instances \cup {NULL})]
      BY DEF TInv, Types
    <3>4. CASE k = local[t].key
      <4>1. \E m \in DOMAIN keys_location[k] : keys_location'[k][n] = keys_location[k][m]
        BY <3>1, <3>2, <3>3, <3>4, <2>1, WithoutFirstTypes
      <4> QED
        BY <4>1 DEF TInv, Connections
    <3>5. CASE k # local[t].key
      BY <3>1, <3>2, <3>3, <3>5, <2>1 DEF TInv, Connections
    <3> QED
      BY <3>4, <3>5
  <2> QED
    BY <2>2, <2>3
<1>5. ASSUME NEW t \in Threads, Runs(t), ~Locate(t), ~Inform(t), ~Close(t) PROVE UNCHANGED keys_location
  BY <1>5 DEF Runs, NotifyPlanifier, Validation, Select, LookForInstance, HealthCheck, SendToInstance,
              ReceiveResult, OrderCompaction, FilterAgain, AwaitCompaction, Retry, dictionary
<1>6. ASSUME NEW i \in Instances, Serve(i) \/ Dies(i) \/ Connects(i) \/ CheckIfExistsOrCreate(i)
      PROVE UNCHANGED keys_location
  BY <1>6 DEF Serve, Dies, Connects, CheckIfExistsOrCreate, dictionary
<1>7. ASSUME \/ \E t \in ISEs : ReceiveSentence(t)
             \/ AskInstance \/ AskValue \/ ReceiveValue \/ PlanifierAnswers \/ UNCHANGED vars
      PROVE UNCHANGED keys_location
  BY <1>7 DEF ReceiveSentence, AskInstance, AskValue, ReceiveValue, PlanifierAnswers, vars, dictionary
<1> QED
  BY <1>2, <1>3, <1>4, <1>5, <1>6, <1>7 DEF Next

ThreadInTheList(t) ==
    local[t].selected \in Instances =>
        socket_id[local[t].selected] # 0 /\ local[t].socket <= socket_id[local[t].selected]

\* What a step of one thread leaves of the others.
LEMMA OtherThreads ==
    ASSUME TInv, NEW t \in Threads, NEW u \in Threads, u # t, Runs(t) \/ ReceiveSentence(t)
    PROVE  local'[u] = local[u] /\ pc'[u] = pc[u]
<1>1. local \in [Threads -> Local] /\ pc \in [Threads -> PCs]
  BY DEF TInv, Types
<1>2. \A where : Goes(t, where) => pc'[u] = pc[u]
  BY <1>1 DEF Goes
<1>3. \A result : Result(t, result) => local'[u] = local[u]
  BY <1>1 DEF Result
<1>4. \A i : Selects(t, i) => local'[u] = local[u]
  BY <1>1 DEF Selects
<1>5. \A result : Ends(t, result) => local'[u] = local[u] /\ pc'[u] = pc[u]
  BY <1>1, <1>2 DEF Ends
<1>6. \A i, op, k : Asks(t, i, op, k) => local'[u] = local[u]
  BY <1>1 DEF Asks
<1>7. CASE ReceiveSentence(t)
  BY <1>7, <1>1, <1>2 DEF ReceiveSentence
<1>8. CASE NotifyPlanifier(t) \/ Validation(t) \/ Select(t)
  BY <1>8, <1>2, <1>4, <1>3, <1>5 DEF NotifyPlanifier, Validation, Select
<1>9. CASE LookForInstance(t) \/ HealthCheck(t) \/ SendToInstance(t)
  BY <1>9, <1>2, <1>5, <1>6 DEF LookForInstance, HealthCheck, SendToInstance
<1>10. CASE ReceiveResult(t) \/ Locate(t) \/ OrderCompaction(t) \/ FilterAgain(t) \/ AwaitCompaction(t)
  BY <1>10, <1>2, <1>3 DEF ReceiveResult, Locate, OrderCompaction, FilterAgain, AwaitCompaction
<1>11. CASE Retry(t)
  BY <1>11, <1>1, <1>2, <1>3 DEF Retry
<1>12. CASE Close(t) \/ Inform(t)
  BY <1>12, <1>2, <1>5 DEF Close, Inform
<1> QED
  BY <1>7, <1>8, <1>9, <1>10, <1>11, <1>12 DEF Runs

\* What a question leaves its thread with.
LEMMA AsksLocal ==
    ASSUME TInv, NEW t \in Threads, NEW i \in Instances, NEW op, NEW k, Asks(t, i, op, k)
    PROVE  /\ local'[t].selected = i /\ local'[t].socket \in {0, socket_id[i]}
           /\ local'[t].op = local[t].op /\ local'[t].key = local[t].key
           /\ local'[t].retried = local[t].retried /\ local'[t].result = local[t].result
           /\ \A u \in Threads : u # t => local'[u] = local[u]
<1>1. PICK n \in {0, socket_id[i]} :
         local' = [local EXCEPT ![t] = [local[t] EXCEPT !.selected = i, !.socket = n]]
  BY DEF Asks
<1>2. local[t] \in Local /\ local \in [Threads -> Local]
  BY DEF TInv, Types
<1>3. local'[t] = [local[t] EXCEPT !.selected = i, !.socket = n]
  BY <1>1, <1>2
<1>4. \A u \in Threads : u # t => local'[u] = local[u]
  BY <1>1, <1>2
<1> QED
  BY <1>2, <1>3, <1>4 DEF Local

LEMMA EndsLocal ==
    ASSUME TInv, NEW t \in Threads, NEW result, Ends(t, result)
    PROVE  local'[t] = [Free EXCEPT !.result = result] /\ pc'[t] = "idle" /\ local'[t].selected = NULL
           /\ local'[t].result = result /\ local'[t].op = "none" /\ local'[t].retried = FALSE
           /\ local'[t].key = NULL /\ local'[t].socket = 0
BY DEF Ends, Goes, Free, TInv, Types

\* A step that does not ask nor choose keeps the instance, or forgets it.
LEMMA ThreadsStep ==
    ASSUME TInv, [Next]_vars, NEW t \in Threads PROVE ThreadInTheList(t)'
<1>1. /\ local[t] \in Local /\ local \in [Threads -> Local] /\ Types /\ Connections /\ ThreadInTheList(t)
      /\ socket_id \in [Instances -> Nat] /\ local[t].socket \in Nat
  BY DEF TInv, Types, Connections, ThreadInTheList, Local
<1>2. CASE local'[t].selected = NULL
  BY <1>2, CoordinatorAssumption DEF ThreadInTheList
<1>3. CASE local'[t].selected = local[t].selected /\ local'[t].socket = local[t].socket
  BY <1>1, <1>3, ListGrows DEF ThreadInTheList
<1>4. CASE /\ local'[t].socket = local[t].socket /\ local[t].socket = 0
           /\ local'[t].selected \in Instances /\ socket_id[local'[t].selected] # 0
  BY <1>1, <1>4, ListGrows DEF ThreadInTheList
<1>5. CASE /\ local'[t].selected \in Instances /\ socket_id[local'[t].selected] # 0
           /\ local'[t].socket \in {0, socket_id[local'[t].selected]}
  BY <1>1, <1>5, ListGrows DEF ThreadInTheList
<1> DEFINE Good == ThreadInTheList(t)'
<1> HIDE DEF Good
<1>6. \A result : Ends(t, result) => Good
  BY <1>2, EndsLocal DEF Good
<1>7. \A result : Result(t, result) => Good
  BY <1>1, <1>3 DEF Good, Result, Local
<1>8. \A i \in Instances : \A op, k : socket_id[i] # 0 /\ Asks(t, i, op, k) => Good
  BY <1>5, AsksLocal DEF Good
<1>9. UNCHANGED local => Good
  BY <1>3 DEF Good
<1>10. ASSUME ReceiveSentence(t) PROVE Good
  <2>1. local'[t].selected = NULL
    BY <1>1, <1>10 DEF ReceiveSentence, Free
  <2> QED
    BY <1>2, <2>1 DEF Good
<1>11. ASSUME Select(t) PROVE Good
  <2>1. CASE UNCHANGED local
    BY <1>9, <2>1
  <2>2. CASE \E result : Result(t, result) \/ Ends(t, result)
    BY <1>6, <1>7, <2>2
  <2>3. CASE Location(local[t].key) # NULL /\ t \in ISEs /\ Selects(t, Location(local[t].key))
    <3> DEFINE k == local[t].key
    <3>1. k \in Keys /\ local[t].selected \in Instances \cup {NULL}
      BY <1>1, <1>11, <2>3 DEF TInv, Control, Select, Local
    <3>2. keys_location[k] \in Seq(Instances \cup {NULL})
      BY <3>1, <1>1 DEF Types
    <3>3. 1 \in DOMAIN keys_location[k] /\ Location(k) = keys_location[k][1] /\ Location(k) \in Instances
      BY <2>3, <3>2 DEF Location
    <3>4. socket_id[Location(k)] # 0
      BY <1>1, <3>1, <3>3 DEF Connections, InTheList
    <3>5. local'[t].selected = Location(k) /\ local'[t].socket = local[t].socket
      BY <1>1, <2>3 DEF Selects, Local
    <3>6. local[t].socket = 0
      BY <1>11, <2>3 DEF TInv, Control, Select
    <3> QED
      BY <1>4, <3>3, <3>4, <3>5, <3>6 DEF Good
  <2> QED
    BY <1>11, <2>1, <2>2, <2>3 DEF Select
<1>12. ASSUME LookForInstance(t) PROVE Good
  <2>1. \A i \in Available : i \in Instances /\ socket_id[i] # 0
    BY DEF Available
  <2> QED
    BY <1>8, <1>9, <1>12, <2>1 DEF LookForInstance
<1>13. ASSUME SendToInstance(t) PROVE Good
  <2>1. local[t].selected \in Instances /\ socket_id[local[t].selected] # 0
    BY <1>1, <1>13 DEF SendToInstance, TInv, Control, Chosen, Connections
  <2> QED
    BY <1>8, <1>13, <2>1 DEF SendToInstance
<1>14. ASSUME Retry(t) PROVE Good
  <2>1. CASE local' = [local EXCEPT ![t].retried = TRUE]
    BY <1>1, <1>3, <2>1 DEF Good, Local
  <2> QED
    BY <1>7, <1>14, <2>1 DEF Retry
<1>15. ASSUME Runs(t) PROVE Good
  <2>1. CASE NotifyPlanifier(t) \/ Validation(t) \/ HealthCheck(t) \/ ReceiveResult(t)
    BY <2>1, <1>6, <1>7, <1>9 DEF NotifyPlanifier, Validation, HealthCheck, ReceiveResult
  <2>2. CASE Locate(t) \/ OrderCompaction(t) \/ FilterAgain(t) \/ AwaitCompaction(t) \/ Close(t) \/ Inform(t)
    BY <2>2, <1>6, <1>9 DEF Locate, OrderCompaction, FilterAgain, AwaitCompaction, Close, Inform
  <2> QED
    BY <1>11, <1>12, <1>13, <1>14, <1>15, <2>1, <2>2 DEF Runs
<1>16. ASSUME NEW u \in Threads, u # t, Runs(u) \/ ReceiveSentence(u) PROVE Good
  BY <1>3, <1>16, OtherThreads DEF Good
<1>17. ASSUME AskInstance PROVE Good
  <2>1. CASE UNCHANGED local
    BY <1>9, <2>1
  <2>2. CASE \E k \in Keys : local' = [local EXCEPT ![console] = [Free EXCEPT !.op = "CALCULATE_INSTANCE", !.key = k]]
    <3>1. CASE t = console
      BY <1>1, <1>2, <2>2, <3>1 DEF Free, Good
    <3>2. CASE t # console
      BY <1>1, <1>3, <2>2, <3>2 DEF Good
    <3> QED
      BY <3>1, <3>2
  <2> QED
    BY <1>17, <2>1, <2>2 DEF AskInstance
<1>18. ASSUME AskValue PROVE Good
  <2>1. PICK k \in Keys :
           /\ keys_location[k] # << >>
           /\ IF Location(k) = NULL THEN UNCHANGED local ELSE Asks(console, Location(k), "GET_KEY_VALUE", k)
    BY <1>18 DEF AskValue
  <2>2. CASE Location(k) # NULL
    <3>1. keys_location[k] \in Seq(Instances \cup {NULL})
      BY <1>1 DEF Types
    <3>2. 1 \in DOMAIN keys_location[k] /\ Location(k) = keys_location[k][1] /\ Location(k) \in Instances
      BY <2>1, <2>2, <3>1 DEF Location
    <3>3. socket_id[Location(k)] # 0
      BY <1>1, <3>2 DEF Connections, InTheList
    <3>4. CASE t = console
      BY <1>8, <2>1, <2>2, <3>2, <3>3, <3>4
    <3>5. CASE t # console
      <4>1. local'[t] = local[t]
        BY <2>1, <2>2, <3>2, <3>5, AsksLocal DEF Threads
      <4> QED
        BY <1>3, <4>1 DEF Good
    <3> QED
      BY <3>4, <3>5
  <2> QED
    BY <1>9, <2>1, <2>2
<1>19. ASSUME ReceiveValue PROVE Good
  <2>1. CASE t = console
    BY <1>6, <1>19, <2>1 DEF ReceiveValue
  <2>2. CASE t # console
    BY <1>1, <1>3, <1>19, <2>2 DEF ReceiveValue, Ends, Good
  <2> QED
    BY <2>1, <2>2
<1>20. ASSUME NEW i \in Instances, Serve(i) \/ Dies(i) \/ Connects(i) \/ CheckIfExistsOrCreate(i) PROVE Good
  BY <1>9, <1>20 DEF Serve, Dies, Connects, CheckIfExistsOrCreate, threads
<1>21. PlanifierAnswers \/ UNCHANGED vars => Good
  BY <1>9 DEF PlanifierAnswers, vars, threads
<1>22. ISEs \subseteq Threads
  BY DEF Threads
<1> QED
  BY <1>10, <1>15, <1>16, <1>17, <1>18, <1>19, <1>20, <1>21, <1>22 DEF Next, Good

LEMMA WaitingStep ==
    ASSUME TInv, [Next]_vars
    PROVE  \A w \in waiting' : socket_id'[w[1]] # 0 /\ w[2] <= socket_id'[w[1]]
<1>1. Types /\ Connections /\ waiting \subseteq Instances \X Nat /\ socket_id \in [Instances -> Nat]
  BY DEF TInv, Types
<1>2. CASE waiting' \subseteq waiting
  <2>1. SUFFICES ASSUME NEW w \in waiting PROVE socket_id'[w[1]] # 0 /\ w[2] <= socket_id'[w[1]]
    BY <1>2
  <2>2. w[1] \in Instances /\ w[2] \in Nat /\ socket_id[w[1]] # 0 /\ w[2] <= socket_id[w[1]]
    BY <1>1 DEF Connections
  <2> QED
    BY <2>2, ListGrows
<1>3. ASSUME NEW t \in Threads, FilterAgain(t)
      PROVE \A w \in waiting' : socket_id'[w[1]] # 0 /\ w[2] <= socket_id'[w[1]]
  <2>1. PICK called \in BOOLEAN : waiting' = {<<i, IF called THEN socket_id[i] ELSE 0>> : i \in ToAwait(t)}
    BY <1>3 DEF FilterAgain
  <2>2. \A i \in ToAwait(t) : i \in Instances /\ socket_id[i] # 0
    BY DEF ToAwait, ToCompact, Available
  <2>3. socket_id' = socket_id
    BY <1>3 DEF FilterAgain, others, list
  <2>4. \A i \in Instances : socket_id[i] \in Nat
    BY <1>1
  <2>5. SUFFICES ASSUME NEW w \in waiting' PROVE socket_id[w[1]] # 0 /\ w[2] <= socket_id[w[1]]
    BY <2>3
  <2>6. PICK i \in ToAwait(t) : w = <<i, IF called THEN socket_id[i] ELSE 0>>
    BY <2>1
  <2>7. w[1] = i /\ (w[2] = socket_id[i] \/ w[2] = 0)
    BY <2>6
  <2> QED
    BY <2>2, <2>4, <2>7
<1>4. ASSUME NEW t \in Threads, AwaitCompaction(t) PROVE waiting' \subseteq waiting
  BY <1>4 DEF AwaitCompaction
<1>5. ASSUME NEW t \in Threads, Runs(t), ~FilterAgain(t), ~AwaitCompaction(t) PROVE waiting' = waiting
  BY <1>5 DEF Runs, NotifyPlanifier, Validation, Select, LookForInstance, HealthCheck, SendToInstance,
              ReceiveResult, Locate, OrderCompaction, Retry, Close, Inform
<1>6. ASSUME NEW i \in Instances, Serve(i) \/ Dies(i) \/ Connects(i) \/ CheckIfExistsOrCreate(i)
      PROVE waiting' = waiting
  BY <1>6 DEF Serve, Dies, Connects, CheckIfExistsOrCreate, threads
<1>7. ASSUME \/ \E t \in ISEs : ReceiveSentence(t)
             \/ AskInstance \/ AskValue \/ ReceiveValue \/ PlanifierAnswers \/ UNCHANGED vars
      PROVE waiting' = waiting
  BY <1>7 DEF ReceiveSentence, AskInstance, AskValue, ReceiveValue, PlanifierAnswers, vars, threads
<1> QED
  BY <1>2, <1>3, <1>4, <1>5, <1>6, <1>7 DEF Next

LEMMA ConnectionsStep ==
    ASSUME TInv, [Next]_vars PROVE Connections'
BY ConnectedStep, SocketsStep, LocationsStep, ThreadsStep, WaitingStep
DEF Connections, SocketInUse, LocationInTheList, ThreadInTheList

-----------------------------------------------------------------------------
(* Control *)

ThreadControl(t) ==
    /\ t = console => /\ pc[t] \in {"idle", "select", "look", "health", "value"}
                      /\ pc[t] \in {"select", "look", "health"} => local[t].op = "CALCULATE_INSTANCE"
    /\ t \in ISEs => /\ pc[t] # "value"
                     /\ pc[t] # "idle" => local[t].op \in {"GET", "SET", "STORE"} /\ local[t].key \in Keys
                     /\ pc[t] \in AfterPlanifier => local[t].op # "GET"
                     /\ pc[t] \in {"look", "health"} => local[t].op = "SET"
    /\ pc[t] \in {"idle", "notify", "validation", "select"} => local[t].socket = 0
    /\ pc[t] \in Chosen \cup {"health"} => local[t].selected \in Instances
    /\ pc[t] = "value" /\ ~down => local[t].selected \in Instances

LEMMA ControlIsOfThreads ==
    Control <=> \A t \in Threads : ThreadControl(t)
BY CoordinatorAssumption DEF Control, ThreadControl, Threads

\* The control points, for the provers.
LEMMA Points ==
    /\ Chosen = {"send", "receive", "locate", "order", "filter", "await"}
    /\ AfterPlanifier = {"send", "receive", "locate", "order", "filter", "await", "close", "inform",
                         "select", "look", "health"}
BY DEF Chosen, AfterPlanifier, AfterSending

LEMMA GoesTo ==
    ASSUME TInv, NEW t \in Threads, NEW where, Goes(t, where)
    PROVE  pc'[t] = where /\ \A u \in Threads : u # t => pc'[u] = pc[u]
BY DEF Goes, TInv, Types

LEMMA ResultLocal ==
    ASSUME TInv, NEW t \in Threads, NEW result, Result(t, result)
    PROVE  /\ local'[t].result = result /\ local'[t].op = local[t].op /\ local'[t].key = local[t].key
           /\ local'[t].selected = local[t].selected /\ local'[t].socket = local[t].socket
           /\ local'[t].retried = local[t].retried
BY DEF Result, TInv, Types, Local

LEMMA SelectsLocal ==
    ASSUME TInv, NEW t \in Threads, NEW i, Selects(t, i)
    PROVE  /\ local'[t].selected = i /\ local'[t].op = local[t].op /\ local'[t].key = local[t].key
           /\ local'[t].result = local[t].result /\ local'[t].socket = local[t].socket
           /\ local'[t].retried = local[t].retried
BY DEF Selects, TInv, Types, Local

\* A thread that runs is not in the dark: its step leaves it where Control says.
LEMMA ControlOfRuns ==
    ASSUME TInv, ~down, NEW t \in Threads, Runs(t) PROVE ThreadControl(t)'
<1>1. ThreadControl(t) /\ Types /\ local[t] \in Local /\ (t = console => t \notin ISEs) /\ (t # console => t \in ISEs)
  BY ControlIsOfThreads, CoordinatorAssumption DEF TInv, Types, Threads
<1>2. \A result : Ends(t, result) => ThreadControl(t)'
  <2>1. SUFFICES ASSUME NEW result, Ends(t, result) PROVE ThreadControl(t)'
    OBVIOUS
  <2>2. local'[t].socket = 0 /\ pc'[t] = "idle"
    BY <2>1, EndsLocal
  <2> QED
    BY <2>2, Points DEF ThreadControl
<1>3. CASE NotifyPlanifier(t) \/ Validation(t)
  BY <1>1, <1>2, <1>3, GoesTo, Points DEF NotifyPlanifier, Validation, ThreadControl
<1>4. CASE Select(t)
  <2> DEFINE i == Location(local[t].key)
  <2>1. t \in ISEs => i \in Instances \cup {NULL}
    BY <1>1, <1>4, LocationTypes DEF Select, ThreadControl
  <2>2. CASE i = NULL /\ local[t].op \in {"SET", "CALCULATE_INSTANCE"} /\ Goes(t, "look") /\ UNCHANGED local
    BY <1>1, <1>4, <2>2, GoesTo, Points DEF Select, ThreadControl
  <2>3. CASE i = NULL /\ local[t].op = "STORE" /\ Goes(t, "close") /\ Result(t, "KEY_UNREACHABLE")
    BY <1>1, <1>4, <2>3, GoesTo, ResultLocal, Points DEF Select, ThreadControl
  <2>4. CASE i # NULL /\ t \in ISEs /\ Goes(t, "send") /\ Selects(t, i)
    BY <1>1, <1>4, <2>1, <2>4, GoesTo, SelectsLocal, Points DEF Select, ThreadControl
  <2> QED
    BY <1>2, <1>4, <2>2, <2>3, <2>4 DEF Select
<1>5. CASE LookForInstance(t)
  <2>1. CASE down' = TRUE /\ UNCHANGED <<pc, local>>
    BY <1>1, <1>5, <2>1, Points DEF LookForInstance, ThreadControl
  <2>2. CASE Goes(t, "health") /\ \E i \in Available : Asks(t, i, "HEALTH_CHECK", NULL)
    BY <1>1, <1>5, <2>2, GoesTo, AsksLocal, Points DEF LookForInstance, ThreadControl, Available
  <2> QED
    BY <1>5, <2>1, <2>2 DEF LookForInstance
<1>6. CASE HealthCheck(t)
  BY <1>1, <1>2, <1>6, GoesTo, Points DEF HealthCheck, ThreadControl
<1>7. CASE SendToInstance(t)
  <2>1. local[t].selected \in Instances
    BY <1>1, <1>7, Points DEF SendToInstance, ThreadControl
  <2> QED
    BY <1>1, <1>7, <2>1, GoesTo, AsksLocal, Points DEF SendToInstance, ThreadControl
<1>8. CASE ReceiveResult(t)
  BY <1>1, <1>8, GoesTo, ResultLocal, Points DEF ReceiveResult, ThreadControl
<1>9. CASE Locate(t)
  BY <1>1, <1>9, GoesTo, Points DEF Locate, ThreadControl
<1>10. CASE OrderCompaction(t) \/ FilterAgain(t)
  BY <1>1, <1>10, GoesTo, Points DEF OrderCompaction, FilterAgain, ThreadControl
<1>11. CASE AwaitCompaction(t)
  BY <1>1, <1>11, Points DEF AwaitCompaction, ThreadControl
<1>12. CASE Retry(t)
  <2>1. CASE Goes(t, "send") /\ local' = [local EXCEPT ![t].retried = TRUE]
    <3>1. local'[t].selected = local[t].selected /\ local'[t].op = local[t].op /\ local'[t].key = local[t].key
      BY <1>1, <2>1 DEF Types, Local
    <3> QED
      BY <1>1, <1>12, <2>1, <3>1, GoesTo, Points DEF Retry, ThreadControl
  <2>2. CASE Goes(t, "close") /\ Result(t, "KEY_UNREACHABLE")
    BY <1>1, <1>12, <2>2, GoesTo, ResultLocal, Points DEF Retry, ThreadControl
  <2> QED
    BY <1>12, <2>1, <2>2 DEF Retry
<1>13. CASE Close(t) \/ Inform(t)
  BY <1>1, <1>2, <1>13, GoesTo, Points DEF Close, Inform, ThreadControl
<1> QED
  BY <1>3, <1>4, <1>5, <1>6, <1>7, <1>8, <1>9, <1>10, <1>11, <1>12, <1>13 DEF Runs

LEMMA ControlStep ==
    ASSUME TInv, [Next]_vars PROVE Control'
<1> SUFFICES ASSUME NEW t \in Threads PROVE ThreadControl(t)'
  <2>1. (\A t \in Threads : ThreadControl(t)') => Control'
    BY CoordinatorAssumption DEF Control, ThreadControl, Threads
  <2> QED
    BY <2>1
<1>1. /\ ThreadControl(t) /\ Types /\ local[t] \in Local /\ local \in [Threads -> Local] /\ pc \in [Threads -> PCs]
      /\ (t = console => t \notin ISEs) /\ (t # console => t \in ISEs) /\ console \in Threads
  BY ControlIsOfThreads, CoordinatorAssumption DEF TInv, Types, Threads
<1>2. CASE UNCHANGED <<pc, local>> /\ (~down' => ~down)
  BY <1>1, <1>2 DEF ThreadControl
<1>3. CASE local'[t] = local[t] /\ pc'[t] = pc[t] /\ (~down' => ~down)
  BY <1>1, <1>3 DEF ThreadControl
<1>4. ASSUME ~down, ReceiveSentence(t), t \in ISEs PROVE ThreadControl(t)'
  <2>1. PICK op \in {"GET", "SET", "STORE"}, k \in Keys :
           local' = [local EXCEPT ![t] = [Free EXCEPT !.op = op, !.key = k]]
    BY <1>4 DEF ReceiveSentence
  <2>2. local'[t].op = op /\ local'[t].key = k /\ local'[t].socket = 0 /\ local'[t].selected = NULL
    BY <1>1, <2>1 DEF Free
  <2> QED
    BY <1>1, <1>4, <2>2, GoesTo, Points DEF ReceiveSentence, ThreadControl
<1>5. ASSUME ~down, NEW u \in Threads, u # t, Runs(u) \/ ReceiveSentence(u) PROVE ThreadControl(t)'
  BY <1>3, <1>5, OtherThreads
<1>6. ASSUME ~down, AskInstance PROVE ThreadControl(t)'
  <2>1. PICK k \in Keys :
           \/ UNCHANGED <<pc, local>>
           \/ /\ Goes(console, "select")
              /\ local' = [local EXCEPT ![console] = [Free EXCEPT !.op = "CALCULATE_INSTANCE", !.key = k]]
    BY <1>6 DEF AskInstance
  <2>2. CASE UNCHANGED <<pc, local>>
    BY <1>2, <1>6, <2>2
  <2>3. CASE ~ UNCHANGED <<pc, local>>
    <3>1. t = console => /\ local'[t].op = "CALCULATE_INSTANCE" /\ local'[t].socket = 0 /\ pc'[t] = "select"
      BY <1>1, <2>1, <2>3, GoesTo DEF Free
    <3>2. t # console => local'[t] = local[t] /\ pc'[t] = pc[t]
      BY <1>1, <2>1, <2>3, GoesTo
    <3> QED
      BY <1>1, <1>3, <1>6, <3>1, <3>2, Points DEF ThreadControl
  <2> QED
    BY <2>2, <2>3
<1>7. ASSUME ~down, AskValue PROVE ThreadControl(t)'
  <2>1. PICK k \in Keys :
           /\ keys_location[k] # << >>
           /\ IF Location(k) = NULL THEN down' = TRUE /\ UNCHANGED local
              ELSE Asks(console, Location(k), "GET_KEY_VALUE", k)
    BY <1>7 DEF AskValue
  <2>2. pc'[console] = "value" /\ (t # console => pc'[t] = pc[t])
    BY <1>1, <1>7, GoesTo DEF AskValue
  <2>3. CASE Location(k) = NULL
    BY <1>1, <1>3, <1>7, <2>1, <2>2, <2>3, Points DEF ThreadControl
  <2>4. CASE Location(k) # NULL
    <3>1. Location(k) \in Instances
      BY <1>1, <2>4, LocationTypes
    <3>2. (t = console => local'[t].selected \in Instances) /\ (t # console => local'[t] = local[t])
      BY <1>1, <2>1, <2>4, <3>1, AsksLocal
    <3> QED
      BY <1>1, <1>3, <1>7, <2>2, <3>2, Points DEF ThreadControl
  <2> QED
    BY <2>3, <2>4
<1>8. ASSUME ~down, ReceiveValue PROVE ThreadControl(t)'
  <2>1. CASE t = console
    BY <1>1, <1>8, <2>1, EndsLocal, Points DEF Free, Ends, ThreadControl, ReceiveValue
  <2>2. CASE t # console
    <3>1. local'[t] = local[t] /\ pc'[t] = pc[t]
      BY <1>1, <1>8, <2>2 DEF ReceiveValue, Ends, Goes
    <3> QED
      BY <1>3, <1>8, <3>1
  <2> QED
    BY <2>1, <2>2
<1>9. ASSUME ~down, NEW i \in Instances, Serve(i) \/ Dies(i) \/ Connects(i) \/ CheckIfExistsOrCreate(i)
      PROVE  ThreadControl(t)'
  BY <1>2, <1>9 DEF Serve, Dies, Connects, CheckIfExistsOrCreate, threads
<1>10. ASSUME (~down /\ PlanifierAnswers) \/ UNCHANGED vars PROVE ThreadControl(t)'
  BY <1>2, <1>10 DEF PlanifierAnswers, vars, threads
<1>11. ISEs \subseteq Threads
  BY DEF Threads
<1> QED
  BY <1>4, <1>5, <1>6, <1>7, <1>8, <1>9, <1>10, <1>11, ControlOfRuns DEF Next

-----------------------------------------------------------------------------

LEMMA TInvInit == Init => TInv
<1> SUFFICES ASSUME Init PROVE TInv
  OBVIOUS
<1>1. Free \in Local
  BY DEF Free, Local, Results
<1>2. Types
  <2>1. \A S : << >> \in Seq(S)
    OBVIOUS
  <2>2. "idle" \in PCs
    BY PCsMembers
  <2>3. pc \in [Threads -> PCs] /\ local \in [Threads -> Local]
    BY <1>1, <2>2 DEF Init
  <2>4. keys_location \in [Keys -> Seq(Instances \cup {NULL})]
    BY <2>1 DEF Init
  <2>5. requests \in [Sockets -> Seq(Request)] /\ replies \in [Sockets -> Seq(Reply)]
        /\ asked \in Seq(Question) /\ answers \in Seq(Verdict)
    BY <2>1 DEF Init
  <2> QED
    BY <2>3, <2>4, <2>5 DEF Init, Types
<1>3. \A i \in Instances : Connected(i)
  BY CoordinatorAssumption DEF Init, Connected
<1>4. Connections
  <2>1. \A t \in Threads : local[t].selected \notin Instances
    BY CoordinatorAssumption DEF Init, Free
  <2> QED
    BY <1>3, <2>1, CoordinatorAssumption DEF Init, Connections
<1>5. Control
  BY Points, CoordinatorAssumption DEF Init, Control, Free, Threads
<1> QED
  BY <1>2, <1>4, <1>5 DEF TInv

LEMMA TInvStep == TInv /\ [Next]_vars => TInv'
BY TypesStep, ConnectionsStep, ControlStep DEF TInv

\* Every variable keeps its type, an instance in the list keeps a socket on
\* which a question can be sent, and no thread goes where its sentence does not.
THEOREM TypesCorrect == Spec => []TInv
BY TInvInit, TInvStep, PTL DEF Spec

-----------------------------------------------------------------------------
(* The ISEs take turns *)

LEMMA OneAtATimeStep ==
    ASSUME MayInterrupt = {}, TInv, OneAtATime, [Next]_vars PROVE OneAtATime'
<1>1. ISEs \subseteq Threads /\ console \notin ISEs
  BY CoordinatorAssumption DEF Threads
<1>2. interrupted' = {}
  <2>1. CASE \E t \in ISEs : ReceiveSentence(t)
    BY <2>1 DEF ReceiveSentence, OneAtATime
  <2>2. CASE \E t \in Threads : Runs(t)
    BY <2>2 DEF Runs, NotifyPlanifier, Validation, Select, LookForInstance, HealthCheck, SendToInstance,
                ReceiveResult, Locate, OrderCompaction, FilterAgain, AwaitCompaction, Retry, Close, Inform,
                others, outside, OneAtATime
  <2>3. CASE AskInstance \/ AskValue \/ ReceiveValue \/ PlanifierAnswers \/ UNCHANGED vars
    BY <2>3 DEF AskInstance, AskValue, ReceiveValue, PlanifierAnswers, vars, others, outside, OneAtATime
  <2>4. CASE \E i \in Instances : Serve(i) \/ Dies(i) \/ Connects(i) \/ CheckIfExistsOrCreate(i)
    BY <2>4 DEF Serve, Dies, Connects, CheckIfExistsOrCreate, outside, OneAtATime
  <2> QED
    BY <2>1, <2>2, <2>3, <2>4 DEF Next
<1>3. CASE \A t \in ISEs : pc'[t] # "idle" => pc[t] # "idle"
  BY <1>2, <1>3 DEF OneAtATime
<1>4. ASSUME NEW t \in ISEs, ReceiveSentence(t) PROVE OneAtATime'
  <2>1. \A u \in ISEs : u # t => pc[u] = "idle" /\ pc'[u] = pc[u]
    BY <1>1, <1>4, OtherThreads DEF ReceiveSentence, OneAtATime
  <2> QED
    BY <1>2, <2>1 DEF OneAtATime
<1>5. ASSUME NEW t \in Threads, Runs(t) PROVE \A u \in ISEs : pc'[u] # "idle" => pc[u] # "idle"
  <2>1. pc[t] # "idle"
    BY <1>5 DEF Runs, NotifyPlanifier, Validation, Select, LookForInstance, HealthCheck, SendToInstance,
                ReceiveResult, Locate, OrderCompaction, FilterAgain, AwaitCompaction, Retry, Close, Inform
  <2> QED
    BY <1>1, <1>5, <2>1, OtherThreads
<1>6. ASSUME AskInstance \/ AskValue \/ ReceiveValue PROVE \A u \in ISEs : pc'[u] = pc[u]
  BY <1>1, <1>6 DEF AskInstance, AskValue, ReceiveValue, Ends, Goes, TInv, Types
<1>7. ASSUME NEW i \in Instances, Serve(i) \/ Dies(i) \/ Connects(i) \/ CheckIfExistsOrCreate(i)
      PROVE  pc' = pc
  BY <1>7 DEF Serve, Dies, Connects, CheckIfExistsOrCreate, threads
<1>8. ASSUME PlanifierAnswers \/ UNCHANGED vars PROVE pc' = pc
  BY <1>8 DEF PlanifierAnswers, vars, threads
<1> QED
  BY <1>3, <1>4, <1>5, <1>6, <1>7, <1>8 DEF Next

-----------------------------------------------------------------------------
(* A key is located at one instance *)

\* A SET comes to be pending only by being sent.
LEMMA PendingAfterSend ==
    ASSUME TInv, NEW t \in Threads, NEW to \in SUBSET Sockets, NEW op, NEW key, SendTo(t, to, op, key),
           NEW k, NEW j, SetPending(k, j)'
    PROVE  SetPending(k, j) \/ (op = "SET" /\ key = k /\ \E s \in to : s[1] = j)
<1>0. PICK s \in Sockets : \E n \in DOMAIN requests'[s] :
         s[1] = j /\ requests'[s][n].op = "SET" /\ requests'[s][n].key = k
  BY DEF SetPending
<1>1. PICK n \in DOMAIN requests'[s] :
         s[1] = j /\ requests'[s][n].op = "SET" /\ requests'[s][n].key = k
  BY <1>0
<1>2. CASE requests'[s] = requests[s]
  BY <1>1, <1>2 DEF SetPending
<1>3. CASE s \in to /\ requests'[s] = Append(requests[s], [thread |-> t, op |-> op, key |-> key])
  <2>1. requests[s] \in Seq(Request)
    BY DEF TInv, Types
  <2>2. \/ n \in DOMAIN requests[s] /\ requests'[s][n] = requests[s][n]
        \/ requests'[s][n] = [thread |-> t, op |-> op, key |-> key]
    BY <1>1, <1>3, <2>1
  <2> QED
    BY <1>1, <1>3, <2>2 DEF SetPending
<1> QED
  BY <1>2, <1>3 DEF SendTo

\* Nor by a step that only reads.
LEMMA PendingAfterRead ==
    ASSUME requests' = requests, NEW k, NEW j PROVE SetPending(k, j)' => SetPending(k, j)
BY DEF SetPending

\* A key's places do not grow.
NoNewPlace(k) ==
    \A i \in Instances : (k \in held[i] \/ SetPending(k, i))' => k \in held[i] \/ SetPending(k, i)

\* A thread goes on taking the key where it took it, and goes nowhere else with it.
KeepsTaking(t, k) ==
    /\ \A i \in Instances : Takes(t, k, i) => Takes(t, k, i)'
    /\ local'[t].key = k =>
          /\ pc'[t] \in {"look", "health"} => keys_location[k] = << >>
          /\ pc'[t] \in AfterSending /\ keys_location[k] # << >> => local'[t].selected = keys_location[k][1]

LEMMA LocatedStays ==
    ASSUME NEW k, Located(k), keys_location'[k] = keys_location[k], NoNewPlace(k),
           \A t \in ISEs : KeepsTaking(t, k)
    PROVE  Located(k)'
<1>1. \A i \in Instances : (k \in held[i] \/ SetPending(k, i))' =>
         \/ keys_location'[k] = <<i>>
         \/ keys_location'[k] = << >> /\ \E t \in ISEs : Takes(t, k, i)'
  BY DEF NoNewPlace, Located, KeepsTaking
<1>2. \A t \in ISEs : local'[t].key = k =>
          /\ pc'[t] \in {"look", "health"} => keys_location'[k] = << >>
          /\ pc'[t] \in AfterSending /\ keys_location'[k] # << >> => local'[t].selected = keys_location'[k][1]
  BY DEF KeepsTaking
<1>3. keys_location'[k] = << >> \/ \E j \in Instances : keys_location'[k] = <<j>>
  BY DEF Located
<1> QED
  BY <1>1, <1>2, <1>3 DEF Located

LEMMA SameThreadKeeps ==
    ASSUME NEW k, Located(k), NEW t \in ISEs, local'[t] = local[t], pc'[t] = pc[t]
    PROVE  KeepsTaking(t, k)
BY DEF Located, KeepsTaking, Takes

\* What the location of a key is put at, or taken from, by the thread that takes it.
LEMMA PutPostaOne ==
    ASSUME NEW i \in Instances
    PROVE  /\ PutPosta(<< >>, i) = <<i>>
           /\ \A j \in Instances : PutPosta(<<j>>, i) = <<i>> /\ WithoutFirst(<<j>>) = << >>
           /\ WithoutFirst(<< >>) = << >>
<1>1. Append(<< >>, i) = <<i>> /\ i # NULL
  BY CoordinatorAssumption
<1>2. \A j \in Instances : Head(<<j>>) = j /\ Tail(<<j>>) = << >> /\ <<j>> # << >> /\ j # NULL
  BY CoordinatorAssumption
<1> QED
  BY <1>1, <1>2 DEF PutPosta, WithoutFirst

LEMMA NoNewPlaceOfRuns ==
    ASSUME TInv, NEW t \in Threads, Runs(t), ~SendToInstance(t), NEW k PROVE NoNewPlace(k)
<1>1. held' = held
  BY DEF Runs, NotifyPlanifier, Validation, Select, LookForInstance, HealthCheck, SendToInstance,
         ReceiveResult, Locate, OrderCompaction, FilterAgain, AwaitCompaction, Retry, Close, Inform,
         others, instances
<1>2. \A j \in Instances : SetPending(k, j)' => SetPending(k, j)
  <2>1. CASE requests' = requests
    BY <2>1, PendingAfterRead
  <2>2. CASE LookForInstance(t)
    <3>1. CASE UNCHANGED wires
      BY <3>1, PendingAfterRead DEF wires
    <3>2. CASE \E i \in Available : Asks(t, i, "HEALTH_CHECK", NULL)
      <4>1. PICK i \in Available : Asks(t, i, "HEALTH_CHECK", NULL)
        BY <3>2
      <4>2. {SocketOf(i)} \in SUBSET Sockets /\ SendTo(t, {SocketOf(i)}, "HEALTH_CHECK", NULL)
        BY <4>1, SocketOfIsSocket DEF Available, TInv, Asks
      <4> QED
        BY <4>2, PendingAfterSend
    <3> QED
      BY <2>2, <3>1, <3>2 DEF LookForInstance
  <2>3. CASE OrderCompaction(t)
    <3> DEFINE to == {SocketOf(i) : i \in ToCompact(t)}
    <3>1. to \in SUBSET Sockets /\ SendTo(t, to, "START_COMPACTION", NULL)
      BY <2>3, SocketOfIsSocket DEF ToCompact, Available, TInv, OrderCompaction
    <3> QED
      BY <3>1, PendingAfterSend
  <2>4. Runs(t) /\ ~SendToInstance(t) /\ ~LookForInstance(t) /\ ~OrderCompaction(t) => requests' = requests
    BY DEF Runs, NotifyPlanifier, Validation, Select, HealthCheck, ReceiveResult, Locate, FilterAgain,
           AwaitCompaction, Retry, Close, Inform, wires, Take
  <2> QED
    BY <2>1, <2>2, <2>3, <2>4
<1> QED
  BY <1>1, <1>2 DEF NoNewPlace

\* The console's thread takes no key anywhere.
LEMMA ConsoleRuns ==
    ASSUME TInv, Runs(console)
    PROVE  /\ Select(console) \/ LookForInstance(console) \/ HealthCheck(console)
           /\ keys_location' = keys_location /\ orphans' = orphans /\ promised' = promised
           /\ waiting' = waiting
           /\ \A t \in ISEs : local'[t] = local[t] /\ pc'[t] = pc[t]
<1>1. pc[console] \in {"idle", "select", "look", "health", "value"}
  BY DEF TInv, Control
<1>2. Select(console) \/ LookForInstance(console) \/ HealthCheck(console)
  BY <1>1 DEF Runs, NotifyPlanifier, Validation, SendToInstance, ReceiveResult, Locate, OrderCompaction,
              FilterAgain, AwaitCompaction, Retry, Close, Inform
<1>3. keys_location' = keys_location /\ orphans' = orphans /\ promised' = promised /\ waiting' = waiting
  BY <1>2 DEF Select, LookForInstance, HealthCheck, dictionary, others, history
<1>4. \A t \in ISEs : t \in Threads /\ console \in Threads /\ t # console
  BY CoordinatorAssumption DEF Threads
<1> QED
  BY <1>2, <1>3, <1>4, OtherThreads

\* A thread that is not yet, or no more, on the way to an instance loses no key.
LEMMA FreeThreadKeeps ==
    ASSUME NEW k, NEW t \in ISEs, pc[t] \notin AfterSending,
           pc'[t] \notin AfterSending \cup {"look", "health"}
    PROVE  KeepsTaking(t, k)
BY DEF KeepsTaking, Takes

LEMMA MovingThreadKeeps ==
    ASSUME NEW k, Located(k), NEW t \in ISEs, pc[t] \in AfterSending, pc'[t] \in AfterSending,
           local'[t].key = local[t].key, local'[t].selected = local[t].selected
    PROVE  KeepsTaking(t, k)
<1>1. pc'[t] \notin {"look", "health"}
  BY DEF AfterSending, Chosen
<1> QED
  BY <1>1 DEF KeepsTaking, Takes, Located

AfterSendingPoints ==
    {"send", "receive", "locate", "order", "filter", "await", "close", "inform"}

LEMMA AfterSendingIs == AfterSending = AfterSendingPoints
BY DEF AfterSending, AfterSendingPoints, Chosen

LEMMA KeepsTakingOfRuns ==
    ASSUME TInv, NEW t \in ISEs, Runs(t), ~Close(t), ~Inform(t), NEW k \in Keys, Located(k)
    PROVE  KeepsTaking(t, k)
<1>1. /\ t \in Threads /\ t # console /\ Types /\ local[t] \in Local
      /\ local \in [Threads -> Local]
  BY CoordinatorAssumption DEF Threads, TInv, Types
<1>2. CASE NotifyPlanifier(t) \/ Validation(t)
  <2>1. pc[t] \in {"notify", "validation"} /\ pc'[t] \in {"validation", "select", "idle"}
    <3>1. CASE NotifyPlanifier(t)
      BY <1>1, <3>1, GoesTo DEF NotifyPlanifier
    <3>2. CASE Validation(t)
      <4>1. pc[t] = "validation" /\ (Goes(t, "select") \/ \E result : Ends(t, result))
        BY <3>2 DEF Validation
      <4>2. \A result : Ends(t, result) => pc'[t] = "idle"
        BY <1>1, EndsLocal
      <4> QED
        BY <1>1, <4>1, <4>2, GoesTo
    <3> QED
      BY <1>2, <3>1, <3>2
  <2> QED
    BY <2>1, FreeThreadKeeps, AfterSendingIs DEF AfterSendingPoints
<1>3. CASE Select(t)
  <2> DEFINE i == Location(local[t].key)
  <2>1. local[t].key \in Keys /\ pc[t] = "select"
    BY <1>3 DEF Select, TInv, Control
  <2>2. \A j : ~Takes(t, k, j)
    BY <2>1, AfterSendingIs DEF AfterSendingPoints, Takes
  <2>3. k = local[t].key => i = IF keys_location[k] = << >> THEN NULL ELSE keys_location[k][1]
    BY <1>1 DEF Location, Types
  <2>4. k = local[t].key /\ i = NULL => keys_location[k] = << >>
    BY <2>3, CoordinatorAssumption DEF Located
  <2>5. CASE i = NULL /\ (UNCHANGED local \/ Result(t, "KEY_UNREACHABLE"))
    <3>1. local'[t].key = local[t].key
      BY <1>1, <2>5, ResultLocal
    <3> QED
      BY <2>2, <2>4, <2>5, <3>1 DEF KeepsTaking
  <2>6. CASE i # NULL /\ Goes(t, "send") /\ Selects(t, i)
    <3>1. local'[t].key = local[t].key /\ local'[t].selected = i /\ pc'[t] = "send"
      BY <1>1, <2>6, SelectsLocal, GoesTo
    <3> QED
      BY <2>2, <2>3, <2>6, <3>1 DEF KeepsTaking
  <2> QED
    BY <1>1, <1>3, <2>5, <2>6 DEF Select
<1>4. CASE LookForInstance(t) \/ HealthCheck(t)
  <2>1. pc[t] \in {"look", "health"} /\ local'[t].key = local[t].key
    <3>1. CASE LookForInstance(t)
      BY <1>1, <3>1, AsksLocal DEF LookForInstance, Available
    <3>2. CASE HealthCheck(t)
      BY <1>1, <3>2 DEF HealthCheck
    <3> QED
      BY <1>4, <3>1, <3>2
  <2>2. \A j : ~Takes(t, k, j)
    BY <2>1, AfterSendingIs DEF AfterSendingPoints, Takes
  <2> QED
    BY <2>1, <2>2 DEF KeepsTaking, Located
<1>5. CASE SendToInstance(t) \/ ReceiveResult(t) \/ Locate(t) \/ OrderCompaction(t)
  <2>1. pc[t] \in AfterSending /\ pc'[t] \in AfterSending
    <3>1. CASE SendToInstance(t) \/ ReceiveResult(t)
      BY <1>1, <3>1, GoesTo, AfterSendingIs DEF SendToInstance, ReceiveResult, AfterSendingPoints
    <3>2. CASE Locate(t) \/ OrderCompaction(t)
      BY <1>1, <3>2, GoesTo, AfterSendingIs DEF Locate, OrderCompaction, AfterSendingPoints
    <3> QED
      BY <1>5, <3>1, <3>2
  <2>2. local'[t].key = local[t].key /\ local'[t].selected = local[t].selected
    <3>1. CASE SendToInstance(t)
      <4>1. local[t].selected \in Instances
        BY <1>1, <3>1 DEF SendToInstance, TInv, Control, Chosen
      <4> QED
        BY <1>1, <3>1, <4>1, AsksLocal DEF SendToInstance
    <3>2. CASE ReceiveResult(t)
      BY <1>1, <3>2, ResultLocal DEF ReceiveResult
    <3>3. CASE Locate(t) \/ OrderCompaction(t)
      BY <3>3 DEF Locate, OrderCompaction
    <3> QED
      BY <1>5, <3>1, <3>2, <3>3
  <2> QED
    BY <2>1, <2>2, MovingThreadKeeps
<1>6. CASE FilterAgain(t) \/ AwaitCompaction(t) \/ Retry(t)
  <2>1. pc[t] \in AfterSending /\ pc'[t] \in AfterSending
    <3>1. CASE FilterAgain(t) \/ Retry(t)
      BY <1>1, <3>1, GoesTo, AfterSendingIs DEF FilterAgain, Retry, AfterSendingPoints
    <3>2. CASE AwaitCompaction(t)
      BY <1>1, <3>2, AfterSendingIs DEF AwaitCompaction, AfterSendingPoints
    <3> QED
      BY <1>6, <3>1, <3>2
  <2>2. local'[t].key = local[t].key /\ local'[t].selected = local[t].selected
    <3>1. CASE Retry(t)
      <4>1. CASE local' = [local EXCEPT ![t].retried = TRUE]
        BY <1>1, <4>1 DEF Local
      <4> QED
        BY <1>1, <3>1, <4>1, ResultLocal DEF Retry
    <3>2. CASE FilterAgain(t) \/ AwaitCompaction(t)
      BY <3>2 DEF FilterAgain, AwaitCompaction
    <3> QED
      BY <1>6, <3>1, <3>2
  <2> QED
    BY <2>1, <2>2, MovingThreadKeeps
<1> QED
  BY <1>2, <1>3, <1>4, <1>5, <1>6 DEF Runs

LEMMA PutAt ==
    ASSUME OneAtATime, NEW k \in Keys, Located(k), NoNewPlace(k), NEW t \in ISEs,
           pc[t] \in AfterSending, local[t].key = k, local[t].selected \in Instances,
           keys_location'[k] = PutPosta(keys_location[k], local[t].selected),
           \A u \in ISEs \ {t} : local'[u] = local[u] /\ pc'[u] = pc[u],
           pc'[t] = "idle" \/ (pc'[t] \in AfterSending /\ local'[t].selected = local[t].selected)
    PROVE  Located(k)'
<1> DEFINE i == local[t].selected
<1>1. keys_location'[k] = <<i>>
  BY PutPostaOne DEF Located
<1>2. \A u \in ISEs \ {t} : pc[u] = "idle" /\ pc'[u] = "idle"
  BY AfterSendingIs DEF OneAtATime, AfterSendingPoints
<1>3. \A u \in ISEs : pc'[u] \notin {"look", "health"} /\ (pc'[u] \in AfterSending => u = t)
  BY <1>2, AfterSendingIs DEF AfterSendingPoints
<1>4. \A u \in ISEs : \A j : Takes(u, k, j) => j = i
  BY <1>2, AfterSendingIs DEF Takes, AfterSendingPoints
<1>5. pc'[t] \in AfterSending => local'[t].selected = i
  BY AfterSendingIs DEF AfterSendingPoints
<1>6. \A j \in Instances : (k \in held[j] \/ SetPending(k, j))' => j = i
  <2>1. SUFFICES ASSUME NEW j \in Instances, k \in held[j] \/ SetPending(k, j) PROVE j = i
    BY DEF NoNewPlace
  <2>2. CASE keys_location[k] = <<j>>
    <3>1. i = keys_location[k][1]
      BY <2>2 DEF Located
    <3> QED
      BY <2>2, <3>1
  <2>3. CASE \E u \in ISEs : Takes(u, k, j)
    BY <2>3, <1>4
  <2> QED
    BY <2>1, <2>2, <2>3 DEF Located
<1>7. keys_location'[k][1] = i
  BY <1>1
<1> QED
  BY <1>1, <1>3, <1>5, <1>6, <1>7 DEF Located

LEMMA OwnersOfPutBack ==
    ASSUME TInv, OneAtATime, Owners, NEW t \in ISEs, pc[t] \in {"close", "inform"}, PutBack(t),
           Runs(t), ~SendToInstance(t), pc'[t] = "idle"
    PROVE  Owners'
<1>1. /\ \A u \in ISEs \ {t} : local'[u] = local[u] /\ pc'[u] = pc[u]
      /\ pc[t] \in AfterSending /\ local[t].key \in Keys /\ local[t].selected \in Instances \cup {NULL}
      /\ t \in Threads /\ Types
  BY OtherThreads, AfterSendingIs DEF Threads, AfterSendingPoints, TInv, Control, Types, Local
<1>2. orphans \subseteq orphans' /\ (local[t].selected = NULL => local[t].key \in orphans')
  BY DEF PutBack
<1>3. SUFFICES ASSUME NEW k \in Keys \ orphans' PROVE Located(k)'
  BY DEF Owners
<1>4. Located(k) /\ NoNewPlace(k)
  BY <1>1, <1>2, NoNewPlaceOfRuns DEF Owners
<1>5. CASE k = local[t].key
  <2>1. keys_location'[k] = PutPosta(keys_location[k], local[t].selected) /\ local[t].selected \in Instances
    BY <1>1, <1>2, <1>5 DEF PutBack, Types
  <2> QED
    BY <1>1, <1>4, <1>5, <2>1, PutAt
<1>6. CASE k # local[t].key
  <2>1. keys_location'[k] = keys_location[k]
    BY <1>1, <1>6 DEF PutBack, Types
  <2>2. KeepsTaking(t, k)
    BY <1>6, AfterSendingIs DEF KeepsTaking, Takes, AfterSendingPoints
  <2>3. \A u \in ISEs : KeepsTaking(u, k)
    BY <1>1, <1>4, <2>2, SameThreadKeeps
  <2> QED
    BY <1>4, <2>1, <2>3, LocatedStays
<1> QED
  BY <1>5, <1>6

LEMMA OwnersOfRuns ==
    ASSUME TInv, OneAtATime, Owners, ~down, NEW t \in Threads, Runs(t) PROVE Owners'
<1>1. \A u \in ISEs \ {t} : local'[u] = local[u] /\ pc'[u] = pc[u]
  BY OtherThreads DEF Threads
<1>2. CASE t = console
  <2>1. SUFFICES ASSUME NEW k \in Keys \ orphans PROVE Located(k)'
    BY <1>2, ConsoleRuns DEF Owners
  <2>2. Located(k) /\ keys_location' = keys_location
    BY <1>2, ConsoleRuns DEF Owners
  <2>3. \A u \in ISEs : KeepsTaking(u, k)
    BY <1>2, <2>2, ConsoleRuns, SameThreadKeeps
  <2>4. ~SendToInstance(t)
    BY <1>2 DEF SendToInstance, TInv, Control
  <2> QED
    BY <2>2, <2>3, <2>4, NoNewPlaceOfRuns, LocatedStays
<1>3. CASE t # console
  <2>1. t \in ISEs /\ Types
    BY <1>3 DEF Threads, TInv
  <2>2. CASE Inform(t)
    <3>1. pc[t] = "inform" /\ PutBack(t) /\ pc'[t] = "idle" /\ ~SendToInstance(t)
      BY <2>2, EndsLocal DEF Inform, SendToInstance
    <3> QED
      BY <2>1, <3>1, OwnersOfPutBack
  <2>3. CASE Close(t) /\ local[t].result # "KEY_UNREACHABLE"
    <3>1. pc[t] = "close" /\ PutBack(t) /\ pc'[t] = "idle" /\ ~SendToInstance(t)
      BY <2>3, EndsLocal DEF Close, SendToInstance
    <3> QED
      BY <2>1, <3>1, OwnersOfPutBack
  <2>4. CASE ~Inform(t) /\ ~(Close(t) /\ local[t].result # "KEY_UNREACHABLE")
    <3>1. orphans' = orphans
      BY <2>4 DEF Runs, NotifyPlanifier, Validation, Select, LookForInstance, HealthCheck, SendToInstance,
                  ReceiveResult, Locate, OrderCompaction, FilterAgain, AwaitCompaction, Retry, Close,
                  others, history
    <3>2. SUFFICES ASSUME NEW k \in Keys \ orphans PROVE Located(k)'
      BY <3>1 DEF Owners
    <3>3. Located(k)
      BY DEF Owners
    <3>4. CASE SendToInstance(t)
      <4>1. /\ local[t].selected \in Instances /\ pc[t] = "send" /\ pc'[t] = "receive"
            /\ Asks(t, local[t].selected, local[t].op, local[t].key) /\ keys_location' = keys_location
            /\ held' = held /\ local[t].key \in Keys /\ Connections
        BY <2>1, <3>4, GoesTo DEF SendToInstance, TInv, Control, Chosen, dictionary, others, instances
      <4>2. local'[t].key = local[t].key /\ local'[t].selected = local[t].selected
        BY <4>1, AsksLocal
      <4>3. \A u \in ISEs : KeepsTaking(u, k)
        BY <1>1, <2>1, <3>3, <3>4, KeepsTakingOfRuns, SameThreadKeeps DEF SendToInstance, Close, Inform
      <4>4. ASSUME NEW j \in Instances, (k \in held[j] \/ SetPending(k, j))'
            PROVE  \/ keys_location'[k] = <<j>>
                   \/ keys_location'[k] = << >> /\ \E u \in ISEs : Takes(u, k, j)'
        <5>1. CASE k \in held[j] \/ SetPending(k, j)
          BY <3>3, <4>1, <4>3, <5>1 DEF Located, KeepsTaking
        <5>2. CASE ~(k \in held[j] \/ SetPending(k, j))
          <6>1. SocketOf(local[t].selected) \in Sockets
            BY <2>1, <4>1, SocketOfIsSocket DEF Connections
          <6>2. {SocketOf(local[t].selected)} \in SUBSET Sockets
                /\ SendTo(t, {SocketOf(local[t].selected)}, local[t].op, local[t].key)
            BY <4>1, <6>1 DEF Asks
          <6>3. local[t].key = k /\ j = local[t].selected
            BY <4>1, <4>4, <5>2, <6>2, PendingAfterSend DEF SocketOf
          <6>4. Takes(t, k, j)'
            BY <4>1, <4>2, <6>3, AfterSendingIs DEF Takes, AfterSendingPoints
          <6>5. keys_location[k] # << >> => keys_location[k] = <<j>>
            BY <2>1, <3>3, <4>1, <6>3, AfterSendingIs DEF Located, AfterSendingPoints
          <6> QED
            BY <2>1, <4>1, <6>4, <6>5
        <5> QED
          BY <5>1, <5>2
      <4> QED
        BY <3>3, <4>1, <4>3, <4>4 DEF Located, KeepsTaking
    <3>5. CASE ~SendToInstance(t)
      <4>1. NoNewPlace(k)
        BY <3>5, NoNewPlaceOfRuns
      <4>2. CASE Locate(t)
        <5>1. /\ pc[t] = "locate" /\ pc'[t] \in {"order", "close"} /\ local' = local
              /\ local[t].selected \in Instances /\ local[t].key \in Keys
              /\ keys_location' = [keys_location EXCEPT ![local[t].key] = PutPosta(@, local[t].selected)]
          BY <2>1, <4>2, GoesTo DEF Locate, TInv, Control, Chosen
        <5>2. pc[t] \in AfterSending /\ pc'[t] \in AfterSending
          BY <5>1, AfterSendingIs DEF AfterSendingPoints
        <5>3. CASE k = local[t].key
          <6>1. keys_location'[k] = PutPosta(keys_location[k], local[t].selected)
            BY <2>1, <5>1, <5>3 DEF Types
          <6> QED
            BY <1>1, <2>1, <3>3, <4>1, <5>1, <5>2, <5>3, <6>1, PutAt
        <5>4. CASE k # local[t].key
          <6>1. keys_location'[k] = keys_location[k]
            BY <2>1, <5>1, <5>4 DEF Types
          <6>2. \A u \in ISEs : KeepsTaking(u, k)
            BY <1>1, <2>1, <3>3, <4>2, KeepsTakingOfRuns, SameThreadKeeps DEF Locate, Close, Inform
          <6> QED
            BY <3>3, <4>1, <6>1, <6>2, LocatedStays
        <5> QED
          BY <5>3, <5>4
      <4>3. CASE Close(t)
        <5>1. /\ pc[t] = "close" /\ pc'[t] = "inform" /\ local' = local /\ local[t].key \in Keys
              /\ keys_location' = [keys_location EXCEPT ![local[t].key] = WithoutFirst(@)]
          BY <2>1, <2>4, <4>3, GoesTo DEF Close, TInv, Control
        <5>2. pc[t] \in AfterSending /\ pc'[t] \in AfterSending
          BY <5>1, AfterSendingIs DEF AfterSendingPoints
        <5>3. \A u \in ISEs : KeepsTaking(u, k)
          BY <1>1, <2>1, <3>3, <5>1, <5>2, MovingThreadKeeps, SameThreadKeeps
        <5>4. CASE k = local[t].key
          <6>1. keys_location'[k] = << >>
            <7>1. keys_location'[k] = WithoutFirst(keys_location[k])
              BY <2>1, <5>1, <5>4 DEF Types
            <7>2. keys_location[k] = << >> \/ \E j \in Instances : keys_location[k] = <<j>>
              BY <3>3 DEF Located
            <7>3. CASE keys_location[k] = << >>
              BY <7>1, <7>3 DEF WithoutFirst
            <7> QED
              BY <7>1, <7>2, <7>3, PutPostaOne
          <6>2. \A u \in ISEs \ {t} : pc[u] = "idle" /\ pc'[u] = "idle"
            BY <1>1, <2>1, <5>1 DEF OneAtATime
          <6>3. \A j \in Instances : keys_location[k] = <<j>> => Takes(t, k, j)
            BY <2>1, <3>3, <5>2, <5>4 DEF Located, Takes
          <6>4. \A j \in Instances : (k \in held[j] \/ SetPending(k, j))' => \E u \in ISEs : Takes(u, k, j)
            BY <2>1, <3>3, <4>1, <6>3 DEF NoNewPlace, Located
          <6> QED
            BY <5>3, <6>1, <6>4 DEF Located, KeepsTaking
        <5>5. CASE k # local[t].key
          <6>1. keys_location'[k] = keys_location[k]
            BY <2>1, <5>1, <5>5 DEF Types
          <6> QED
            BY <3>3, <4>1, <5>3, <6>1, LocatedStays
        <5> QED
          BY <5>4, <5>5
      <4>4. CASE ~Locate(t) /\ ~Close(t)
        <5>1. keys_location' = keys_location
          BY <2>4, <3>5, <4>4 DEF Runs, NotifyPlanifier, Validation, Select, LookForInstance, HealthCheck,
               ReceiveResult, OrderCompaction, FilterAgain, AwaitCompaction, Retry, dictionary
        <5>2. \A u \in ISEs : KeepsTaking(u, k)
          BY <1>1, <2>1, <2>4, <3>3, <4>4, KeepsTakingOfRuns, SameThreadKeeps
        <5> QED
          BY <3>3, <4>1, <5>1, <5>2, LocatedStays
      <4> QED
        BY <4>2, <4>3, <4>4
    <3> QED
      BY <3>4, <3>5
  <2> QED
    BY <2>2, <2>3, <2>4
<1> QED
  BY <1>2, <1>3

LEMMA OwnersOfServe ==
    ASSUME TInv, Owners, NEW i \in Instances, Serve(i) PROVE Owners'
<1>1. PICK r, set, evicted : Serves(i, r, set, evicted)
  BY ServeServes
<1> DEFINE s == <<i, peer[i]>>
<1>2. /\ s \in Sockets /\ s[1] = i /\ r = requests[s][1] /\ requests[s] \in Seq(Request) /\ Len(requests[s]) >= 1
      /\ Types
  BY <1>1, ServesRequest DEF TInv
<1>3. SUFFICES ASSUME NEW k \in Keys \ orphans PROVE Located(k)'
  BY <1>1 DEF Owners, Serves, history
<1>4. Located(k) /\ keys_location' = keys_location /\ local' = local /\ pc' = pc
  BY <1>1 DEF Owners, Serves, dictionary, threads
<1>5. ASSUME NEW j \in Instances, SetPending(k, j)' PROVE SetPending(k, j)
  <2>1. PICK z \in Sockets : \E n \in DOMAIN requests'[z] :
           z[1] = j /\ requests'[z][n].op = "SET" /\ requests'[z][n].key = k
    BY <1>5 DEF SetPending
  <2>2. PICK n \in DOMAIN requests'[z] : requests'[z][n].op = "SET" /\ requests'[z][n].key = k
    BY <2>1
  <2>3. CASE z # s
    <3>1. requests'[z] = requests[z]
      BY <1>1, <1>2, <2>3 DEF Serves, Types
    <3> QED
      BY <2>1, <3>1 DEF SetPending
  <2>4. CASE z = s
    <3>1. requests'[z] = Tail(requests[z])
      BY <1>1, <1>2, <2>4 DEF Serves, Types
    <3>2. n + 1 \in DOMAIN requests[z] /\ requests'[z][n] = requests[z][n + 1]
      BY <1>2, <2>2, <2>4, <3>1
    <3> QED
      BY <2>1, <2>2, <3>2 DEF SetPending
  <2> QED
    BY <2>3, <2>4
<1>6. ASSUME NEW j \in Instances, k \in held'[j] PROVE k \in held[j] \/ SetPending(k, j)
  <2>1. CASE j = i /\ r.op = "SET" /\ r.key = k
    <3>1. 1 \in DOMAIN requests[s]
      BY <1>2
    <3> QED
      BY <1>2, <2>1, <3>1 DEF SetPending
  <2>2. CASE ~(j = i /\ r.op = "SET" /\ r.key = k)
    BY <1>1, <1>2, <1>6, <2>2 DEF Serves, Types
  <2> QED
    BY <2>1, <2>2
<1>7. NoNewPlace(k)
  BY <1>5, <1>6 DEF NoNewPlace
<1>8. \A t \in ISEs : KeepsTaking(t, k)
  BY <1>4, SameThreadKeeps
<1> QED
  BY <1>4, <1>7, <1>8, LocatedStays

\* An instance that connects again loads only what is located at it.
LEMMA OwnersOfInstances ==
    ASSUME TInv, Owners, NEW i \in Instances, Dies(i) \/ Connects(i) \/ CheckIfExistsOrCreate(i)
    PROVE  Owners'
<1>1. SUFFICES ASSUME NEW k \in Keys \ orphans PROVE Located(k)'
  BY DEF Owners, Dies, Connects, CheckIfExistsOrCreate, history
<1>2. Located(k) /\ keys_location' = keys_location /\ local' = local /\ pc' = pc /\ Types
  BY DEF Owners, Dies, Connects, CheckIfExistsOrCreate, dictionary, threads, TInv
<1>3. \A t \in ISEs : KeepsTaking(t, k)
  BY <1>2, SameThreadKeeps
<1>4. CASE Dies(i)
  <2>1. \A j \in Instances : k \in held'[j] => k \in held[j]
    BY <1>2, <1>4 DEF Dies, Types
  <2>2. \A z \in Sockets : requests'[z] = requests[z] \/ requests'[z] = << >>
    BY <1>2, <1>4 DEF Dies, Types
  <2>3. \A j \in Instances : SetPending(k, j)' => SetPending(k, j)
    BY <2>2 DEF SetPending
  <2> QED
    BY <1>2, <1>3, <2>1, <2>3, LocatedStays DEF NoNewPlace
<1>5. CASE Connects(i)
  <2>1. PICK keys \in SUBSET KeysToLoad(i) : held' = [held EXCEPT ![i] = keys]
    BY <1>5 DEF Connects
  <2>2. requests' = requests
    BY <1>5 DEF Connects, wires
  <2>3. ASSUME NEW j \in Instances, k \in held'[j], k \notin held[j] PROVE keys_location[k] = <<j>>
    <3>1. j = i /\ k \in KeysToLoad(i)
      BY <1>2, <2>1, <2>3 DEF Types
    <3>2. PICK n \in DOMAIN keys_location[k] : keys_location[k][n] = i
      BY <3>1 DEF KeysToLoad
    <3>3. CASE keys_location[k] = << >>
      BY <3>2, <3>3
    <3>4. CASE \E m \in Instances : keys_location[k] = <<m>>
      BY <3>1, <3>2, <3>4
    <3> QED
      BY <1>2, <3>3, <3>4 DEF Located
  <2>4. \A j \in Instances : (k \in held[j] \/ SetPending(k, j))' =>
           \/ keys_location'[k] = <<j>>
           \/ keys_location'[k] = << >> /\ \E t \in ISEs : Takes(t, k, j)'
    BY <1>2, <1>3, <2>2, <2>3, PendingAfterRead DEF Located, KeepsTaking
  <2> QED
    BY <1>2, <1>3, <2>4 DEF Located, KeepsTaking
<1>6. CASE CheckIfExistsOrCreate(i)
  <2>1. held' = held /\ requests' = requests
    BY <1>6 DEF CheckIfExistsOrCreate, wires
  <2>2. NoNewPlace(k)
    BY <2>1, PendingAfterRead DEF NoNewPlace
  <2> QED
    BY <1>2, <1>3, <2>2, LocatedStays
<1> QED
  BY <1>4, <1>5, <1>6

\* The steps that are not of a thread on its way, nor of an instance.
LEMMA OwnersOfOthers ==
    ASSUME TInv, OneAtATime, Owners, ~down,
           \/ \E t \in ISEs : ReceiveSentence(t)
           \/ AskInstance \/ AskValue \/ ReceiveValue \/ PlanifierAnswers \/ UNCHANGED vars
    PROVE  Owners'
<1>1. SUFFICES ASSUME NEW k \in Keys \ orphans PROVE Located(k)'
  BY DEF Owners, ReceiveSentence, AskInstance, AskValue, ReceiveValue, PlanifierAnswers, vars, others, history
<1>2. Located(k) /\ keys_location' = keys_location /\ Types /\ Connections /\ held' = held
  BY DEF Owners, TInv, ReceiveSentence, AskInstance, AskValue, ReceiveValue, PlanifierAnswers, vars, others,
         instances, dictionary
<1>3. \A t \in ISEs : t \in Threads /\ t # console
  BY CoordinatorAssumption DEF Threads
<1>4. \A j \in Instances : SetPending(k, j)' => SetPending(k, j)
  <2>1. CASE requests' = requests
    BY <2>1, PendingAfterRead
  <2>2. CASE AskValue
    <3>1. PICK key \in Keys :
             /\ keys_location[key] # << >>
             /\ IF Location(key) = NULL THEN UNCHANGED wires ELSE Asks(console, Location(key), "GET_KEY_VALUE", key)
      BY <2>2 DEF AskValue
    <3>2. CASE Location(key) # NULL
      <4>1. keys_location[key] \in Seq(Instances \cup {NULL})
        BY <1>2 DEF Types
      <4>2. 1 \in DOMAIN keys_location[key] /\ Location(key) = keys_location[key][1] /\ Location(key) \in Instances
        BY <3>1, <3>2, <4>1 DEF Location
      <4>3. socket_id[Location(key)] # 0
        BY <1>2, <4>2 DEF Connections, InTheList
      <4>4. {SocketOf(Location(key))} \in SUBSET Sockets
        BY <1>2, <4>2, <4>3, SocketOfIsSocket
      <4>5. SendTo(console, {SocketOf(Location(key))}, "GET_KEY_VALUE", key) /\ console \in Threads
        BY <3>1, <3>2 DEF Asks, Threads
      <4> QED
        BY <4>4, <4>5, PendingAfterSend
    <3> QED
      BY <2>1, <3>1, <3>2 DEF wires
  <2>3. ~AskValue => requests' = requests
    BY DEF ReceiveSentence, AskInstance, ReceiveValue, PlanifierAnswers, vars, wires, Take
  <2> QED
    BY <2>1, <2>2, <2>3
<1>5. NoNewPlace(k)
  BY <1>2, <1>4 DEF NoNewPlace
<1>6. \A t \in ISEs : KeepsTaking(t, k)
  <2>1. SUFFICES ASSUME NEW t \in ISEs PROVE KeepsTaking(t, k)
    OBVIOUS
  <2>2. CASE local'[t] = local[t] /\ pc'[t] = pc[t]
    BY <1>2, <2>2, SameThreadKeeps
  <2>3. ASSUME NEW u \in ISEs, ReceiveSentence(u) PROVE KeepsTaking(t, k)
    <3>1. CASE t # u
      BY <1>3, <2>2, <2>3, <3>1, OtherThreads
    <3>2. CASE t = u
      <4>1. pc[t] = "idle" /\ pc'[t] = "notify"
        BY <1>3, <2>3, <3>2, GoesTo DEF ReceiveSentence
      <4> QED
        BY <4>1, FreeThreadKeeps, AfterSendingIs DEF AfterSendingPoints
    <3> QED
      BY <3>1, <3>2
  <2>4. ASSUME AskInstance PROVE local'[t] = local[t] /\ pc'[t] = pc[t]
    BY <1>2, <1>3, <2>4 DEF AskInstance, Goes, Types
  <2>5. ASSUME AskValue PROVE local'[t] = local[t] /\ pc'[t] = pc[t]
    BY <1>2, <1>3, <2>5 DEF AskValue, Asks, Goes, Types
  <2>6. ASSUME ReceiveValue PROVE local'[t] = local[t] /\ pc'[t] = pc[t]
    BY <1>2, <1>3, <2>6 DEF ReceiveValue, Ends, Goes, Types
  <2>7. ASSUME PlanifierAnswers \/ UNCHANGED vars PROVE local'[t] = local[t] /\ pc'[t] = pc[t]
    BY <2>7 DEF PlanifierAnswers, vars, threads
  <2> QED
    BY <2>2, <2>3, <2>4, <2>5, <2>6, <2>7
<1> QED
  BY <1>2, <1>5, <1>6, LocatedStays

LEMMA OwnersStep ==
    ASSUME TInv, OneAtATime, Owners, [Next]_vars PROVE Owners'
<1>1. CASE UNCHANGED vars
  <2>1. Owners <=> Owners'
    BY <1>1 DEF vars, dictionary, threads, wires, others, instances, history, Owners, Located, SetPending, Takes
  <2> QED
    BY <2>1
<1>2. CASE Next
  BY <1>2, OwnersOfRuns, OwnersOfServe, OwnersOfInstances, OwnersOfOthers DEF Next
<1> QED
  BY <1>1, <1>2

OwnersInv == TInv /\ OneAtATime /\ Owners

LEMMA OwnersInvInit == Init => OwnersInv
<1> SUFFICES ASSUME Init PROVE OwnersInv
  OBVIOUS
<1>1. TInv
  BY TInvInit
<1>2. OneAtATime
  BY DEF Init, OneAtATime, Threads
<1>3. \A k \in Keys : Located(k)
  <2>1. \A k, i : ~SetPending(k, i)
    BY DEF Init, SetPending
  <2>2. \A t \in ISEs : pc[t] \notin AfterSending \cup {"look", "health"}
    BY AfterSendingIs DEF Init, Threads, AfterSendingPoints
  <2> QED
    BY <2>1, <2>2 DEF Init, Located
<1> QED
  BY <1>1, <1>2, <1>3 DEF OwnersInv, Owners

LEMMA OwnersInvStep ==
    ASSUME MayInterrupt = {} PROVE OwnersInv /\ [Next]_vars => OwnersInv'
BY TInvStep, OneAtATimeStep, OwnersStep DEF OwnersInv

LEMMA OwnersInvImplies == OwnersInv => OneOwner
<1> SUFFICES ASSUME OwnersInv PROVE OneOwner
  OBVIOUS
<1>1. Types /\ Connections
  BY DEF OwnersInv, TInv
<1>2. \A k \in Keys : \A n \in DOMAIN keys_location[k] : keys_location[k][n] \in Instances \cup {NULL}
  BY <1>1 DEF Types
<1>3. \A i \in Instances : /\ {socket_id[i], peer[i], registering[i]} \subseteq 0 .. accepted[i]
                           /\ accepted[i] <= MaxConnections[i]
  <2>1. SUFFICES ASSUME NEW i \in Instances
                 PROVE  /\ {socket_id[i], peer[i], registering[i]} \subseteq 0 .. accepted[i]
                        /\ accepted[i] <= MaxConnections[i]
    OBVIOUS
  <2>2. socket_id[i] \in Nat /\ peer[i] \in Nat /\ registering[i] \in Nat /\ accepted[i] \in Nat
    BY <1>1 DEF Types
  <2>3. Connected(i)
    BY <1>1 DEF Connections
  <2> QED
    BY <2>2, <2>3 DEF Connected
<1>4. \A t \in Threads : local[t].result \in Results
  BY <1>1 DEF Types, Local
<1>5. TypeOK
  BY <1>1, <1>2, <1>3, <1>4 DEF TypeOK, Types
<1>6. ASSUME NEW k \in Keys \ orphans, NEW i \in Instances, NEW j \in Instances, k \in held[i] \cap held[j]
      PROVE  i = j
  <2>1. Located(k)
    BY DEF OwnersInv, Owners
  <2>2. CASE keys_location[k] # << >>
    <3>1. keys_location[k] = <<i>> /\ keys_location[k] = <<j>>
      BY <1>6, <2>1, <2>2 DEF Located
    <3> QED
      BY <3>1
  <2>3. CASE keys_location[k] = << >>
    <3>1. PICK t \in ISEs : Takes(t, k, i)
      BY <1>6, <2>1, <2>3 DEF Located
    <3>2. PICK u \in ISEs : Takes(u, k, j)
      BY <1>6, <2>1, <2>3 DEF Located
    <3>3. t = u
      BY <3>1, <3>2, AfterSendingIs DEF OwnersInv, OneAtATime, Takes, AfterSendingPoints
    <3> QED
      BY <3>1, <3>2, <3>3 DEF Takes
  <2> QED
    BY <2>2, <2>3
<1> QED
  BY <1>5, <1>6 DEF OneOwner

\* A key is in the table of one instance only, unless it was put at null, while
\* the ISEs take turns (coordinator.c, process_sentence; planifier.c gives one
\* ISE the turn): the location is put only at the instance that the SET went to.
THEOREM KeyHasOneOwner ==
    ASSUME MayInterrupt = {} PROVE Spec => []OneOwner
<1>1. OwnersInv /\ [Next]_vars => OwnersInv'
  BY OwnersInvStep
<1> QED
  BY <1>1, OwnersInvInit, OwnersInvImplies, PTL DEF Spec


-----------------------------------------------------------------------------
(* One question at a time on each socket *)

\* Once the wires are crossed they stay so.
LEMMA CrossedStays ==
    ASSUME [Next]_vars, ~crossed' PROVE ~crossed
<1>1. \A t, to, op, k : SendTo(t, to, op, k) => ~crossed
  BY DEF SendTo
<1>2. UNCHANGED wires => ~crossed
  BY DEF wires
<1>3. ASSUME NEW t \in Threads, Runs(t) PROVE ~crossed
  <2>1. CASE NotifyPlanifier(t) \/ Validation(t) \/ Select(t) \/ Locate(t) \/ FilterAgain(t) \/ Retry(t)
             \/ Close(t) \/ Inform(t)
    BY <1>2, <2>1 DEF NotifyPlanifier, Validation, Select, Locate, FilterAgain, Retry, Close, Inform
  <2>2. CASE LookForInstance(t) \/ SendToInstance(t) \/ OrderCompaction(t)
    BY <1>1, <1>2, <2>2 DEF LookForInstance, SendToInstance, OrderCompaction, Asks
  <2>3. CASE HealthCheck(t) \/ ReceiveResult(t) \/ AwaitCompaction(t)
    BY <2>3 DEF HealthCheck, ReceiveResult, AwaitCompaction
  <2> QED
    BY <1>3, <2>1, <2>2, <2>3 DEF Runs
<1>4. ASSUME NEW t \in ISEs, ReceiveSentence(t) PROVE ~crossed
  BY <1>2, <1>4 DEF ReceiveSentence
<1>5. AskInstance \/ AskValue \/ ReceiveValue \/ PlanifierAnswers => ~crossed
  BY <1>1, <1>2 DEF AskInstance, AskValue, ReceiveValue, PlanifierAnswers, Asks
<1>6. ASSUME NEW i \in Instances, Serve(i) \/ Dies(i) \/ Connects(i) \/ CheckIfExistsOrCreate(i)
      PROVE ~crossed
  BY <1>2, <1>6 DEF Serve, Dies, Connects, CheckIfExistsOrCreate
<1>7. UNCHANGED vars => ~crossed
  BY <1>2 DEF vars
<1> QED
  BY <1>3, <1>4, <1>5, <1>6, <1>7 DEF Next

\* A question that crosses nothing is alone on its socket.
LEMMA ExchangeAfterSend ==
    ASSUME TInv, NEW t \in Threads, NEW to \in SUBSET Sockets, NEW op, NEW k, SendTo(t, to, op, k),
           ~crossed', NEW s \in Sockets, Exchange(s)
    PROVE  /\ Exchange(s)' /\ replies'[s] = replies[s]
           /\ \/ requests'[s] = requests[s]
              \/ /\ s \in to /\ Open(s) /\ requests[s] = << >> /\ replies[s] = << >>
                 /\ requests'[s] = <<[thread |-> t, op |-> op, key |-> k]>>
<1>1. replies' = replies
  BY DEF SendTo
<1>2. CASE s \in to /\ Open(s)
  <2>1. requests[s] = << >> /\ replies[s] = << >>
    BY <1>2 DEF SendTo, Busy
  <2>2. requests'[s] = <<[thread |-> t, op |-> op, key |-> k]>>
    <3>1. requests'[s] = Append(requests[s], [thread |-> t, op |-> op, key |-> k])
      BY <1>2 DEF SendTo
    <3>2. \A x : Append(<< >>, x) = <<x>>
      OBVIOUS
    <3> QED
      BY <2>1, <3>1, <3>2
  <2>3. Len(<<[thread |-> t, op |-> op, key |-> k]>>) = 1
    OBVIOUS
  <2> QED
    BY <1>1, <1>2, <2>1, <2>2, <2>3 DEF Exchange
<1>3. CASE ~ (s \in to /\ Open(s))
  <2>1. requests'[s] = requests[s]
    BY <1>3 DEF SendTo
  <2> QED
    BY <1>1, <2>1 DEF Exchange
<1> QED
  BY <1>2, <1>3

\* A step that only reads leaves no more than there was.
LEMMA ExchangeAfterTake ==
    ASSUME TInv, NEW s \in Sockets, NEW n \in {1, 2}, Received(s, n), Take(s, n),
           NEW r \in Sockets, Exchange(r)
    PROVE  Exchange(r)'
<1>1. /\ Len(replies[s]) \in Nat /\ Len(replies'[s]) = Len(replies[s]) - n
      /\ \A z \in Sockets \ {s} : replies'[z] = replies[z]
  BY TakeLeaves DEF TInv
<1>2. requests' = requests
  BY DEF Take
<1>3. CASE r = s
  <2>1. Len(replies[s]) >= 1
    BY <1>1 DEF Received
  <2>2. replies[s] # << >>
    BY <2>1
  <2>3. requests'[s] = << >>
    BY <1>2, <1>3, <2>2 DEF Exchange
  <2>4. Len(replies'[s]) <= 2 /\ Len(replies'[s]) # 2
    BY <1>1, <1>3 DEF Exchange
  <2> QED
    BY <1>3, <2>3, <2>4 DEF Exchange
<1>4. CASE r # s
  BY <1>1, <1>2, <1>4 DEF Exchange
<1> QED
  BY <1>3, <1>4

\* The words of an answer are of one thread.
LEMMA ExchangeAfterServe ==
    ASSUME TInv, NEW i \in Instances, NEW r, NEW set, NEW evicted, Serves(i, r, set, evicted),
           NEW s \in Sockets, s = SocketOf(i), Exchange(s)
    PROVE  /\ Exchange(s)' /\ requests'[s] = << >>
           /\ requests[s] = <<r>> /\ replies[s] = << >>
           /\ replies'[s] = AnswerReplies(r.thread, Answer(i, r, set))
           /\ r \in Request /\ set \in {"OK", "FAILED", "NEED_COMPACTION"}
<1>1. /\ <<i, peer[i]>> = s /\ r \in Request /\ r = requests[s][1]
      /\ requests[s] \in Seq(Request) /\ Len(requests[s]) >= 1
      /\ set \in {"OK", "FAILED", "NEED_COMPACTION"}
  BY ServesRequest DEF Serves
<1>2. requests[s] = <<r>> /\ replies[s] = << >>
  <2>1. Len(requests[s]) = 1 /\ replies[s] = << >>
    BY <1>1 DEF Exchange
  <2> QED
    BY <1>1, <2>1
<1>3. PICK q : q = AnswerReplies(r.thread, Answer(i, r, set))
  OBVIOUS
<1>4. q \in Seq(Reply) /\ Len(q) \in {1, 2} /\ \A n \in 1 .. Len(q) : q[n].thread = r.thread
  <2> DEFINE words == Answer(i, r, set)
  <2>1. /\ Len(words) \in {1, 2}
        /\ AnswerReplies(r.thread, words) \in Seq(Reply)
        /\ Len(AnswerReplies(r.thread, words)) = Len(words)
        /\ \A n \in 1 .. Len(words) : AnswerReplies(r.thread, words)[n].thread = r.thread
    BY <1>1, AnswerTypes
  <2>2. q = AnswerReplies(r.thread, words)
    BY <1>3
  <2> HIDE DEF words
  <2> QED
    BY <2>1, <2>2
<1>5. requests'[s] = Tail(requests[s]) /\ replies'[s] = replies[s] \o q
  BY <1>1, <1>3 DEF Serves, TInv, Types
<1>6. requests'[s] = << >> /\ replies'[s] = q
  BY <1>2, <1>4, <1>5
<1>7. Exchange(s)'
  BY <1>4, <1>6 DEF Exchange
<1> QED
  BY <1>1, <1>2, <1>3, <1>6, <1>7

-----------------------------------------------------------------------------
(* What a thread waits for *)

\* What it waits for before a step it waits for after, with the same sentence.
Keeps(t, i) ==
    \A kind \in Kinds : WaitsFor(kind, t, i) =>
        /\ WaitsFor(kind, t, i)'
        /\ kind = "result" => local'[t].op = local[t].op /\ local'[t].key = local[t].key

LEMMA StillKeeps ==
    ASSUME NEW u, NEW i, pc'[u] = pc[u], local'[u] = local[u],
           waiting' = waiting \/ u \notin ISEs \/ pc[u] # "await",
           socket_id'[i] = socket_id[i], is_available'[i] => is_available[i]
    PROVE  Keeps(u, i)
BY DEF Keeps, WaitsFor, Reads, Compacts

\* One that waits for nothing there.
LEMMA FreeKeeps ==
    ASSUME NEW t, NEW i, pc[t] \notin {"filter", "await"},
           pc[t] \in {"health", "receive", "value"} => ~Reads(t, i),
           is_available'[i] => is_available[i]
    PROVE  Keeps(t, i)
BY DEF Keeps, WaitsFor, Compacts

\* A question and an answer are for their threads while these keep waiting.
LEMMA AskedForStays ==
    ASSUME NEW i, NEW r \in Request, AskedFor(r, i), \A u \in Threads : Keeps(u, i)
    PROVE  AskedFor(r, i)'
<1>1. r.thread \in Threads /\ KindOf(r.op) \in Kinds /\ (r.op \in {"SET", "STORE"} => KindOf(r.op) = "result")
  BY DEF Request, KindOf, Kinds
<1>2. Keeps(r.thread, i)
  BY <1>1
<1>3. WaitsFor(KindOf(r.op), r.thread, i)
  BY DEF AskedFor
<1>4. WaitsFor(KindOf(r.op), r.thread, i)'
  BY <1>1, <1>2, <1>3 DEF Keeps
<1>5. r.op \in {"SET", "STORE"} => r.op = local'[r.thread].op /\ r.key = local'[r.thread].key
  BY <1>1, <1>2, <1>3 DEF Keeps, AskedFor
<1> QED
  BY <1>4, <1>5 DEF AskedFor

LEMMA AnswerForStays ==
    ASSUME NEW i, NEW q \in Seq(Reply), q # << >>, AnswerFor(q, i), \A u \in Threads : Keeps(u, i)
    PROVE  AnswerFor(q, i)'
<1>1. q[1].thread \in Threads
  <2>1. q[1] \in Reply
    BY HeadIn
  <2> QED
    BY <2>1 DEF Reply
<1>2. PICK kind \in Kinds : WaitsFor(kind, q[1].thread, i) /\ Words(kind, q)
  BY DEF AnswerFor
<1>3. WaitsFor(kind, q[1].thread, i)'
  BY <1>1, <1>2 DEF Keeps
<1> QED
  BY <1>2, <1>3 DEF AnswerFor

\* The exchange on the socket of an instance.
InStepOn(s, i) ==
    /\ requests[s] # << >> => AskedFor(requests[s][1], i)
    /\ replies[s] # << >> => AnswerFor(replies[s], i)

LEMMA InStepIsOnSocket == ASSUME NEW i PROVE InStep(i) <=> InStepOn(SocketOf(i), i)
BY DEF InStep, InStepOn

\* An exchange that the step does not touch.
LEMMA InStepStays ==
    ASSUME TInv, NEW i \in Instances, NEW s \in Sockets, InStepOn(s, i),
           requests'[s] \in {requests[s], << >>}, replies'[s] \in {replies[s], << >>},
           \A u \in Threads : Keeps(u, i)
    PROVE  InStepOn(s, i)'
<1>1. requests[s] \in Seq(Request) /\ replies[s] \in Seq(Reply)
  BY DEF TInv, Types
<1>2. ASSUME requests'[s] # << >> PROVE requests'[s] = requests[s] /\ AskedFor(requests[s][1], i)
  BY <1>2 DEF InStepOn
<1>3. ASSUME replies'[s] # << >> PROVE replies'[s] = replies[s] /\ AnswerFor(replies[s], i)
  BY <1>3 DEF InStepOn
<1>4. \A r : requests'[s] # << >> /\ r = requests[s][1] => AskedFor(r, i)'
  BY <1>1, <1>2, HeadIn, AskedForStays
<1>5. \A q : replies'[s] # << >> /\ q = replies[s] => AnswerFor(q, i)'
  BY <1>1, <1>3, AnswerForStays
<1> QED
  BY <1>2, <1>3, <1>4, <1>5 DEF InStepOn

LEMMA NoneLeft == ASSUME NEW S, NEW q \in Seq(S), Len(q) = 0 PROVE q = << >>
OBVIOUS

\* A word that is taken is the whole answer, or leaves the second of another
\* thread's, which goes on waiting for it.
LEMMA InStepAfterTake ==
    ASSUME TInv, NEW i \in Instances, NEW s \in Sockets, InStepOn(s, i), Exchange(s),
           NEW n \in {1, 2}, Received(s, n), Take(s, n), NEW t \in Threads,
           n = 1 /\ Len(replies[s]) = 2 =>
              /\ ~WaitsFor("result", t, i)
              /\ WaitsFor("value", t, i) => Head(replies[s]).word # "KEY_VALUE_FOUND",
           \A u \in Threads : u # t => Keeps(u, i)
    PROVE  InStepOn(s, i)'
<1>1. replies[s] \in Seq(Reply)
  BY DEF TInv, Types
<1>3. /\ Len(replies[s]) \in Nat /\ Len(replies'[s]) = Len(replies[s]) - n
      /\ \A m \in 1 .. Len(replies[s]) - n : replies'[s][m] = replies[s][m + n]
  BY TakeLeaves DEF TInv
<1>4. requests' = requests /\ Len(replies[s]) >= n /\ Len(replies[s]) <= 2
  BY DEF Take, Received, Exchange
<1>5. replies[s] # << >> /\ requests'[s] = << >>
  <2>1. replies[s] # << >>
    BY <1>3, <1>4
  <2> QED
    BY <1>4, <2>1 DEF Exchange
<1>6. replies' \in [Sockets -> Seq(Reply)]
  BY TakeTypes DEF TInv
<1>7. CASE Len(replies[s]) = n
  <2>1. replies'[s] \in Seq(Reply) /\ Len(replies'[s]) = 0
    BY <1>3, <1>6, <1>7
  <2>2. replies'[s] = << >>
    BY <2>1, NoneLeft
  <2> QED
    BY <1>5, <2>2 DEF InStepOn
<1>8. CASE n = 1 /\ Len(replies[s]) = 2
  <2>1. PICK kind \in Kinds : WaitsFor(kind, replies[s][1].thread, i) /\ Words(kind, replies[s])
    BY <1>5 DEF InStepOn, AnswerFor
  <2>2. kind \in {"value", "result"}
    <3>1. \A q : Words("health", q) \/ Words("compaction", q) => Len(q) = 1
      BY DEF Words
    <3> QED
      BY <1>8, <2>1, <3>1 DEF Kinds
  <2>3. Head(replies[s]) = replies[s][1] /\ replies[s][1] \in Reply
    BY <1>1, <1>5, HeadIn
  <2>4. kind = "value" => replies[s][1].word = "KEY_VALUE_FOUND"
    BY <1>8, <2>1 DEF Words
  <2>5. replies[s][1].thread # t
    BY <1>8, <2>1, <2>2, <2>3, <2>4
  <2>6. replies[s][1].thread \in Threads
    BY <2>3 DEF Reply
  <2>7. \A u : u = replies[s][1].thread => WaitsFor(kind, u, i)'
    BY <2>1, <2>5, <2>6 DEF Keeps
  <2>8. Len(replies'[s]) = 1 /\ replies'[s][1] = replies[s][2]
    BY <1>3, <1>8
  <2>9. replies'[s][1].thread = replies[s][1].thread
    BY <1>8, <2>8 DEF Exchange
  <2>10. \A q : q = replies'[s] => Words(kind, q)
    BY <1>8, <2>1, <2>2, <2>8 DEF Words
  <2>11. \A u : u = replies'[s][1].thread => WaitsFor(kind, u, i)'
    BY <2>7, <2>9
  <2>12. AnswerFor(replies[s], i)'
    BY <2>10, <2>11 DEF AnswerFor
  <2> QED
    BY <1>5, <2>12 DEF InStepOn
<1>9. Len(replies[s]) = n \/ (n = 1 /\ Len(replies[s]) = 2)
  <2>1. \A m \in Nat : m >= n /\ m <= 2 => m = n \/ (n = 1 /\ m = 2)
    OBVIOUS
  <2> QED
    BY <1>3, <1>4, <2>1
<1> QED
  BY <1>7, <1>8, <1>9

-----------------------------------------------------------------------------
(* The steps of the threads *)

LEMMA ListOfRuns ==
    ASSUME TInv, NEW t \in Threads, Runs(t)
    PROVE  socket_id' = socket_id /\ \A i \in Instances : is_available'[i] => is_available[i]
<1>1. \A i : HandleInstanceDisconnection(i) =>
         socket_id' = socket_id /\ \A j \in Instances : is_available'[j] => is_available[j]
  BY DEF HandleInstanceDisconnection, TInv, Types
<1>2. UNCHANGED list => socket_id' = socket_id /\ is_available' = is_available
  BY DEF list
<1>3. CASE NotifyPlanifier(t) \/ Validation(t) \/ Select(t) \/ LookForInstance(t) \/ Locate(t)
           \/ OrderCompaction(t) \/ FilterAgain(t) \/ Retry(t) \/ Close(t) \/ Inform(t)
  BY <1>2, <1>3 DEF NotifyPlanifier, Validation, Select, LookForInstance, Locate, OrderCompaction,
                    FilterAgain, Retry, Close, Inform
<1>4. CASE HealthCheck(t) \/ ReceiveResult(t) \/ AwaitCompaction(t)
  BY <1>1, <1>2, <1>4 DEF HealthCheck, ReceiveResult, AwaitCompaction
<1>5. CASE SendToInstance(t)
  BY <1>5 DEF SendToInstance
<1> QED
  BY <1>3, <1>4, <1>5 DEF Runs

LEMMA WaitingOfRuns ==
    ASSUME NEW t \in Threads, Runs(t), ~FilterAgain(t), ~AwaitCompaction(t) PROVE waiting' = waiting
BY DEF Runs, NotifyPlanifier, Validation, Select, LookForInstance, HealthCheck, SendToInstance,
       ReceiveResult, Locate, OrderCompaction, Retry, Close, Inform

\* Who else waits goes on waiting: only one ISE has instances to wait for.
LEMMA OthersKeep ==
    ASSUME TInv, OneAtATime, NEW t \in Threads, Runs(t), NEW u \in Threads, u # t, NEW i \in Instances
    PROVE  Keeps(u, i)
<1>1. pc'[u] = pc[u] /\ local'[u] = local[u]
  BY OtherThreads
<1>2. socket_id'[i] = socket_id[i] /\ (is_available'[i] => is_available[i])
  BY ListOfRuns
<1>3. CASE FilterAgain(t) \/ AwaitCompaction(t)
  <2>1. pc[t] \in {"filter", "await"}
    BY <1>3 DEF FilterAgain, AwaitCompaction
  <2>2. t \in ISEs
    BY <2>1 DEF TInv, Control, Threads
  <2>3. u \in ISEs => pc[u] = "idle"
    BY <2>1, <2>2 DEF OneAtATime
  <2> QED
    BY <1>1, <1>2, <2>3, StillKeeps
<1>4. CASE ~FilterAgain(t) /\ ~AwaitCompaction(t)
  BY <1>1, <1>2, <1>4, WaitingOfRuns, StillKeeps
<1> QED
  BY <1>3, <1>4

\* The socket that a thread reads, and that of an instance.
LEMMA ReadsSource ==
    ASSUME TInv, NEW t \in Threads, local[t].selected \in Instances, NEW i \in Instances
    PROVE  Reads(t, i) <=> Source(t) = SocketOf(i)
BY DEF Reads, Source, RecvSocket, SocketOf

LEMMA SocketsDiffer ==
    ASSUME NEW i, NEW j, SocketOf(i) = SocketOf(j) PROVE i = j
BY DEF SocketOf

LEMMA NothingOnClosed ==
    ASSUME TInv, NEW s \in Sockets, EndOfFile(s, 1)
    PROVE  requests[s] = << >> /\ replies[s] = << >>
<1>1. replies[s] \in Seq(Reply) /\ Len(replies[s]) \in Nat
  BY DEF TInv, Types
<1>2. Len(replies[s]) = 0
  BY <1>1 DEF EndOfFile, Received
<1> QED
  BY <1>1, <1>2, NoneLeft DEF EndOfFile, TInv, Connections

LEMMA ReadLeavesInStep ==
    ASSUME TInv, NEW i \in Instances, NEW s \in Sockets, InStepOn(s, i), NEW r \in Sockets, r # s,
           NEW n \in {1, 2}, Received(r, n), Take(r, n), \A u \in Threads : Keeps(u, i)
    PROVE  InStepOn(s, i)'
<1>1. requests'[s] = requests[s] /\ replies'[s] = replies[s]
  BY TakeLeaves DEF Take, TInv
<1> QED
  BY <1>1, InStepStays

LEMMA InStepOfHealthCheck ==
    ASSUME TInv, OneAtATime, NEW t \in Threads, HealthCheck(t), NEW i \in Instances, socket_id[i] # 0,
           NEW s \in Sockets, s = SocketOf(i), Exchange(s), InStepOn(s, i)
    PROVE  InStepOn(s, i)'
<1>1. Runs(t) /\ pc[t] = "health" /\ local[t].selected \in Instances
  BY DEF Runs, HealthCheck, TInv, Control
<1>2. Source(t) \in Sockets
  BY <1>1, SourceIsSocket
<1>3. \A u \in Threads : u # t => Keeps(u, i)
  BY <1>1, OthersKeep
<1>4. is_available'[i] => is_available[i]
  BY <1>1, ListOfRuns
<1>5. CASE Source(t) = s
  <2>1. CASE Received(s, 1) /\ Take(s, 1)
    <3>1. ~WaitsFor("result", t, i) /\ ~WaitsFor("value", t, i)
      BY <1>1 DEF WaitsFor
    <3> QED
      BY <1>3, <2>1, <3>1, InStepAfterTake
  <2>2. CASE EndOfFile(s, 1) /\ UNCHANGED wires
    <3>1. requests'[s] = << >> /\ replies'[s] = << >>
      BY <2>2, NothingOnClosed DEF wires
    <3> QED
      BY <3>1 DEF InStepOn
  <2> QED
    BY <1>5, <2>1, <2>2 DEF HealthCheck
<1>6. CASE Source(t) # s
  <2>1. ~Reads(t, i)
    BY <1>1, <1>6, ReadsSource
  <2>2. Keeps(t, i)
    BY <1>1, <1>4, <2>1, FreeKeeps
  <2>3. \A u \in Threads : Keeps(u, i)
    BY <1>3, <2>2
  <2>4. CASE Received(Source(t), 1) /\ Take(Source(t), 1)
    BY <1>2, <1>6, <2>3, <2>4, ReadLeavesInStep
  <2>5. CASE UNCHANGED wires
    BY <2>3, <2>5, InStepStays DEF wires
  <2> QED
    BY <2>4, <2>5 DEF HealthCheck
<1> QED
  BY <1>5, <1>6

LEMMA InStepOfReceiveResult ==
    ASSUME TInv, OneAtATime, NEW t \in Threads, ReceiveResult(t), NEW i \in Instances, socket_id[i] # 0,
           NEW s \in Sockets, s = SocketOf(i), Exchange(s), InStepOn(s, i)
    PROVE  InStepOn(s, i)'
<1>1. Runs(t) /\ pc[t] = "receive" /\ local[t].selected \in Instances
  BY DEF Runs, ReceiveResult, TInv, Control, Chosen
<1>2. Source(t) \in Sockets
  BY <1>1, SourceIsSocket
<1>3. \A u \in Threads : u # t => Keeps(u, i)
  BY <1>1, OthersKeep
<1>4. is_available'[i] => is_available[i]
  BY <1>1, ListOfRuns
<1>5. CASE Source(t) = s
  <2>1. CASE Received(s, 2) /\ Take(s, 2)
    BY <1>3, <2>1, InStepAfterTake
  <2>2. CASE EndOfFile(s, 2) /\ replies' = [replies EXCEPT ![s] = << >>] /\ requests' = requests
    <3>1. requests'[s] = << >> /\ replies'[s] = << >>
      BY <2>2 DEF EndOfFile, TInv, Types, Connections
    <3> QED
      BY <3>1 DEF InStepOn
  <2> QED
    BY <1>5, <2>1, <2>2 DEF ReceiveResult
<1>6. CASE Source(t) # s
  <2>1. ~Reads(t, i)
    BY <1>1, <1>6, ReadsSource
  <2>2. Keeps(t, i)
    BY <1>1, <1>4, <2>1, FreeKeeps
  <2>3. \A u \in Threads : Keeps(u, i)
    BY <1>3, <2>2
  <2>4. CASE Received(Source(t), 2) /\ Take(Source(t), 2)
    BY <1>2, <1>6, <2>3, <2>4, ReadLeavesInStep
  <2>5. CASE replies' = [replies EXCEPT ![Source(t)] = << >>] /\ requests' = requests
    <3>1. requests'[s] = requests[s] /\ replies'[s] = replies[s]
      BY <1>6, <2>5 DEF TInv, Types
    <3> QED
      BY <2>3, <3>1, InStepStays
  <2> QED
    BY <2>4, <2>5 DEF ReceiveResult
<1> QED
  BY <1>5, <1>6

LEMMA InStepOfAwait ==
    ASSUME TInv, OneAtATime, NEW t \in Threads, AwaitCompaction(t), NEW i \in Instances, socket_id[i] # 0,
           NEW s \in Sockets, s = SocketOf(i), Exchange(s), InStepOn(s, i)
    PROVE  InStepOn(s, i)'
<1>1. Runs(t) /\ pc[t] = "await" /\ pc' = pc /\ local' = local
  BY DEF Runs, AwaitCompaction
<1>2. socket_id' = socket_id /\ (is_available'[i] => is_available[i])
  BY <1>1, ListOfRuns
<1>3. \A u \in Threads : u # t => Keeps(u, i)
  BY <1>1, OthersKeep
<1>4. PICK w \in waiting :
         /\ \/ Received(RecvSocket(w[1], w[2]), 1) /\ Take(RecvSocket(w[1], w[2]), 1)
            \/ EndOfFile(RecvSocket(w[1], w[2]), 1) /\ UNCHANGED wires
         /\ waiting' = waiting \ {w}
  BY DEF AwaitCompaction
<1> DEFINE r == RecvSocket(w[1], w[2])
<1>5. r \in Sockets /\ r[1] = w[1] /\ (w[2] \in {0, socket_id[w[1]]} <=> r = SocketOf(w[1]))
  BY AwaitedIsSocket
<1>6. CASE r = s
  <2>1. CASE Received(s, 1) /\ Take(s, 1)
    <3>1. ~WaitsFor("result", t, i) /\ ~WaitsFor("value", t, i)
      BY <1>1 DEF WaitsFor
    <3> QED
      BY <1>3, <2>1, <3>1, InStepAfterTake
  <2>2. CASE EndOfFile(s, 1) /\ UNCHANGED wires
    <3>1. requests'[s] = << >> /\ replies'[s] = << >>
      BY <2>2, NothingOnClosed DEF wires
    <3> QED
      BY <3>1 DEF InStepOn
  <2> QED
    BY <1>4, <1>6, <2>1, <2>2
<1>7. CASE r # s
  <2>1. ~ (w[1] = i /\ w[2] \in {0, socket_id[i]})
    BY <1>5, <1>7
  <2>2. Compacts(t, i) => Compacts(t, i)'
    BY <1>1, <1>2, <1>4, <2>1 DEF Compacts
  <2>3. Keeps(t, i)
    BY <1>1, <1>2, <2>2 DEF Keeps, WaitsFor
  <2>4. \A u \in Threads : Keeps(u, i)
    BY <1>3, <2>3
  <2>5. CASE Received(r, 1) /\ Take(r, 1)
    BY <1>5, <1>7, <2>4, <2>5, ReadLeavesInStep
  <2>6. CASE UNCHANGED wires
    BY <2>4, <2>6, InStepStays DEF wires
  <2> QED
    BY <1>4, <2>5, <2>6
<1> QED
  BY <1>6, <1>7

\* Each available instance is awaited.
LEMMA InStepOfFilter ==
    ASSUME TInv, OneAtATime, NEW t \in Threads, FilterAgain(t), NEW i \in Instances, socket_id[i] # 0,
           NEW s \in Sockets, s = SocketOf(i), InStepOn(s, i)
    PROVE  InStepOn(s, i)'
<1>1. Runs(t) /\ pc[t] = "filter" /\ Goes(t, "await") /\ local' = local /\ UNCHANGED wires /\ UNCHANGED list
  BY DEF Runs, FilterAgain
<1>2. socket_id' = socket_id /\ is_available' = is_available
  BY <1>1 DEF list
<1>3. \A u \in Threads : u # t => Keeps(u, i)
  BY <1>1, OthersKeep
<1>4. pc'[t] = "await"
  BY <1>1, GoesTo
<1>5. ASSUME Compacts(t, i), is_available[i] PROVE Compacts(t, i)'
  <2>1. PICK called \in BOOLEAN :
           waiting' = {<<j, IF called THEN socket_id[j] ELSE 0>> : j \in ToAwait(t)}
    BY DEF FilterAgain
  <2>2. i \in ToAwait(t)
    BY <1>5 DEF ToAwait, ToCompact, Available
  <2>3. <<i, IF called THEN socket_id[i] ELSE 0>> \in waiting'
    BY <2>1, <2>2
  <2>4. \E w \in waiting' : w[1] = i /\ w[2] \in {0, socket_id[i]}
    BY <2>3
  <2> QED
    BY <1>2, <1>4, <1>5, <2>4 DEF Compacts
<1>6. Keeps(t, i)
  BY <1>1, <1>2, <1>5 DEF Keeps, WaitsFor
<1> QED
  BY <1>1, <1>3, <1>6, InStepStays DEF wires

\* A question that crosses nothing is for the thread that asks.
LEMMA InStepAfterSend ==
    ASSUME TInv, NEW t \in Threads, NEW to \in SUBSET Sockets, NEW op, NEW k, SendTo(t, to, op, k),
           ~crossed', NEW i \in Instances, NEW s \in Sockets, Exchange(s), InStepOn(s, i),
           s \in to => AskedFor([thread |-> t, op |-> op, key |-> k], i)',
           \A u \in Threads : Keeps(u, i)
    PROVE  InStepOn(s, i)'
<1>1. /\ replies'[s] = replies[s]
      /\ \/ requests'[s] = requests[s]
         \/ /\ s \in to /\ Open(s) /\ requests[s] = << >> /\ replies[s] = << >>
            /\ requests'[s] = <<[thread |-> t, op |-> op, key |-> k]>>
  BY ExchangeAfterSend
<1>2. CASE requests'[s] = requests[s]
  BY <1>1, <1>2, InStepStays
<1>3. CASE requests'[s] # requests[s]
  <2>1. PICK r : r = [thread |-> t, op |-> op, key |-> k]
    OBVIOUS
  <2>2. AskedFor(r, i)' /\ requests'[s][1] = r /\ replies'[s] = << >>
    BY <1>1, <1>3, <2>1
  <2>3. AskedFor(requests[s][1], i)'
    BY <2>2 DEF AskedFor
  <2> QED
    BY <2>2, <2>3 DEF InStepOn
<1> QED
  BY <1>2, <1>3

LEMMA InStepOfAsks ==
    ASSUME TInv, NEW t \in Threads, NEW j \in Instances, socket_id[j] # 0, NEW op, NEW k,
           Asks(t, j, op, k), ~crossed', op \in {"SET", "STORE"} => op = local[t].op /\ k = local[t].key,
           WaitsFor(KindOf(op), t, j)',
           NEW i \in Instances, NEW s \in Sockets, s = SocketOf(i), Exchange(s), InStepOn(s, i),
           \A u \in Threads : Keeps(u, i)
    PROVE  InStepOn(s, i)'
<1>1. {SocketOf(j)} \in SUBSET Sockets
  BY SocketOfIsSocket DEF TInv
<1>2. PICK to : to = {SocketOf(j)}
  OBVIOUS
<1>3. SendTo(t, to, op, k) /\ to \in SUBSET Sockets
  BY <1>1, <1>2 DEF Asks
<1>4. s \in to => i = j
  BY <1>2, SocketsDiffer
<1>5. local'[t].op = local[t].op /\ local'[t].key = local[t].key
  BY AsksLocal
<1>6. s \in to => AskedFor([thread |-> t, op |-> op, key |-> k], i)'
  BY <1>4, <1>5 DEF AskedFor
<1> QED
  BY <1>3, <1>6, InStepAfterSend

\* A thread that has just asked reads the socket that it asked on.
LEMMA ReadsAfterAsking ==
    ASSUME TInv, NEW t \in Threads, NEW j \in Instances, NEW op, NEW k, Asks(t, j, op, k),
           socket_id' = socket_id
    PROVE  Reads(t, j)'
BY AsksLocal DEF Reads

LEMMA InStepOfLook ==
    ASSUME TInv, OneAtATime, NEW t \in Threads, LookForInstance(t), ~crossed',
           NEW i \in Instances, NEW s \in Sockets, s = SocketOf(i), Exchange(s), InStepOn(s, i)
    PROVE  InStepOn(s, i)'
<1>1. Runs(t) /\ pc[t] = "look"
  BY DEF Runs, LookForInstance
<1>2. socket_id' = socket_id /\ (is_available'[i] => is_available[i])
  BY <1>1, ListOfRuns
<1>3. \A u \in Threads : Keeps(u, i)
  BY <1>1, <1>2, OthersKeep, FreeKeeps
<1>4. CASE UNCHANGED wires
  BY <1>3, <1>4, InStepStays DEF wires
<1>5. CASE Goes(t, "health") /\ \E j \in Available : Asks(t, j, "HEALTH_CHECK", NULL)
  <2>1. PICK j \in Available : Asks(t, j, "HEALTH_CHECK", NULL)
    BY <1>5
  <2>2. j \in Instances /\ socket_id[j] # 0
    BY DEF Available
  <2>3. pc'[t] = "health" /\ Reads(t, j)'
    BY <1>2, <1>5, <2>1, <2>2, GoesTo, ReadsAfterAsking
  <2>4. WaitsFor(KindOf("HEALTH_CHECK"), t, j)'
    BY <2>3 DEF WaitsFor, KindOf
  <2> QED
    BY <1>3, <2>1, <2>2, <2>4, InStepOfAsks
<1> QED
  BY <1>4, <1>5 DEF LookForInstance

LEMMA InStepOfSend ==
    ASSUME TInv, OneAtATime, NEW t \in Threads, SendToInstance(t), ~crossed',
           NEW i \in Instances, NEW s \in Sockets, s = SocketOf(i), Exchange(s), InStepOn(s, i)
    PROVE  InStepOn(s, i)'
<1>1. Runs(t) /\ pc[t] = "send"
  BY DEF Runs, SendToInstance
<1>2. socket_id' = socket_id /\ (is_available'[i] => is_available[i])
  BY <1>1, ListOfRuns
<1>3. \A u \in Threads : Keeps(u, i)
  BY <1>1, <1>2, OthersKeep, FreeKeeps
<1>4. PICK j, op, k : j = local[t].selected /\ op = local[t].op /\ k = local[t].key
  OBVIOUS
<1>5. t \in ISEs /\ j \in Instances /\ op \in {"SET", "STORE"}
  BY <1>1, <1>4, Points DEF TInv, Control, Threads
<1>6. socket_id[j] # 0
  BY <1>4, <1>5 DEF TInv, Connections
<1>7. Asks(t, j, op, k) /\ Goes(t, "receive")
  BY <1>4 DEF SendToInstance
<1>8. pc'[t] = "receive" /\ Reads(t, j)'
  BY <1>2, <1>5, <1>7, GoesTo, ReadsAfterAsking
<1>9. WaitsFor(KindOf(op), t, j)'
  BY <1>5, <1>8 DEF WaitsFor, KindOf
<1> QED
  BY <1>3, <1>4, <1>5, <1>6, <1>7, <1>9, InStepOfAsks

LEMMA InStepOfOrder ==
    ASSUME TInv, OneAtATime, NEW t \in Threads, OrderCompaction(t), ~crossed',
           NEW i \in Instances, NEW s \in Sockets, s = SocketOf(i), Exchange(s), InStepOn(s, i)
    PROVE  InStepOn(s, i)'
<1>1. Runs(t) /\ pc[t] = "order" /\ Goes(t, "filter")
  BY DEF Runs, OrderCompaction
<1>2. socket_id' = socket_id /\ (is_available'[i] => is_available[i])
  BY <1>1, ListOfRuns
<1>3. \A u \in Threads : Keeps(u, i)
  BY <1>1, <1>2, OthersKeep, FreeKeeps
<1>4. PICK to : to = {SocketOf(j) : j \in ToCompact(t)}
  OBVIOUS
<1>5. to \in SUBSET Sockets /\ SendTo(t, to, "START_COMPACTION", NULL)
  BY <1>4, SocketOfIsSocket DEF ToCompact, Available, TInv, OrderCompaction
<1>6. t \in ISEs /\ pc'[t] = "filter"
  BY <1>1, GoesTo DEF TInv, Control, Threads
<1>7. AskedFor([thread |-> t, op |-> "START_COMPACTION", key |-> NULL], i)'
  BY <1>6 DEF AskedFor, WaitsFor, KindOf, Compacts
<1> QED
  BY <1>3, <1>5, <1>7, InStepAfterSend

\* The console's questions for a value.
LEMMA InStepOfAskValue ==
    ASSUME TInv, AskValue, ~crossed',
           NEW i \in Instances, NEW s \in Sockets, s = SocketOf(i), Exchange(s), InStepOn(s, i)
    PROVE  InStepOn(s, i)'
<1>1. /\ pc[console] = "idle" /\ Goes(console, "value") /\ waiting' = waiting /\ console \in Threads
      /\ socket_id' = socket_id /\ is_available' = is_available
  BY DEF AskValue, list, Threads
<1>2. PICK k \in Keys :
         /\ keys_location[k] # << >>
         /\ IF Location(k) = NULL THEN UNCHANGED <<wires, local>>
            ELSE Asks(console, Location(k), "GET_KEY_VALUE", k)
  BY DEF AskValue
<1>3. PICK j : j = Location(k)
  OBVIOUS
<1>4. pc'[console] = "value" /\ \A u \in Threads : u # console => pc'[u] = pc[u]
  BY <1>1, GoesTo
<1>5. j # NULL => j \in Instances /\ socket_id[j] # 0
  <2>1. SUFFICES ASSUME j # NULL PROVE j \in Instances /\ socket_id[j] # 0
    OBVIOUS
  <2>2. keys_location[k] \in Seq(Instances \cup {NULL})
    BY DEF TInv, Types
  <2>3. 1 \in DOMAIN keys_location[k] /\ j = keys_location[k][1] /\ j \in Instances
    BY <1>2, <1>3, <2>1, <2>2 DEF Location
  <2> QED
    BY <1>2, <2>3 DEF TInv, Connections, InTheList
<1>6. \A u \in Threads : u # console => local'[u] = local[u]
  <2>1. CASE j = NULL
    BY <1>2, <1>3, <2>1
  <2>2. CASE j # NULL
    BY <1>1, <1>2, <1>3, <1>5, <2>2, AsksLocal
  <2> QED
    BY <2>1, <2>2
<1>7. \A u \in Threads : Keeps(u, i)
  BY <1>1, <1>4, <1>6, StillKeeps, FreeKeeps
<1>8. CASE j = NULL
  BY <1>2, <1>3, <1>7, <1>8, InStepStays DEF wires
<1>9. CASE j # NULL
  <2>1. Asks(console, j, "GET_KEY_VALUE", k)
    BY <1>2, <1>3, <1>9
  <2>2. Reads(console, j)'
    BY <1>1, <1>5, <1>9, <2>1, ReadsAfterAsking
  <2>3. WaitsFor(KindOf("GET_KEY_VALUE"), console, j)'
    BY <1>4, <2>2 DEF WaitsFor, KindOf
  <2> QED
    BY <1>1, <1>5, <1>7, <1>9, <2>1, <2>3, InStepOfAsks
<1> QED
  BY <1>8, <1>9

\* The first word says whether there is a second, so none is left behind.
LEMMA InStepOfReceiveValue ==
    ASSUME TInv, ~down, ReceiveValue, NEW i \in Instances, socket_id[i] # 0,
           NEW s \in Sockets, s = SocketOf(i), Exchange(s), InStepOn(s, i)
    PROVE  InStepOn(s, i)'
<1>1. /\ pc[console] = "value" /\ waiting' = waiting /\ console \in Threads /\ console \notin ISEs
      /\ socket_id' = socket_id /\ is_available' = is_available /\ Ends(console, "none")
  BY CoordinatorAssumption DEF ReceiveValue, list, Threads
<1>2. local[console].selected \in Instances
  BY <1>1 DEF TInv, Control
<1>3. Source(console) \in Sockets
  BY <1>1, <1>2, SourceIsSocket
<1>4. \A u \in Threads : u # console => pc'[u] = pc[u] /\ local'[u] = local[u]
  BY <1>1 DEF Ends, Goes, TInv, Types
<1>5. \A u \in Threads : u # console => Keeps(u, i)
  BY <1>1, <1>4, StillKeeps
<1>6. PICK n \in {1, 2} :
         /\ n = IF Received(Source(console), 1) /\ Head(replies[Source(console)]).word = "KEY_VALUE_FOUND"
                THEN 2 ELSE 1
         /\ \/ Received(Source(console), n) /\ Take(Source(console), n)
            \/ EndOfFile(Source(console), n) /\ UNCHANGED wires
  BY DEF ReceiveValue
<1>7. CASE Source(console) = s
  <2>1. replies[s] \in Seq(Reply) /\ Len(replies[s]) \in Nat
    BY DEF TInv, Types
  <2>2. CASE Received(s, n) /\ Take(s, n)
    <3>1. n = 1 => Head(replies[s]).word # "KEY_VALUE_FOUND"
      BY <1>6, <1>7, <2>2
    <3>2. ~WaitsFor("result", console, i)
      BY <1>1 DEF WaitsFor
    <3> QED
      BY <1>1, <1>5, <2>2, <3>1, <3>2, InStepAfterTake
  <2>3. CASE EndOfFile(s, n) /\ UNCHANGED wires
    <3>1. n = 1
      <4>1. SUFFICES ASSUME n = 2 PROVE FALSE
        OBVIOUS
      <4>2. Len(replies[s]) = 1 /\ Head(replies[s]).word = "KEY_VALUE_FOUND"
        <5>1. Received(s, 1) /\ Head(replies[s]).word = "KEY_VALUE_FOUND"
          BY <1>6, <1>7, <4>1
        <5>2. Len(replies[s]) >= 1 /\ ~ (Len(replies[s]) >= 2)
          BY <2>3, <4>1, <5>1 DEF Received, EndOfFile
        <5>3. \A m \in Nat : m >= 1 /\ ~ (m >= 2) => m = 1
          OBVIOUS
        <5> QED
          BY <2>1, <5>1, <5>2, <5>3
      <4>3. replies[s] # << >> /\ Head(replies[s]) = replies[s][1]
        BY <2>1, <4>2, HeadIn
      <4>4. PICK kind \in Kinds : Words(kind, replies[s])
        BY <4>3 DEF InStepOn, AnswerFor
      <4>5. replies[s][1].word = "KEY_VALUE_FOUND"
        BY <4>2, <4>3
      <4> QED
        BY <4>2, <4>4, <4>5 DEF Words, Kinds
    <3>2. requests'[s] = << >> /\ replies'[s] = << >>
      BY <2>3, <3>1, NothingOnClosed DEF wires
    <3> QED
      BY <3>2 DEF InStepOn
  <2> QED
    BY <1>6, <1>7, <2>2, <2>3
<1>8. CASE Source(console) # s
  <2>1. Keeps(console, i)
    BY <1>1, <1>2, <1>8, ReadsSource, FreeKeeps
  <2>2. \A u \in Threads : Keeps(u, i)
    BY <1>5, <2>1
  <2>3. CASE Received(Source(console), n) /\ Take(Source(console), n)
    BY <1>3, <1>8, <2>2, <2>3, ReadLeavesInStep
  <2>4. CASE UNCHANGED wires
    BY <2>2, <2>4, InStepStays DEF wires
  <2> QED
    BY <1>6, <2>3, <2>4
<1> QED
  BY <1>7, <1>8

LEMMA InStepOfRuns ==
    ASSUME TInv, OneAtATime, NEW t \in Threads, Runs(t), ~crossed',
           NEW i \in Instances, socket_id[i] # 0, NEW s \in Sockets, s = SocketOf(i), Exchange(s),
           InStepOn(s, i)
    PROVE  InStepOn(s, i)'
<1>1. socket_id' = socket_id /\ (is_available'[i] => is_available[i])
  BY ListOfRuns
<1>2. \A u \in Threads : u # t => Keeps(u, i)
  BY OthersKeep
<1>3. CASE NotifyPlanifier(t) \/ Validation(t) \/ Select(t) \/ Locate(t) \/ Close(t) \/ Inform(t)
  <2>1. pc[t] \notin {"filter", "await", "health", "receive", "value"} /\ UNCHANGED wires
    BY <1>3 DEF NotifyPlanifier, Validation, Select, Locate, Close, Inform
  <2>2. Keeps(t, i)
    BY <1>1, <2>1, FreeKeeps
  <2> QED
    BY <1>2, <2>1, <2>2, InStepStays DEF wires
<1>4. CASE Retry(t)
  <2>1. waiting = {} /\ pc[t] = "await" /\ UNCHANGED wires
    BY <1>4 DEF Retry
  <2>2. Keeps(t, i)
    BY <1>1, <2>1 DEF Keeps, WaitsFor, Compacts
  <2> QED
    BY <1>2, <2>1, <2>2, InStepStays DEF wires
<1> QED
  BY <1>3, <1>4, InStepOfLook, InStepOfHealthCheck, InStepOfSend, InStepOfReceiveResult, InStepOfOrder,
     InStepOfFilter, InStepOfAwait DEF Runs

\* An instance answers the thread that asked.
LEMMA InStepOfServe ==
    ASSUME TInv, NEW j \in Instances, Serve(j),
           NEW i \in Instances, NEW s \in Sockets, s = SocketOf(i), Exchange(s), InStepOn(s, i)
    PROVE  InStepOn(s, i)'
<1>1. PICK r, set, evicted : Serves(j, r, set, evicted)
  BY ServeServes
<1>2. pc' = pc /\ local' = local /\ waiting' = waiting /\ socket_id' = socket_id /\ is_available' = is_available
  BY DEF Serve, threads, list
<1>3. \A u \in Threads : Keeps(u, i)
  BY <1>2, StillKeeps
<1>4. CASE i = j
  <2>1. /\ requests[s] = <<r>> /\ requests'[s] = << >> /\ r \in Request
        /\ replies'[s] = AnswerReplies(r.thread, Answer(i, r, set))
        /\ set \in {"OK", "FAILED", "NEED_COMPACTION"}
    BY <1>1, <1>4, ExchangeAfterServe
  <2>2. requests[s][1] = r /\ requests[s] # << >>
    BY <2>1
  <2>3. AskedFor(r, i)
    BY <2>2 DEF InStepOn
  <2>4. AskedFor(r, i)'
    BY <1>3, <2>1, <2>3, AskedForStays
  <2>5. PICK kind : kind = KindOf(r.op)
    OBVIOUS
  <2>6. WaitsFor(kind, r.thread, i)' /\ kind \in Kinds
    BY <2>4, <2>5 DEF AskedFor, KindOf, Kinds
  <2>7. PICK words : words = Answer(i, r, set)
    OBVIOUS
  <2>8. PICK q : q = AnswerReplies(r.thread, words)
    OBVIOUS
  <2>9. /\ Len(words) \in {1, 2} /\ Len(q) = Len(words)
        /\ \A n \in 1 .. Len(words) : q[n].thread = r.thread /\ q[n].word = words[n]
    BY <2>1, <2>7, <2>8, AnswerTypes
  <2>10. q[1].thread = r.thread /\ q[1].word = words[1] /\ (Len(words) = 2 => q[2].word = words[2])
    BY <2>9
  <2>11. Words(kind, q)
    <3>1. CASE kind = "value"
      <4>1. words \in {<<"KEY_VALUE_FOUND", "value">>, <<"KEY_VALUE_NOT_FOUND">>}
        BY <2>1, <2>5, <2>7, <3>1 DEF Answer, KindOf, Request
      <4>2. words[1] \in {"KEY_VALUE_FOUND", "KEY_VALUE_NOT_FOUND"} /\ (Len(words) = 2 <=> words[1] = "KEY_VALUE_FOUND")
            /\ (Len(words) = 2 => words[2] = "value")
        BY <4>1
      <4> QED
        BY <2>9, <2>10, <3>1, <4>2 DEF Words
    <3>2. CASE kind = "result"
      <4>1. r.op \in {"SET", "STORE"}
        BY <2>1, <2>5, <3>2 DEF KindOf, Request
      <4>2. words \in {<<set, "entries in use">>, <<"OK", "entries in use">>, <<"FAILED", "entries in use">>}
        BY <2>7, <4>1 DEF Answer
      <4>3. words[1] \in {"OK", "FAILED", "NEED_COMPACTION"} /\ words[2] = "entries in use"
        <5>1. \E word \in {"OK", "FAILED", "NEED_COMPACTION"} : words = <<word, "entries in use">>
          BY <2>1, <4>2
        <5>2. PICK word \in {"OK", "FAILED", "NEED_COMPACTION"} : words = <<word, "entries in use">>
          BY <5>1
        <5>3. words[1] = word /\ words[2] = "entries in use"
          BY <5>2
        <5> QED
          BY <5>3
      <4>4. q[1].word \in {"OK", "FAILED", "NEED_COMPACTION", "entries in use"}
        BY <2>10, <4>3
      <4>5. Len(q) = 2 => q[2].word = "entries in use"
        BY <2>9, <2>10, <4>3
      <4> QED
        BY <3>2, <4>4, <4>5 DEF Words
    <3>3. CASE kind \in {"health", "compaction"}
      <4>1. words = <<"OK">>
        BY <2>5, <2>7, <3>3 DEF Answer, KindOf
      <4>2. Len(words) = 1 /\ words[1] = "OK"
        BY <4>1
      <4> QED
        BY <2>9, <2>10, <3>3, <4>2 DEF Words
    <3> QED
      BY <2>6, <3>1, <3>2, <3>3 DEF Kinds
  <2>12. AnswerFor(q, i)'
    BY <2>6, <2>10, <2>11 DEF AnswerFor
  <2>13. replies'[s] = q
    BY <2>1, <2>7, <2>8
  <2>14. AnswerFor(replies[s], i)'
    BY <2>12, <2>13 DEF AnswerFor
  <2> QED
    BY <2>1, <2>14 DEF InStepOn
<1>5. CASE i # j
  <2>1. <<j, peer[j]>> = SocketOf(j)
    BY <1>1, ServesRequest
  <2>2. <<j, peer[j]>> # s
    BY <1>5, <2>1, SocketsDiffer
  <2>3. requests'[s] = requests[s] /\ replies'[s] = replies[s]
    BY <1>1, <2>2 DEF Serves, TInv, Types
  <2> QED
    BY <1>3, <2>3, InStepStays
<1> QED
  BY <1>4, <1>5

-----------------------------------------------------------------------------
(* Every exchange *)

\* The step that takes a socket to the list: nothing was ever sent on it.
LEMMA InStepOfCreate ==
    ASSUME TInv, NEW j \in Instances, CheckIfExistsOrCreate(j), NEW i \in Instances,
           socket_id[i] # 0 => InStep(i)
    PROVE  socket_id'[i] # 0 => InStep(i)'
<1>1. /\ socket_id' = [socket_id EXCEPT ![j] = registering[j]] /\ registering[j] # 0
      /\ is_available' = [is_available EXCEPT ![j] = TRUE]
      /\ requests' = requests /\ replies' = replies /\ pc' = pc /\ local' = local /\ waiting' = waiting
  BY DEF CheckIfExistsOrCreate, wires, threads
<1>2. socket_id \in [Instances -> Nat] /\ registering \in [Instances -> Nat] /\ accepted \in [Instances -> Nat]
      /\ is_available \in [Instances -> BOOLEAN]
  BY DEF TInv, Types
<1>3. CASE i = j
  <2>1. PICK s : s = <<j, registering[j]>>
    OBVIOUS
  <2>2. registering[j] = accepted[j] /\ accepted[j] <= MaxConnections[j] /\ socket_id[j] < registering[j]
    BY <1>1 DEF TInv, Connections, Connected
  <2>3. s \in Sockets /\ s[1] = j /\ s[2] = registering[j]
    BY <1>1, <1>2, <2>1, <2>2, PairIsSocket
  <2>4. requests[s] = << >> /\ replies[s] = << >>
    BY <1>2, <2>2, <2>3 DEF TInv, Connections
  <2>5. SocketOf(i)' = s
    BY <1>1, <1>2, <1>3, <2>1 DEF SocketOf
  <2> QED
    BY <1>1, <2>4, <2>5 DEF InStep
<1>4. CASE i # j
  <2>1. socket_id'[i] = socket_id[i] /\ is_available'[i] = is_available[i]
    BY <1>1, <1>2, <1>4
  <2>2. SUFFICES ASSUME socket_id[i] # 0 PROVE InStep(i)'
    BY <2>1
  <2>3. PICK s : s = SocketOf(i)
    OBVIOUS
  <2>4. s \in Sockets /\ InStepOn(s, i)
    BY <2>2, <2>3, SocketOfIsSocket, InStepIsOnSocket DEF TInv
  <2>5. \A u \in Threads : Keeps(u, i)
    BY <1>1, <2>1, StillKeeps
  <2>6. InStepOn(s, i)'
    BY <1>1, <2>4, <2>5, InStepStays
  <2>7. SocketOf(i)' = s
    BY <2>1, <2>3 DEF SocketOf
  <2> QED
    BY <2>6, <2>7 DEF InStep, InStepOn
<1> QED
  BY <1>3, <1>4

LEMMA InStepOfOthers ==
    ASSUME TInv, OneAtATime, NEW i \in Instances, NEW s \in Sockets, InStepOn(s, i),
           \/ \E t \in ISEs : ReceiveSentence(t)
           \/ AskInstance \/ PlanifierAnswers \/ UNCHANGED vars
           \/ \E j \in Instances : Dies(j) \/ Connects(j)
    PROVE  InStepOn(s, i)' /\ socket_id' = socket_id
<1>1. ASSUME NEW t \in ISEs, ReceiveSentence(t) PROVE InStepOn(s, i)' /\ socket_id' = socket_id
  <2>1. pc[t] = "idle" /\ UNCHANGED wires /\ UNCHANGED list /\ waiting' = waiting /\ t \in Threads
    BY <1>1 DEF ReceiveSentence, Threads
  <2>2. \A u \in Threads : u # t => Keeps(u, i)
    BY <1>1, <2>1, OtherThreads, StillKeeps DEF list
  <2>3. Keeps(t, i)
    BY <2>1, FreeKeeps DEF list
  <2> QED
    BY <2>1, <2>2, <2>3, InStepStays DEF wires, list
<1>2. ASSUME AskInstance PROVE InStepOn(s, i)' /\ socket_id' = socket_id
  <2>1. pc[console] = "idle" /\ UNCHANGED wires /\ UNCHANGED list /\ waiting' = waiting
    BY <1>2 DEF AskInstance
  <2>2. \A u \in Threads : u # console => pc'[u] = pc[u] /\ local'[u] = local[u]
    BY <1>2 DEF AskInstance, Goes, TInv, Types
  <2>3. \A u \in Threads : u # console => Keeps(u, i)
    BY <2>1, <2>2, StillKeeps DEF list
  <2>4. Keeps(console, i)
    BY <2>1, FreeKeeps DEF list
  <2> QED
    BY <2>1, <2>3, <2>4, InStepStays DEF wires, list
<1>3. ASSUME PlanifierAnswers \/ UNCHANGED vars PROVE InStepOn(s, i)' /\ socket_id' = socket_id
  <2>1. UNCHANGED wires /\ UNCHANGED list /\ UNCHANGED threads
    BY <1>3 DEF PlanifierAnswers, vars
  <2>2. \A u \in Threads : Keeps(u, i)
    BY <2>1, StillKeeps DEF list, threads
  <2> QED
    BY <2>1, <2>2, InStepStays DEF wires, list
<1>4. ASSUME NEW j \in Instances, Dies(j) \/ Connects(j) PROVE InStepOn(s, i)' /\ socket_id' = socket_id
  <2>1. UNCHANGED list /\ UNCHANGED threads /\ replies' = replies
    BY <1>4 DEF Dies, Connects, wires
  <2>2. \A u \in Threads : Keeps(u, i)
    BY <2>1, StillKeeps DEF list, threads
  <2>3. requests'[s] \in {requests[s], << >>}
    BY <1>4 DEF Dies, Connects, wires, TInv, Types
  <2> QED
    BY <2>1, <2>2, <2>3, InStepStays DEF list
<1> QED
  BY <1>1, <1>2, <1>3, <1>4

LEMMA InStepStep ==
    ASSUME TInv, OneAtATime, [Next]_vars, ~crossed', \A s \in Sockets : Exchange(s),
           NEW i \in Instances, socket_id[i] # 0 => InStep(i)
    PROVE  socket_id'[i] # 0 => InStep(i)'
<1>1. CASE \E j \in Instances : CheckIfExistsOrCreate(j)
  BY <1>1, InStepOfCreate
<1>2. CASE ~ \E j \in Instances : CheckIfExistsOrCreate(j)
  <2>1. socket_id' = socket_id
    BY <1>2, StillOrInstance DEF Still, Serve, Dies, Connects, list
  <2>2. SUFFICES ASSUME socket_id[i] # 0 PROVE InStep(i)'
    BY <2>1
  <2>3. PICK s : s = SocketOf(i)
    OBVIOUS
  <2>4. s \in Sockets /\ InStepOn(s, i) /\ Exchange(s)
    BY <2>2, <2>3, SocketOfIsSocket, InStepIsOnSocket DEF TInv
  <2>5. InStepOn(s, i)'
    BY <1>2, <2>2, <2>3, <2>4, InStepOfRuns, InStepOfServe, InStepOfOthers, InStepOfAskValue,
       InStepOfReceiveValue DEF Next
  <2>6. SocketOf(i)' = s
    BY <2>1, <2>3 DEF SocketOf
  <2> QED
    BY <2>5, <2>6 DEF InStep, InStepOn
<1> QED
  BY <1>1, <1>2

LEMMA ExchangesStep ==
    ASSUME TInv, OneAtATime, [Next]_vars, ~crossed', Exchanges
    PROVE  Exchanges'
<1>1. \A s \in Sockets : Exchange(s)
  BY DEF Exchanges
<1>2. \A i \in Instances : socket_id'[i] # 0 => InStep(i)'
  BY <1>1, InStepStep DEF Exchanges
<1>3. ASSUME NEW s \in Sockets PROVE Exchange(s)'
  <2>1. Exchange(s) /\ replies[s] \in Seq(Reply) /\ replies'[s] \in Seq(Reply)
    BY <1>1, TInvStep DEF TInv, Types
  <2>2. Len(replies[s]) \in Nat /\ Len(replies'[s]) \in Nat
    BY <2>1
  <2>3. CASE Reading
    <3>1. CASE replies'[s] = replies[s]
      BY <2>1, <2>3, <3>1 DEF Exchange, Reading
    <3>2. CASE replies[s] # << >> /\ Len(replies'[s]) < Len(replies[s])
      <4>1. requests'[s] = << >>
        BY <2>1, <2>3, <3>2 DEF Exchange, Reading
      <4>2. Len(replies'[s]) <= 2 /\ Len(replies'[s]) # 2
        BY <2>1, <2>2, <3>2 DEF Exchange
      <4> QED
        BY <4>1, <4>2 DEF Exchange
    <3> QED
      BY <2>3, <3>1, <3>2 DEF Reading
  <2>4. CASE Sending
    BY <2>1, <2>4, ExchangeAfterSend DEF Sending
  <2>5. ASSUME NEW i \in Instances, Serve(i) PROVE Exchange(s)'
    <3>1. PICK r, set, evicted : Serves(i, r, set, evicted)
      BY <2>5, ServeServes
    <3>2. <<i, peer[i]>> = SocketOf(i)
      BY <3>1, ServesRequest
    <3>3. CASE s = SocketOf(i)
      BY <2>1, <3>1, <3>3, ExchangeAfterServe
    <3>4. CASE s # SocketOf(i)
      <4>1. requests'[s] = requests[s] /\ replies'[s] = replies[s]
        BY <3>1, <3>2, <3>4 DEF Serves, TInv, Types
      <4> QED
        BY <2>1, <4>1 DEF Exchange
    <3> QED
      BY <3>3, <3>4
  <2>6. ASSUME NEW i \in Instances, Dies(i) PROVE Exchange(s)'
    <3>1. replies' = replies /\ requests'[s] \in {requests[s], << >>}
      BY <2>6 DEF Dies, TInv, Types
    <3> QED
      BY <2>1, <3>1 DEF Exchange
  <2> QED
    BY <2>3, <2>4, <2>5, <2>6, ReadingOrSending
<1> QED
  BY <1>2, <1>3 DEF Exchanges

\* While nothing has crossed: the part of the invariant that says who reads what.
ExchangesInv == TInv /\ OneAtATime /\ (~crossed => Exchanges)

LEMMA ExchangesInvInit == Init => ExchangesInv
<1> SUFFICES ASSUME Init PROVE ExchangesInv
  OBVIOUS
<1>1. TInv /\ OneAtATime
  BY OwnersInvInit DEF OwnersInv
<1>2. \A s \in Sockets : requests[s] = << >> /\ replies[s] = << >>
  BY DEF Init
<1>3. \A s \in Sockets : Exchange(s)
  BY <1>2 DEF Exchange
<1>4. \A i \in Instances : socket_id[i] = 0
  BY DEF Init
<1> QED
  BY <1>1, <1>3, <1>4 DEF ExchangesInv, Exchanges

LEMMA ExchangesInvStep ==
    ASSUME MayInterrupt = {} PROVE ExchangesInv /\ [Next]_vars => ExchangesInv'
BY TInvStep, OneAtATimeStep, ExchangesStep, CrossedStays DEF ExchangesInv

LEMMA ExchangesInvImplies == ExchangesInv => SocketsInStep
<1> SUFFICES ASSUME ExchangesInv, ~crossed, NEW i \in Available,
                    NEW q \in {requests[SocketOf(i)], replies[SocketOf(i)]}, NEW n \in DOMAIN q
             PROVE  \/ pc[q[n].thread] \in {"health", "receive", "value"} /\ local[q[n].thread].selected = i
                    \/ pc[q[n].thread] = "filter"
                    \/ pc[q[n].thread] = "await" /\ \E w \in waiting : w[1] = i
  BY DEF SocketsInStep
<1>1. i \in Instances /\ socket_id[i] # 0 /\ is_available[i] /\ TInv
  BY DEF Available, ExchangesInv
<1>2. SocketOf(i) \in Sockets /\ InStep(i) /\ Exchange(SocketOf(i))
  BY <1>1, SocketOfIsSocket DEF ExchangesInv, Exchanges, TInv
<1>3. ASSUME NEW t, NEW kind \in Kinds, WaitsFor(kind, t, i)
      PROVE  \/ pc[t] \in {"health", "receive", "value"} /\ local[t].selected = i
             \/ pc[t] = "filter"
             \/ pc[t] = "await" /\ \E w \in waiting : w[1] = i
  BY <1>1, <1>3 DEF WaitsFor, Reads, Compacts
<1>4. CASE q = requests[SocketOf(i)]
  <2>1. q \in Seq(Request) /\ q # << >>
    BY <1>1, <1>2, <1>4 DEF TInv, Types
  <2>2. Len(q) = 1
    BY <1>2, <1>4, <2>1 DEF Exchange
  <2>3. n = 1
    BY <2>1, <2>2
  <2>4. AskedFor(q[1], i) /\ KindOf(q[1].op) \in Kinds
    BY <1>2, <1>4, <2>1 DEF InStep, KindOf, Kinds
  <2> QED
    BY <1>3, <2>3, <2>4 DEF AskedFor
<1>5. CASE q = replies[SocketOf(i)]
  <2>1. q \in Seq(Reply) /\ q # << >>
    BY <1>1, <1>2, <1>5 DEF TInv, Types
  <2>2. Len(q) <= 2 /\ (Len(q) = 2 => q[2].thread = q[1].thread)
    BY <1>2, <1>5 DEF Exchange
  <2>3. n = 1 \/ (n = 2 /\ Len(q) = 2)
    <3>1. n \in 1 .. Len(q) /\ Len(q) \in Nat /\ Len(q) <= 2
      BY <2>1, <2>2
    <3>2. \A m \in Nat : m <= 2 /\ n \in 1 .. m => n = 1 \/ (n = 2 /\ m = 2)
      OBVIOUS
    <3> QED
      BY <3>1, <3>2
  <2>4. q[n].thread = q[1].thread
    BY <2>2, <2>3
  <2>5. AnswerFor(q, i)
    BY <1>2, <1>5, <2>1 DEF InStep
  <2> QED
    BY <1>3, <2>4, <2>5 DEF AnswerFor
<1> QED
  BY <1>4, <1>5

\* While the wires have not crossed, what waits on the socket of an available
\* instance, question or answer, is for a thread that is about to read it
\* (coordinator.c, process_sentence and start_compaction; handlers.c): one
\* question at a time, whatever instances fail and connect again.
THEOREM ExchangesAreInStep ==
    ASSUME MayInterrupt = {} PROVE Spec => []SocketsInStep
<1>1. ExchangesInv /\ [Next]_vars => ExchangesInv'
  BY ExchangesInvStep
<1> QED
  BY <1>1, ExchangesInvInit, ExchangesInvImplies, PTL DEF Spec

-----------------------------------------------------------------------------
(* What the others do while an ISE has its turn *)

Bystanders(t) ==
    /\ pc'[t] = pc[t] /\ local'[t] = local[t]
    /\ waiting' = waiting /\ UNCHANGED <<socket_id, peer, registering, compact, stored>>
    /\ \A i \in Instances : is_available'[i] => is_available[i]

\* Only the console's thread and the planifier go on beside it, and the instances.
LEMMA BesideTheTurn ==
    ASSUME TInv, OneAtATime, [Next]_vars, NEW t \in ISEs, pc[t] # "idle", ~Runs(t),
           ~ \E i \in Instances : Serve(i) \/ Dies(i) \/ Connects(i) \/ CheckIfExistsOrCreate(i)
    PROVE  Bystanders(t) /\ (Reading \/ Sending)
<1>1. /\ t \in Threads /\ t # console /\ console \in Threads
      /\ \A u \in ISEs : u # t => pc[u] = "idle"
  BY CoordinatorAssumption DEF Threads, OneAtATime
<1>2. UNCHANGED <<socket_id, peer, registering, compact>> /\ (Reading \/ Sending)
  BY StillOrInstance, ReadingOrSending DEF Still
<1> DEFINE Beside == /\ pc'[t] = pc[t] /\ local'[t] = local[t] /\ waiting' = waiting /\ stored' = stored
                     /\ \A i \in Instances : is_available'[i] => is_available[i]
<1>3. ASSUME NEW u \in ISEs, ReceiveSentence(u) PROVE FALSE
  BY <1>3 DEF ReceiveSentence, OneAtATime
<1>4. ASSUME NEW u \in Threads, Runs(u) PROVE Beside
  <2>1. u # t
    BY <1>4
  <2>2. pc[u] # "idle"
    BY <1>4 DEF Runs, NotifyPlanifier, Validation, Select, LookForInstance, HealthCheck, SendToInstance,
                ReceiveResult, Locate, OrderCompaction, FilterAgain, AwaitCompaction, Retry, Close, Inform
  <2>3. u = console
    BY <1>1, <2>1, <2>2 DEF Threads
  <2>4. Select(console) \/ LookForInstance(console) \/ HealthCheck(console)
    BY <1>4, <2>3, ConsoleRuns
  <2>5. stored' = stored
    BY <2>4 DEF Select, LookForInstance, HealthCheck, others, instances
  <2>6. waiting' = waiting /\ pc'[t] = pc[t] /\ local'[t] = local[t]
    BY <1>4, <2>3, ConsoleRuns
  <2> QED
    BY <1>4, <2>5, <2>6, ListOfRuns
<1>5. ASSUME AskInstance PROVE Beside
  BY <1>1, <1>5 DEF AskInstance, Goes, list, instances, TInv, Types
<1>6. ASSUME AskValue PROVE Beside
  <2>1. waiting' = waiting /\ stored' = stored /\ is_available' = is_available /\ Goes(console, "value")
    BY <1>6 DEF AskValue, list, instances
  <2>3. local'[t] = local[t]
    BY <1>1, <1>6 DEF AskValue, Asks, TInv, Types
  <2> QED
    BY <1>1, <2>1, <2>3, GoesTo
<1>7. ASSUME ReceiveValue PROVE Beside
  BY <1>1, <1>7 DEF ReceiveValue, Ends, Goes, list, others, instances, TInv, Types
<1>8. ASSUME PlanifierAnswers \/ UNCHANGED vars PROVE Beside
  BY <1>8 DEF PlanifierAnswers, vars, list, threads, others, instances
<1> QED
  BY <1>2, <1>3, <1>4, <1>5, <1>6, <1>7, <1>8 DEF Next, Bystanders

\* A question that is pending stays alone; a SET is sent only by the ISE of the turn.
LEMMA WiresBeside ==
    ASSUME TInv, OneAtATime, ~crossed', NEW t \in ISEs, pc[t] \notin {"idle", "send"},
           NEW s \in Sockets, Exchange(s), Reading \/ Sending
    PROVE  /\ requests[s] # << >> => requests'[s] = requests[s]
           /\ requests'[s] # << >> /\ requests'[s][1].op = "SET" => requests'[s] = requests[s]
<1>0. ASSUME NEW u \in Threads, NEW to \in SUBSET Sockets, NEW op, NEW k, SendTo(u, to, op, k)
      PROVE  \/ requests'[s] = requests[s]
             \/ requests[s] = << >> /\ requests'[s] = <<[thread |-> u, op |-> op, key |-> k]>>
  BY <1>0, ExchangeAfterSend
<1>1. CASE Reading
  BY <1>1 DEF Reading
<1>2. CASE Sending
  <2>1. PICK u \in Threads, to \in SUBSET Sockets,
             op \in {"HEALTH_CHECK", "SET", "STORE", "GET_KEY_VALUE", "START_COMPACTION"},
             k \in Keys \cup {NULL} :
               SendTo(u, to, op, k) /\ (op \in {"SET", "STORE"} => u \in ISEs /\ pc[u] = "send")
    BY <1>2 DEF Sending
  <2>2. op # "SET"
    BY <2>1 DEF OneAtATime
  <2>3. \/ requests'[s] = requests[s]
        \/ requests[s] = << >> /\ requests'[s] = <<[thread |-> u, op |-> op, key |-> k]>>
    BY <1>0, <2>1
  <2>4. \A r : requests'[s] = <<r>> => requests'[s][1] = r
    OBVIOUS
  <2> QED
    BY <2>2, <2>3, <2>4
<1> QED
  BY <1>1, <1>2

LEMMA WordsBeside ==
    ASSUME TInv, NEW r \in Sockets, Reading \/ Sending
    PROVE  replies'[r] = replies[r] \/ Len(replies'[r]) < Len(replies[r])
<1>1. CASE Reading
  BY <1>1 DEF Reading
<1>2. CASE Sending
  BY <1>2 DEF Sending, SendTo
<1> QED
  BY <1>1, <1>2

LEMMA CompactionBeside ==
    ASSUME TInv, OneAtATime, ~crossed', NEW t \in ISEs, pc[t] # "idle", Bystanders(t), Reading \/ Sending,
           NEW i \in Instances, NEW s \in Sockets, Exchange(s), CompactionOn(t, i, s)
    PROVE  CompactionOn(t, i, s)'
<1>1. /\ compact'[i] = compact[i] /\ (Open(s) <=> Open(s)') /\ pc'[t] = pc[t] /\ local'[t] = local[t]
      /\ waiting' = waiting /\ socket_id' = socket_id /\ (is_available'[i] => is_available[i])
  BY DEF Bystanders, Open
<1>3. pc[t] # "send" => /\ requests[s] # << >> => requests'[s] = requests[s]
                        /\ requests'[s] # << >> /\ requests'[s][1].op = "SET" => requests'[s] = requests[s]
  BY WiresBeside
<1>4. pc[t] # "send" /\ Ordered(t, i, s) => Ordered(t, i, s)'
  BY <1>1, <1>3 DEF Ordered
<1>5. Again(t, i, s) => Again(t, i, s)'
  BY <1>1, <1>3 DEF Again
<1> QED
  BY <1>1, <1>4, <1>5 DEF CompactionOn

LEMMA StoringBeside ==
    ASSUME TInv, NEW t \in ISEs, Bystanders(t), Reading \/ Sending,
           NEW i, NEW r, r \in Sockets \/ pc[t] # "receive", r \in Sockets => Exchange(r), StoringOn(t, i, r)
    PROVE  StoringOn(t, i, r)'
<1>1. pc'[t] = pc[t] /\ local'[t] = local[t] /\ stored' = stored
  BY DEF Bystanders
<1>2. r \in Sockets => replies'[r] = replies[r] \/ Len(replies'[r]) < Len(replies[r])
  BY WordsBeside
<1>3. r \in Sockets => Len(replies[r]) \in Nat /\ Len(replies[r]) <= 2
  BY DEF TInv, Types, Exchange
<1>4. r \in Sockets /\ Len(replies'[r]) = 2 => replies'[r] = replies[r]
  BY <1>2, <1>3
<1> QED
  BY <1>1, <1>4 DEF StoringOn

-----------------------------------------------------------------------------
(* The instance has compacted when the SET is sent again *)

LEMMA CompactionNow ==
    ASSUME NEW t, NEW i, NEW s, i = local[t].selected, s = SocketOf(i)
    PROVE  Compaction(t) <=> CompactionOn(t, i, s)
BY DEF Compaction

LEMMA CompactionNext ==
    ASSUME NEW t, NEW i, NEW s, i = local'[t].selected, s = SocketOf(i)', CompactionOn(t, i, s)'
    PROVE  Compaction(t)'
BY DEF Compaction, CompactionOn, Ordered, Again

LEMMA CompactionAway ==
    ASSUME NEW t, pc'[t] \notin {"filter", "await"},
           ~local'[t].retried \/ pc'[t] \in {"locate", "order", "close", "inform", "idle"}
    PROVE  Compaction(t)'
BY DEF Compaction, CompactionOn, Again

\* Whatever happens to the socket of an instance that has a question, the ISE of the turn
\* is the one that asked a SET on it.
LEMMA AskerHasTheTurn ==
    ASSUME OneAtATime, NEW t \in ISEs, pc[t] # "idle", NEW i, NEW r \in Request, AskedFor(r, i),
           r.op \in {"SET", "STORE"}
    PROVE  r.thread = t /\ pc[t] = "receive" /\ Reads(t, i) /\ r.op = local[t].op /\ r.key = local[t].key
<1>1. WaitsFor("result", r.thread, i)
  BY DEF AskedFor, KindOf
<1> QED
  BY <1>1 DEF WaitsFor, AskedFor, OneAtATime

LEMMA CompactionOfServe ==
    ASSUME TInv, OneAtATime, NEW t \in ISEs, pc[t] # "idle", NEW j \in Instances, Serve(j),
           NEW i \in Instances, NEW s \in Sockets, s = SocketOf(i),
           Exchange(s), InStepOn(s, i), CompactionOn(t, i, s)
    PROVE  CompactionOn(t, i, s)'
<1>1. PICK q, set, evicted : Serves(j, q, set, evicted)
  BY ServeServes
<1>2. /\ pc' = pc /\ local' = local /\ waiting' = waiting /\ is_available' = is_available
      /\ socket_id' = socket_id /\ peer' = peer
  BY <1>1 DEF Serves, threads, list
<1>3. /\ \A u \in Sockets : u # <<j, peer[j]>> => requests'[u] = requests[u]
      /\ \A h \in Instances : h # j => compact'[h] = compact[h]
  BY <1>1 DEF Serves, TInv, Types
<1>4. s[1] = i
  BY DEF SocketOf
<1>5. CASE j # i
  <2>1. requests'[s] = requests[s] /\ compact'[i] = compact[i]
    BY <1>3, <1>4, <1>5
  <2> QED
    BY <1>2, <2>1 DEF CompactionOn, Ordered, Again, Open
<1>6. CASE j = i
  <2>1. /\ <<i, peer[i]>> = s /\ Open(s) /\ requests'[s] = << >> /\ requests[s] = <<q>> /\ q \in Request
    <3>1. Serves(i, q, set, evicted)
      BY <1>1, <1>6
    <3>2. <<i, peer[i]>> = s /\ Open(s)
      BY <3>1, ServesRequest
    <3> QED
      BY <3>1, <3>2, ExchangeAfterServe
  <2>2. requests[s][1] = q /\ requests[s] # << >>
    BY <2>1
  <2>3. q.op = "SET" => pc[t] = "receive"
    BY <2>1, <2>2, AskerHasTheTurn DEF InStepOn
  <2>4. compact'[i] = (q.op # "SET" /\ (compact[i] \/ q.op = "START_COMPACTION"))
    BY <1>1, <1>6 DEF Serves, TInv, Types
  <2>5. pc[t] \in {"filter", "await"} /\ Ordered(t, i, s) => Ordered(t, i, s)'
    BY <2>1, <2>2, <2>3, <2>4 DEF Ordered
  <2>6. Again(t, i, s) => Again(t, i, s)'
    <3>1. ASSUME Again(t, i, s), pc[t] = "send", Open(s) PROVE compact'[i]
      BY <2>1, <2>3, <2>4, <3>1 DEF Again
    <3> QED
      BY <1>2, <2>1, <3>1 DEF Again
  <2> QED
    BY <1>2, <2>5, <2>6 DEF CompactionOn
<1> QED
  BY <1>5, <1>6

LEMMA CompactionOfDies ==
    ASSUME TInv, NEW t \in ISEs, NEW j \in Instances, Dies(j),
           NEW i \in Instances, NEW s \in Sockets, s[1] = i, CompactionOn(t, i, s)
    PROVE  CompactionOn(t, i, s)'
<1>1. /\ pc' = pc /\ local' = local /\ waiting' = waiting /\ is_available' = is_available
      /\ socket_id' = socket_id /\ compact' = compact /\ replies' = replies
  BY DEF Dies, threads, list
<1>2. requests'[s] = requests[s] \/ requests'[s] = << >>
  BY DEF Dies, TInv, Types
<1>3. Open(s)' => Open(s) /\ requests'[s] = requests[s]
  <2>1. s[2] # 0
    BY SocketIsPair
  <2>2. j # i => requests'[s] = requests[s] /\ peer'[i] = peer[i]
    BY DEF Dies, TInv, Types
  <2>3. j = i => peer'[i] = 0
    BY DEF Dies, TInv, Types
  <2> QED
    BY <2>1, <2>2, <2>3 DEF Open
<1>4. Ordered(t, i, s) => Ordered(t, i, s)'
  BY <1>1, <1>3 DEF Ordered
<1>5. Again(t, i, s) => Again(t, i, s)'
  BY <1>1, <1>2, <1>3 DEF Again
<1> QED
  BY <1>1, <1>4, <1>5 DEF CompactionOn

LEMMA CompactionOfConnects ==
    ASSUME TInv, NEW t \in ISEs, NEW j \in Instances, Connects(j),
           NEW i \in Instances, NEW s \in Sockets, s[1] = i, CompactionOn(t, i, s)
    PROVE  CompactionOn(t, i, s)'
<1>1. /\ pc' = pc /\ local' = local /\ waiting' = waiting /\ is_available' = is_available
      /\ socket_id' = socket_id /\ requests' = requests /\ replies' = replies
  BY DEF Connects, threads, list, wires
<1>2. CASE j = i
  <2>1. compact'[i]
    BY <1>2 DEF Connects, TInv, Types
  <2> QED
    BY <1>1, <2>1 DEF CompactionOn, Ordered, Again
<1>3. CASE j # i
  <2>1. compact'[i] = compact[i] /\ peer'[i] = peer[i]
    BY <1>3 DEF Connects, TInv, Types
  <2> QED
    BY <1>1, <2>1 DEF CompactionOn, Ordered, Again, Open
<1> QED
  BY <1>2, <1>3

\* The instance is compact when it comes back, and its new socket is empty.
LEMMA CompactionOfCreate ==
    ASSUME TInv, NEW t \in ISEs, pc[t] # "idle", NEW j \in Instances, CheckIfExistsOrCreate(j), Compaction(t)
    PROVE  Compaction(t)'
<1>1. /\ pc' = pc /\ local' = local /\ waiting' = waiting /\ peer' = peer /\ compact' = compact
      /\ requests' = requests /\ replies' = replies
  BY DEF CheckIfExistsOrCreate, threads, wires
<1>2. /\ socket_id' = [socket_id EXCEPT ![j] = registering[j]]
      /\ is_available' = [is_available EXCEPT ![j] = TRUE]
  BY DEF CheckIfExistsOrCreate
<1>3. PICK i : i = local[t].selected
  OBVIOUS
<1>4. local'[t].selected = i
  BY <1>1, <1>3
<1>5. pc[t] \in Chosen => i \in Instances
  BY <1>3 DEF TInv, Control, Threads
<1>6. PICK s : s = SocketOf(i)
  OBVIOUS
<1>8. CompactionOn(t, i, s)
  BY <1>3, <1>6, CompactionNow
<1>9. CASE pc[t] \notin Chosen
  <2>1. pc[t] \in PCs /\ pc[t] # "value"
    BY DEF TInv, Types, Control, Threads
  <2> QED
    BY <1>1, <1>8, <1>9, <2>1, PCsMembers, CompactionAway DEF CompactionOn, Chosen
<1>10. CASE pc[t] \in Chosen /\ j # i
  <2>1. socket_id'[i] = socket_id[i] /\ is_available'[i] = is_available[i]
    BY <1>2, <1>5, <1>10 DEF TInv, Types
  <2>2. s = SocketOf(i)'
    BY <1>6, <2>1 DEF SocketOf
  <2>3. CompactionOn(t, i, s)'
    BY <1>1, <1>8, <2>1 DEF CompactionOn, Ordered, Again, Open
  <2> QED
    BY <1>4, <2>2, <2>3, CompactionNext
<1>11. CASE pc[t] \in Chosen /\ j = i
  <2>1. compact[i] /\ registering[i] = accepted[i] /\ socket_id[i] < accepted[i] /\ accepted[i] # 0
    BY <1>5, <1>11 DEF CheckIfExistsOrCreate, TInv, Types, Connections, Connected
  <2>2. socket_id'[i] = accepted[i]
    BY <1>2, <1>5, <1>11, <2>1 DEF TInv, Types
  <2>3. PICK n : n = <<i, accepted[i]>>
    OBVIOUS
  <2>4. n = SocketOf(i)'
    BY <2>2, <2>3 DEF SocketOf
  <2>5. n \in Sockets /\ requests[n] = << >>
    <3>1. accepted[i] \in Nat /\ accepted[i] <= MaxConnections[i]
      BY <1>5, <1>11 DEF TInv, Types, Connections, Connected
    <3>2. n \in Sockets
      BY <1>5, <1>11, <2>1, <2>3, <3>1, PairIsSocket
    <3> QED
      BY <2>1, <2>3, <3>2 DEF TInv, Connections
  <2>6. CompactionOn(t, i, n)'
    BY <1>1, <1>8, <2>1, <2>5 DEF CompactionOn, Ordered, Again
  <2> QED
    BY <1>4, <2>4, <2>6, CompactionNext
<1> QED
  BY <1>9, <1>10, <1>11

LEMMA CompactionOfSend ==
    ASSUME TInv, OneAtATime, NEW t \in ISEs, SendToInstance(t), ~crossed', Types', Connections',
           NEW i, i = local[t].selected, NEW s, s = SocketOf(i), Compaction(t)
    PROVE  Compaction(t)'
<1>1. t \in Threads /\ pc[t] = "send" /\ i \in Instances /\ socket_id[i] # 0 /\ s \in Sockets
  <2>1. t \in Threads /\ pc[t] = "send" /\ i \in Instances
    BY DEF SendToInstance, Threads, TInv, Control, Chosen
  <2>2. socket_id[i] # 0
    BY <2>1 DEF TInv, Connections
  <2> QED
    BY <2>1, <2>2, SocketOfIsSocket DEF TInv
<1>2. /\ socket_id' = socket_id /\ peer' = peer /\ compact' = compact /\ Goes(t, "receive")
      /\ Asks(t, i, local[t].op, local[t].key)
  BY DEF SendToInstance, others, instances
<1>3. PICK socket \in {0, socket_id[i]} :
        local' = [local EXCEPT ![t].selected = i, ![t].socket = socket]
  BY <1>2 DEF Asks
<1>4. /\ local'[t].selected = i /\ local'[t].retried = local[t].retried /\ local'[t].socket = socket
  BY <1>1, <1>3 DEF TInv, Types
<1>5. pc'[t] = "receive"
  BY <1>1, <1>2, GoesTo
<1>6. s = SocketOf(i)'
  BY <1>2 DEF SocketOf
<1>7. CASE ~local[t].retried
  BY <1>4, <1>5, <1>7, CompactionAway
<1>8. CASE local[t].retried
  <2>1. compact[i] \/ ~Open(s)
    BY <1>1, <1>8 DEF Compaction, CompactionOn, Again
  <2>2. requests'[s] # << >> => compact'[i]
    <3>1. requests'[s] # << >> => Open(s)'
      BY <1>1 DEF Connections
    <3> QED
      BY <1>2, <2>1, <3>1 DEF Open
  <2>3. CompactionOn(t, i, s)'
    BY <1>5, <2>2 DEF CompactionOn, Again
  <2> QED
    BY <1>4, <1>6, <2>3, CompactionNext
<1> QED
  BY <1>7, <1>8

LEMMA CompactionOfOrder ==
    ASSUME TInv, NEW t \in ISEs, OrderCompaction(t), ~crossed', \A s \in Sockets : Exchange(s)
    PROVE  Compaction(t)'
<1>1. PICK i : i = local[t].selected
  OBVIOUS
<1>2. t \in Threads /\ pc[t] = "order" /\ i \in Instances /\ socket_id[i] # 0
  <2>1. t \in Threads /\ pc[t] = "order" /\ i \in Instances
    BY <1>1 DEF OrderCompaction, Threads, TInv, Control, Chosen
  <2> QED
    BY <1>1, <2>1 DEF TInv, Connections
<1>3. PICK s : s = SocketOf(i)
  OBVIOUS
<1>5. /\ socket_id' = socket_id /\ is_available' = is_available /\ local' = local /\ peer' = peer
      /\ Goes(t, "filter")
      /\ SendTo(t, {SocketOf(j) : j \in Available}, "START_COMPACTION", NULL)
  BY DEF OrderCompaction, others, instances, list, ToCompact
<1>6. pc'[t] = "filter" /\ local'[t].selected = i
  BY <1>1, <1>2, <1>5, GoesTo
<1>7. s = SocketOf(i)'
  BY <1>3, <1>5 DEF SocketOf
<1>8. is_available[i] /\ Open(s) => requests'[s] # << >> /\ requests'[s][1].op = "START_COMPACTION"
  <2>1. s \in Sockets
    BY <1>2, <1>3, SocketOfIsSocket DEF TInv
  <2>2. Available \subseteq Instances /\ (is_available[i] => i \in Available)
    BY <1>2 DEF Available
  <2>3. \A j \in Available : SocketOf(j) \in Sockets
    BY SocketOfIsSocket DEF Available, TInv
  <2>4. PICK to \in SUBSET Sockets : to = {SocketOf(j) : j \in Available}
    BY <2>3
  <2>5. SendTo(t, to, "START_COMPACTION", NULL) /\ (is_available[i] => s \in to)
    BY <1>3, <1>5, <2>2, <2>4
  <2>6. ASSUME is_available[i], Open(s)
        PROVE  requests'[s] = Append(requests[s], [thread |-> t, op |-> "START_COMPACTION", key |-> NULL])
               /\ requests[s] = << >>
    BY <2>1, <2>5, <2>6 DEF SendTo, Busy
  <2>7. \A x : Append(<< >>, x)[1] = x /\ Append(<< >>, x) # << >>
    OBVIOUS
  <2> QED
    BY <2>6, <2>7
<1>9. CompactionOn(t, i, s)'
  BY <1>5, <1>6, <1>8 DEF CompactionOn, Ordered, Again, Open
<1> QED
  BY <1>6, <1>7, <1>9, CompactionNext

LEMMA CompactionOfFilter ==
    ASSUME TInv, NEW t \in ISEs, FilterAgain(t), Compaction(t)
    PROVE  Compaction(t)'
<1>1. PICK i : i = local[t].selected
  OBVIOUS
<1>2. t \in Threads /\ pc[t] = "filter" /\ i \in Instances /\ socket_id[i] # 0
  <2>1. t \in Threads /\ pc[t] = "filter" /\ i \in Instances
    BY <1>1 DEF FilterAgain, Threads, TInv, Control, Chosen
  <2> QED
    BY <1>1, <2>1 DEF TInv, Connections
<1>3. PICK s : s = SocketOf(i)
  OBVIOUS
<1>5. /\ socket_id' = socket_id /\ is_available' = is_available /\ local' = local /\ peer' = peer
      /\ compact' = compact /\ requests' = requests /\ replies' = replies /\ Goes(t, "await")
  BY DEF FilterAgain, others, instances, list, wires
<1>6. pc'[t] = "await" /\ local'[t].selected = i
  BY <1>1, <1>2, <1>5, GoesTo
<1>7. s = SocketOf(i)'
  BY <1>3, <1>5 DEF SocketOf
<1>8. is_available[i] => \E w \in waiting' : w[1] = i /\ w[2] \in {0, socket_id[i]}
  <2>1. PICK called \in BOOLEAN : waiting' = {<<j, IF called THEN socket_id[j] ELSE 0>> : j \in Available}
    BY DEF FilterAgain, ToAwait, ToCompact
  <2>2. is_available[i] => i \in Available
    BY <1>2 DEF Available
  <2>3. is_available[i] => <<i, IF called THEN socket_id[i] ELSE 0>> \in waiting'
    BY <2>1, <2>2
  <2> QED
    BY <2>3
<1>9. CompactionOn(t, i, s)
  BY <1>1, <1>3, CompactionNow
<1>10. CompactionOn(t, i, s)'
  BY <1>2, <1>5, <1>6, <1>8, <1>9 DEF CompactionOn, Ordered, Again, Open
<1> QED
  BY <1>6, <1>7, <1>10, CompactionNext

\* The answer that is awaited has not come while the order is on its way.
LEMMA CompactionOfAwait ==
    ASSUME TInv, NEW t \in ISEs, AwaitCompaction(t), \A s \in Sockets : Exchange(s), Compaction(t)
    PROVE  Compaction(t)'
<1>1. PICK i : i = local[t].selected
  OBVIOUS
<1>2. t \in Threads /\ pc[t] = "await" /\ i \in Instances /\ socket_id[i] # 0
  <2>1. t \in Threads /\ pc[t] = "await" /\ i \in Instances
    BY <1>1 DEF AwaitCompaction, Threads, TInv, Control, Chosen
  <2> QED
    BY <1>1, <2>1 DEF TInv, Connections
<1>3. PICK s \in Sockets : s = SocketOf(i)
  BY <1>2, SocketOfIsSocket DEF TInv
<1>5. PICK w \in waiting :
        /\ \/ Received(RecvSocket(w[1], w[2]), 1) /\ Take(RecvSocket(w[1], w[2]), 1)
           \/ EndOfFile(RecvSocket(w[1], w[2]), 1) /\ UNCHANGED wires
        /\ waiting' = waiting \ {w}
  BY DEF AwaitCompaction
<1>6. /\ pc' = pc /\ local' = local /\ peer' = peer /\ compact' = compact /\ requests' = requests
      /\ socket_id' = socket_id /\ (is_available'[i] => is_available[i])
  <2>1. pc' = pc /\ local' = local /\ peer' = peer /\ compact' = compact
    BY DEF AwaitCompaction, others, instances
  <2>2. requests' = requests
    BY <1>5 DEF Take, wires
  <2>3. Runs(t)
    BY DEF Runs
  <2> QED
    BY <1>2, <2>1, <2>2, <2>3, ListOfRuns
<1>7. s = SocketOf(i)'
  BY <1>3, <1>6 DEF SocketOf
<1>8. CompactionOn(t, i, s)
  BY <1>1, <1>3, CompactionNow
<1>9. requests[s] # << >> /\ w[1] = i => w[2] \notin {0, socket_id[i]}
  <2>1. ASSUME requests[s] # << >>, w[1] = i, w[2] \in {0, socket_id[i]} PROVE FALSE
    <3>1. RecvSocket(w[1], w[2]) = s
      BY <1>3, <2>1, AwaitedIsSocket
    <3>2. replies[s] = << >> /\ Open(s)
      BY <2>1 DEF Exchange, TInv, Connections
    <3>3. Len(<< >>) = 0
      OBVIOUS
    <3> QED
      BY <1>5, <3>1, <3>2, <3>3 DEF Received, EndOfFile
  <2> QED
    BY <2>1
<1>10. Ordered(t, i, s) => Ordered(t, i, s)'
  BY <1>2, <1>5, <1>6, <1>9 DEF Ordered, Open
<1>11. CompactionOn(t, i, s)'
  BY <1>2, <1>6, <1>8, <1>10 DEF CompactionOn, Again
<1> QED
  BY <1>1, <1>6, <1>7, <1>11, CompactionNext

LEMMA CompactionOfRetry ==
    ASSUME TInv, NEW t \in ISEs, Retry(t), Compaction(t)
    PROVE  Compaction(t)'
<1>1. PICK i : i = local[t].selected
  OBVIOUS
<1>2. t \in Threads /\ pc[t] = "await" /\ waiting = {}
  BY DEF Retry, Threads
<1>3. PICK s : s = SocketOf(i)
  OBVIOUS
<1>4. CASE is_available[i]
  <2>1. Goes(t, "send") /\ local' = [local EXCEPT ![t].retried = TRUE] /\ UNCHANGED <<peer, compact, socket_id>>
    BY <1>1, <1>4 DEF Retry, others, instances, list
  <2>2. pc'[t] = "send" /\ local'[t].selected = i
    BY <1>1, <1>2, <2>1, GoesTo DEF TInv, Types
  <2>3. compact[i] \/ ~Open(s)
    BY <1>1, <1>2, <1>3, <1>4 DEF Compaction, CompactionOn, Ordered
  <2>5. s = SocketOf(i)'
    BY <1>3, <2>1 DEF SocketOf
  <2>6. CompactionOn(t, i, s)'
    BY <2>1, <2>2, <2>3 DEF CompactionOn, Again, Open
  <2> QED
    BY <2>2, <2>5, <2>6, CompactionNext
<1>5. CASE ~is_available[i]
  <2>1. Goes(t, "close") /\ Result(t, "KEY_UNREACHABLE")
    BY <1>1, <1>5 DEF Retry
  <2>2. pc'[t] = "close"
    BY <1>2, <2>1, GoesTo
  <2> QED
    BY <2>2, CompactionAway
<1> QED
  BY <1>4, <1>5

LEMMA CompactionOfReceive ==
    ASSUME TInv, NEW t \in ISEs, ReceiveResult(t)
    PROVE  Compaction(t)'
<1>1. t \in Threads
  BY DEF Threads
<1>2. pc'[t] \in {"locate", "close"}
  BY <1>1, GoesTo DEF ReceiveResult
<1> QED
  BY <1>2, CompactionAway

LEMMA EndsIdle ==
    ASSUME TInv, NEW t \in Threads, NEW result, Ends(t, result)
    PROVE  pc'[t] = "idle" /\ local'[t].result = result
BY EndsLocal

LEMMA CompactionOfRuns ==
    ASSUME TInv, OneAtATime, NEW t \in ISEs, Runs(t), ~crossed', Types', Connections',
           \A s \in Sockets : Exchange(s), \A i \in Instances : socket_id[i] # 0 => InStep(i), Compaction(t)
    PROVE  Compaction(t)'
<1>1. t \in Threads /\ t # console
  BY CoordinatorAssumption DEF Threads
<1>2. local[t].retried => pc[t] \notin {"notify", "validation", "select", "look", "health"}
  BY DEF Compaction, CompactionOn
<1>3. CASE NotifyPlanifier(t)
  <2>1. pc'[t] = "validation" /\ local' = local /\ pc[t] = "notify"
    BY <1>1, <1>3, GoesTo DEF NotifyPlanifier
  <2> QED
    BY <1>2, <2>1, CompactionAway
<1>4. CASE Validation(t)
  <2>1. CASE Goes(t, "select") /\ UNCHANGED local
    <3>1. pc'[t] = "select" /\ local' = local /\ pc[t] = "validation"
      BY <1>1, <1>4, <2>1, GoesTo DEF Validation
    <3> QED
      BY <1>2, <3>1, CompactionAway
  <2>2. CASE Ends(t, Head(answers).result)
    BY <1>1, <2>2, EndsIdle, CompactionAway
  <2> QED
    BY <1>4, <2>1, <2>2 DEF Validation
<1>5. CASE Select(t)
  <2>1. pc[t] = "select"
    BY <1>5 DEF Select
  <2>2. CASE Goes(t, "look") /\ UNCHANGED local
    BY <1>1, <1>2, <2>1, <2>2, GoesTo, CompactionAway
  <2>3. CASE Goes(t, "close") /\ Result(t, "KEY_UNREACHABLE")
    BY <1>1, <2>3, GoesTo, ResultLocal, CompactionAway
  <2>4. CASE \E i : Goes(t, "send") /\ Selects(t, i)
    BY <1>1, <1>2, <2>1, <2>4, GoesTo, SelectsLocal, CompactionAway
  <2> QED
    BY <1>1, <1>5, <2>2, <2>3, <2>4 DEF Select
<1>6. CASE LookForInstance(t)
  <2>1. pc[t] = "look"
    BY <1>6 DEF LookForInstance
  <2>2. CASE UNCHANGED <<pc, local>>
    BY <1>2, <2>1, <2>2, CompactionAway
  <2>3. CASE Goes(t, "health") /\ \E i \in Available : Asks(t, i, "HEALTH_CHECK", NULL)
    <3>1. PICK i \in Instances : Asks(t, i, "HEALTH_CHECK", NULL)
      BY <2>3 DEF Available
    <3>2. pc'[t] = "health" /\ local'[t].retried = local[t].retried
      BY <1>1, <2>3, <3>1, GoesTo, AsksLocal
    <3> QED
      BY <1>2, <2>1, <3>2, CompactionAway
  <2> QED
    BY <1>6, <2>2, <2>3 DEF LookForInstance
<1>7. CASE HealthCheck(t)
  <2>1. pc[t] = "health" /\ local' = local /\ (Goes(t, "send") \/ Goes(t, "look"))
    BY <1>1, <1>7 DEF HealthCheck
  <2>2. pc'[t] \in {"send", "look"}
    BY <1>1, <2>1, GoesTo
  <2> QED
    BY <1>2, <2>1, <2>2, CompactionAway
<1>8. CASE SendToInstance(t)
  <2>1. PICK i : i = local[t].selected
    OBVIOUS
  <2>2. PICK s : s = SocketOf(i)
    OBVIOUS
  <2> QED
    BY <1>8, <2>1, <2>2, CompactionOfSend
<1>9. CASE ReceiveResult(t)
  BY <1>9, CompactionOfReceive
<1>10. CASE Locate(t)
  <2>1. /\ pc[t] = "locate" /\ local' = local
        /\ Goes(t, IF local[t].result = "NEED_COMPACTION" /\ ~local[t].retried THEN "order" ELSE "close")
    BY <1>10 DEF Locate
  <2>2. pc'[t] = IF local[t].result = "NEED_COMPACTION" /\ ~local[t].retried THEN "order" ELSE "close"
    BY <1>1, <2>1, GoesTo
  <2> QED
    BY <1>2, <2>1, <2>2, CompactionAway
<1>11. CASE OrderCompaction(t)
  BY <1>11, CompactionOfOrder
<1>12. CASE FilterAgain(t)
  BY <1>12, CompactionOfFilter
<1>13. CASE AwaitCompaction(t)
  BY <1>13, CompactionOfAwait
<1>14. CASE Retry(t)
  BY <1>14, CompactionOfRetry
<1>15. CASE Close(t)
  <2>1. pc[t] = "close"
    BY <1>15 DEF Close
  <2>2. CASE Goes(t, "inform") /\ UNCHANGED local
    BY <1>1, <1>2, <2>1, <2>2, GoesTo, CompactionAway
  <2>3. CASE Ends(t, local[t].result)
    BY <1>1, <1>2, <2>1, <2>3, EndsIdle, CompactionAway
  <2> QED
    BY <1>15, <2>2, <2>3 DEF Close
<1>16. CASE Inform(t)
  <2>1. pc[t] = "inform" /\ Ends(t, local[t].result)
    BY <1>16 DEF Inform
  <2> QED
    BY <1>1, <1>2, <2>1, EndsIdle, CompactionAway
<1> QED
  BY <1>3, <1>4, <1>5, <1>6, <1>7, <1>8, <1>9, <1>10, <1>11, <1>12, <1>13, <1>14, <1>15, <1>16 DEF Runs

\* An ISE that waits for its turn leaves only with its next sentence.
LEMMA IdleMoves ==
    ASSUME TInv, OneAtATime, NEW t \in ISEs, pc[t] = "idle", [Next]_vars
    PROVE  \/ pc'[t] = "idle" /\ local'[t] = local[t]
           \/ pc'[t] = "notify" /\ ~local'[t].retried
<1>1. t \in Threads /\ t # console
  BY CoordinatorAssumption DEF Threads
<1>2. CASE ReceiveSentence(t)
  <2>1. PICK op \in {"GET", "SET", "STORE"}, k \in Keys :
          local' = [local EXCEPT ![t] = [Free EXCEPT !.op = op, !.key = k]]
    BY <1>2 DEF ReceiveSentence
  <2>2. local'[t] = [Free EXCEPT !.op = op, !.key = k] /\ pc'[t] = "notify"
    BY <1>1, <1>2, <2>1, GoesTo DEF ReceiveSentence, TInv, Types
  <2>3. ~local'[t].retried
    BY <2>2 DEF Free
  <2> QED
    BY <2>2, <2>3
<1>3. ASSUME ~ReceiveSentence(t) PROVE pc'[t] = "idle" /\ local'[t] = local[t]
  <2>1. ASSUME NEW u \in ISEs, ReceiveSentence(u) PROVE pc'[t] = "idle" /\ local'[t] = local[t]
    BY <1>1, <1>3, <2>1, OtherThreads DEF Threads
  <2>2. ASSUME NEW u \in Threads, Runs(u) PROVE pc'[t] = "idle" /\ local'[t] = local[t]
    <3>1. pc[u] # "idle"
      BY <2>2 DEF Runs, NotifyPlanifier, Validation, Select, LookForInstance, HealthCheck, SendToInstance,
                  ReceiveResult, Locate, OrderCompaction, FilterAgain, AwaitCompaction, Retry, Close, Inform
    <3> QED
      BY <1>1, <2>2, <3>1, OtherThreads
  <2>3. ASSUME AskInstance PROVE pc'[t] = "idle" /\ local'[t] = local[t]
    BY <1>1, <2>3 DEF AskInstance, Goes, TInv, Types
  <2>4. ASSUME AskValue PROVE pc'[t] = "idle" /\ local'[t] = local[t]
    BY <1>1, <2>4 DEF AskValue, Goes, Asks, TInv, Types
  <2>5. ASSUME ReceiveValue PROVE pc'[t] = "idle" /\ local'[t] = local[t]
    BY <1>1, <2>5 DEF ReceiveValue, Ends, Goes, TInv, Types
  <2>6. ASSUME PlanifierAnswers \/ UNCHANGED vars \/
               \E i \in Instances : Serve(i) \/ Dies(i) \/ Connects(i) \/ CheckIfExistsOrCreate(i)
        PROVE pc'[t] = "idle" /\ local'[t] = local[t]
    BY <2>6 DEF PlanifierAnswers, Serve, Dies, Connects, CheckIfExistsOrCreate, vars, threads
  <2> QED
    BY <2>1, <2>2, <2>3, <2>4, <2>5, <2>6 DEF Next
<1> QED
  BY <1>2, <1>3

\* Until then it is done with its last sentence; when it begins it has sent nothing.
LEMMA CompactionOfIdle ==
    ASSUME TInv, OneAtATime, NEW t \in ISEs, pc[t] = "idle", [Next]_vars
    PROVE  Compaction(t)'
BY IdleMoves, CompactionAway

LEMMA CompactionStep ==
    ASSUME TInv, TInv', OneAtATime, [Next]_vars, ~crossed', Exchanges,
           NEW t \in ISEs, Compaction(t)
    PROVE  Compaction(t)'
<1>1. t \in Threads
  BY DEF Threads
<1>2. CASE pc[t] = "idle"
  BY <1>2, CompactionOfIdle
<1>3. CASE Runs(t)
  BY <1>3, CompactionOfRuns DEF TInv, Exchanges
<1>4. CASE \E j \in Instances : CheckIfExistsOrCreate(j)
  BY <1>2, <1>4, CompactionOfCreate
<1>5. ASSUME pc[t] # "idle", ~Runs(t), ~ \E j \in Instances : CheckIfExistsOrCreate(j)
      PROVE  Compaction(t)'
  <2>1. /\ pc'[t] = pc[t] /\ local'[t] = local[t] /\ socket_id' = socket_id
        /\ \/ \E j \in Instances : Serve(j) \/ Dies(j) \/ Connects(j)
           \/ Bystanders(t) /\ (Reading \/ Sending)
    <3>1. CASE \E j \in Instances : Serve(j) \/ Dies(j) \/ Connects(j)
      BY <3>1 DEF Serve, Dies, Connects, threads, list
    <3>2. CASE ~ \E j \in Instances : Serve(j) \/ Dies(j) \/ Connects(j)
      BY <1>5, <3>2, BesideTheTurn DEF Bystanders
    <3> QED
      BY <3>1, <3>2
  <2>2. PICK i : i = local[t].selected
    OBVIOUS
  <2>3. PICK s : s = SocketOf(i)
    OBVIOUS
  <2>5. i = local'[t].selected /\ s = SocketOf(i)'
    BY <2>1, <2>2, <2>3 DEF SocketOf
  <2>6. CompactionOn(t, i, s)
    BY <2>2, <2>3, CompactionNow
  <2>7. CASE pc[t] \notin Chosen
    <3>1. pc[t] \in PCs /\ pc[t] # "value"
      BY <1>1 DEF TInv, Types, Control
    <3> QED
      BY <2>1, <2>6, <2>7, <3>1, PCsMembers, CompactionAway DEF CompactionOn, Chosen
  <2>8. CASE pc[t] \in Chosen
    <3>1. i \in Instances /\ socket_id[i] # 0
      <4>1. i \in Instances
        BY <1>1, <2>2, <2>8 DEF TInv, Control
      <4> QED
        BY <1>1, <2>2, <4>1 DEF TInv, Connections
    <3>2. s \in Sockets /\ s[1] = i
      BY <2>3, <3>1, SocketOfIsSocket DEF SocketOf, TInv
    <3>3. Exchange(s) /\ InStepOn(s, i)
      BY <2>3, <3>1, <3>2, InStepIsOnSocket DEF Exchanges
    <3>4. CompactionOn(t, i, s)'
      <4>1. ASSUME NEW j \in Instances, Serve(j) PROVE CompactionOn(t, i, s)'
        BY <1>5, <2>3, <2>6, <3>1, <3>2, <3>3, <4>1, CompactionOfServe
      <4>2. ASSUME NEW j \in Instances, Dies(j) PROVE CompactionOn(t, i, s)'
        BY <2>6, <3>1, <3>2, <4>2, CompactionOfDies
      <4>3. ASSUME NEW j \in Instances, Connects(j) PROVE CompactionOn(t, i, s)'
        BY <2>6, <3>1, <3>2, <4>3, CompactionOfConnects
      <4>4. ASSUME Bystanders(t), Reading \/ Sending PROVE CompactionOn(t, i, s)'
        BY <1>5, <2>6, <3>1, <3>2, <3>3, <4>4, CompactionBeside
      <4> QED
        BY <2>1, <4>1, <4>2, <4>3, <4>4
    <3> QED
      BY <2>5, <3>4, CompactionNext
  <2> QED
    BY <2>7, <2>8
<1> QED
  BY <1>2, <1>3, <1>4, <1>5

CompactionInv == ExchangesInv /\ (~crossed => \A t \in ISEs : Compaction(t))

LEMMA CompactionInvInit == Init => CompactionInv
<1> SUFFICES ASSUME Init, NEW t \in ISEs PROVE Compaction(t)
  BY ExchangesInvInit DEF CompactionInv
<1>1. t \in Threads
  BY DEF Threads
<1>2. pc[t] = "idle" /\ local[t] = Free
  BY <1>1 DEF Init
<1>3. ~local[t].retried
  BY <1>2 DEF Free
<1> QED
  BY <1>2, <1>3 DEF Compaction, CompactionOn

LEMMA CompactionInvStep ==
    ASSUME MayInterrupt = {} PROVE CompactionInv /\ [Next]_vars => CompactionInv'
<1> SUFFICES ASSUME CompactionInv, [Next]_vars PROVE CompactionInv'
  OBVIOUS
<1>1. ExchangesInv /\ ExchangesInv' /\ TInv /\ TInv' /\ OneAtATime
  BY ExchangesInvStep DEF CompactionInv, ExchangesInv
<1>2. ASSUME ~crossed', NEW t \in ISEs PROVE Compaction(t)'
  <2>1. ~crossed
    BY <1>2, CrossedStays
  <2>2. Compaction(t) /\ Exchanges
    BY <1>1, <2>1 DEF CompactionInv, ExchangesInv
  <2> QED
    BY <1>1, <1>2, <2>2, CompactionStep
<1> QED
  BY <1>1, <1>2 DEF CompactionInv

\* The ISE whose SET is on a socket waits for its result there.
LEMMA CompactionInvImplies == CompactionInv => CompactsBeforeRetry
<1> SUFFICES ASSUME CompactionInv, ~crossed, NEW s \in Sockets, NEW n \in DOMAIN requests[s],
                    requests[s][n].op = "SET", local[requests[s][n].thread].retried
             PROVE  compact[s[1]]
  BY DEF CompactsBeforeRetry
<1>1. TInv /\ Exchanges
  BY DEF CompactionInv, ExchangesInv
<1>2. PICK i \in Instances : i = s[1]
  BY SocketIsPair
<1>3. requests[s] \in Seq(Request) /\ requests[s] # << >>
  BY <1>1 DEF TInv, Types
<1>4. n = 1 /\ 1 \in DOMAIN requests[s] /\ requests[s][1] \in Request
  <2>1. Len(requests[s]) = 1
    BY <1>1, <1>3 DEF Exchanges, Exchange
  <2> QED
    BY <1>3, <2>1
<1>5. s = SocketOf(i) /\ socket_id[i] # 0
  <2>1. s = <<i, s[2]>> /\ s[2] \in Nat /\ s[2] # 0
    BY <1>2, SocketIsPair
  <2>2. peer[i] = s[2] /\ ~(s[2] > socket_id[i])
    BY <1>1, <1>2, <1>3 DEF TInv, Connections, Open
  <2>3. socket_id[i] \in Nat /\ accepted[i] \in Nat /\ socket_id[i] <= accepted[i] /\ peer[i] \in {0, accepted[i]}
    BY <1>1 DEF TInv, Types, Connections, Connected
  <2> QED
    BY <2>1, <2>2, <2>3 DEF SocketOf
<1>6. PICK t : t = requests[s][1].thread
  OBVIOUS
<1>7. t \in ISEs /\ pc[t] = "receive" /\ local[t].selected = i
  <2>1. AskedFor(requests[s][1], i)
    BY <1>1, <1>3, <1>5 DEF Exchanges, InStep
  <2>2. WaitsFor("result", t, i)
    BY <1>4, <1>6, <2>1 DEF AskedFor, KindOf
  <2> QED
    BY <2>2 DEF WaitsFor, Reads
<1>8. CompactionOn(t, i, s)
  BY <1>5, <1>7 DEF CompactionInv, Compaction
<1> QED
  BY <1>2, <1>3, <1>4, <1>6, <1>7, <1>8 DEF CompactionOn, Again

\* The order to compact is awaited of the instance that needs it before its SET is sent again,
\* and nothing sets in it what it compacted in between: the SET that comes again finds it
\* compact, or begun anew (coordinator.c, process_sentence and start_compaction).
THEOREM RetriesAfterCompacting ==
    ASSUME MayInterrupt = {} PROVE Spec => []CompactsBeforeRetry
<1>1. Init => CompactionInv
  BY CompactionInvInit
<1>2. CompactionInv /\ [Next]_vars => CompactionInv'
  BY CompactionInvStep
<1>3. CompactionInv => CompactsBeforeRetry
  BY CompactionInvImplies
<1> QED
  BY <1>1, <1>2, <1>3, PTL DEF Spec

-----------------------------------------------------------------------------
(* The STORE that is answered OK is on the disk *)

LEMMA StoringNow ==
    ASSUME NEW t, NEW i, NEW r, i = local[t].selected, r = Source(t)
    PROVE  Storing(t) <=> StoringOn(t, i, r)
BY DEF Storing

LEMMA StoringNext ==
    ASSUME NEW t, NEW i, NEW r, i = local'[t].selected, r = Source(t)', StoringOn(t, i, r)'
    PROVE  Storing(t)'
BY DEF Storing, StoringOn

LEMMA StoringAway ==
    ASSUME NEW t, pc'[t] # "receive",
           pc'[t] \in {"locate", "close"} => local'[t].result # "OK"
    PROVE  Storing(t)'
BY DEF Storing, StoringOn

\* A file that was written is not removed.
LEMMA StoredGrows ==
    ASSUME TInv, [Next]_vars, NEW i \in Instances PROVE stored[i] \subseteq stored'[i]
<1>1. UNCHANGED stored \/ \E j \in Instances : Serve(j)
  <2>1. ASSUME NEW t \in Threads, Runs(t) PROVE UNCHANGED stored
    <3>1. CASE NotifyPlanifier(t) \/ Validation(t) \/ Select(t) \/ LookForInstance(t) \/ HealthCheck(t)
      BY <3>1 DEF NotifyPlanifier, Validation, Select, LookForInstance, HealthCheck, others, instances
    <3>2. CASE SendToInstance(t) \/ ReceiveResult(t) \/ Locate(t) \/ OrderCompaction(t) \/ FilterAgain(t)
      BY <3>2 DEF SendToInstance, ReceiveResult, Locate, OrderCompaction, FilterAgain, others, instances
    <3>3. CASE AwaitCompaction(t) \/ Retry(t) \/ Close(t) \/ Inform(t)
      BY <3>3 DEF AwaitCompaction, Retry, Close, Inform, others, instances
    <3> QED
      BY <2>1, <3>1, <3>2, <3>3 DEF Runs
  <2>2. ASSUME NEW t \in ISEs, ReceiveSentence(t) PROVE UNCHANGED stored
    BY <2>2 DEF ReceiveSentence, instances
  <2>3. AskInstance \/ AskValue \/ ReceiveValue \/ PlanifierAnswers \/ UNCHANGED vars => UNCHANGED stored
    BY DEF AskInstance, AskValue, ReceiveValue, PlanifierAnswers, vars, others, instances
  <2>4. ASSUME NEW j \in Instances, Dies(j) \/ Connects(j) \/ CheckIfExistsOrCreate(j) PROVE UNCHANGED stored
    BY <2>4 DEF Dies, Connects, CheckIfExistsOrCreate
  <2> QED
    BY <2>1, <2>2, <2>3, <2>4 DEF Next
<1>2. ASSUME NEW j \in Instances, Serve(j) PROVE stored[i] \subseteq stored'[i]
  <2>1. PICK q, set, evicted : Serves(j, q, set, evicted)
    BY <1>2, ServeServes
  <2>2. stored' = [stored EXCEPT ![j] = IF q.op = "STORE" THEN @ \cup ({q.key} \cap held[j]) ELSE @]
    BY <2>1 DEF Serves
  <2>3. stored'[i] = stored[i] \/ stored'[i] = stored[i] \cup ({q.key} \cap held[j])
    BY <2>2 DEF TInv, Types
  <2> QED
    BY <2>3
<1> QED
  BY <1>1, <1>2

\* A closed socket has no answer OK of two words that nobody received.
LEMMA NobodyIsTold ==
    ASSUME TInv, NEW i \in Instances, NEW s \in Sockets, Exchange(s), InStepOn(s, i),
           \A u \in ISEs : pc[u] # "receive"
    PROVE  ~ (Len(replies[s]) = 2 /\ replies[s][1].word = "OK")
<1> SUFFICES ASSUME Len(replies[s]) = 2, replies[s][1].word = "OK" PROVE FALSE
  OBVIOUS
<1>0. Len(<< >>) = 0
  OBVIOUS
<1>1. replies[s] # << >>
  BY <1>0
<1>2. PICK kind \in Kinds : WaitsFor(kind, replies[s][1].thread, i) /\ Words(kind, replies[s])
  BY <1>1 DEF InStepOn, AnswerFor
<1>3. kind # "result"
  BY <1>2 DEF WaitsFor
<1>4. CASE kind = "value"
  BY <1>2, <1>4 DEF Words
<1>5. CASE kind \in {"health", "compaction"}
  <2>1. Words(kind, replies[s]) => Len(replies[s]) = 1
    BY <1>5 DEF Words
  <2> QED
    BY <1>2, <2>1
<1> QED
  BY <1>3, <1>4, <1>5 DEF Kinds

\* It says OK of a STORE of what it has, and the file is written by then.
LEMMA AnswerStores ==
    ASSUME TInv, NEW i \in Instances, NEW q \in Request, NEW set \in {"OK", "FAILED", "NEED_COMPACTION"},
           NEW words, words = AnswerReplies(q.thread, Answer(i, q, set)), words[1].word = "OK", Len(words) = 2
    PROVE  q.op \in {"SET", "STORE"} /\ (q.op = "STORE" => q.key \in held[i])
<1>0. PICK answer : answer = Answer(i, q, set)
  OBVIOUS
<1>1. DOMAIN words = DOMAIN answer /\ \A n \in DOMAIN answer : words[n].word = answer[n]
  BY <1>0 DEF AnswerReplies
<1>2. \A a, b : <<a, b>>[1] = a /\ 1 \in DOMAIN <<a, b>>
  OBVIOUS
<1>3. CASE q.op = "STORE"
  <2>1. answer = <<IF q.key \in held[i] THEN "OK" ELSE "FAILED", "entries in use">>
    BY <1>0, <1>3 DEF Answer
  <2>2. answer[1] = IF q.key \in held[i] THEN "OK" ELSE "FAILED"
    BY <1>2, <2>1
  <2>3. words[1].word = answer[1]
    BY <1>1, <1>2, <2>1
  <2> QED
    BY <1>3, <2>2, <2>3
<1>4. CASE q.op = "GET_KEY_VALUE"
  <2>1. answer = <<"KEY_VALUE_FOUND", "value">> \/ answer = <<"KEY_VALUE_NOT_FOUND">>
    BY <1>0, <1>4 DEF Answer
  <2>2. answer[1] # "OK" /\ 1 \in DOMAIN answer
    BY <2>1
  <2> QED
    BY <1>1, <2>2
<1>5. CASE q.op \in {"HEALTH_CHECK", "START_COMPACTION"}
  <2>1. answer = <<"OK">>
    BY <1>0, <1>5 DEF Answer
  <2>2. DOMAIN answer = 1 .. 1
    BY <2>1
  <2>3. DOMAIN words = 1 .. 1
    BY <1>1, <2>2
  <2>4. words \in Seq(Reply)
    BY AnswerTypes
  <2>5. Len(words) = 1
    BY <2>3, <2>4
  <2> QED
    BY <2>5
<1> QED
  BY <1>3, <1>4, <1>5 DEF Request

LEMMA StoringOfServe ==
    ASSUME TInv, OneAtATime, [Next]_vars, NEW t \in ISEs, pc[t] # "idle", NEW j \in Instances, Serve(j),
           NEW i \in Instances, NEW s \in Sockets, NEW r \in Sockets, s = SocketOf(i), r[1] = i,
           Exchange(s), InStepOn(s, i), StoringOn(t, i, r)
    PROVE  StoringOn(t, i, r)'
<1>1. PICK q, set, evicted : Serves(j, q, set, evicted)
  BY ServeServes
<1>2. pc' = pc /\ local' = local /\ stored[i] \subseteq stored'[i]
  BY <1>1, StoredGrows DEF Serves, threads
<1>3. \A u \in Sockets : u # <<j, peer[j]>> => replies'[u] = replies[u]
  BY <1>1 DEF Serves, TInv, Types
<1>4. CASE replies'[r] = replies[r]
  BY <1>2, <1>4 DEF StoringOn
<1>5. CASE replies'[r] # replies[r]
  <2>1. r = <<j, peer[j]>> /\ j = i
    BY <1>3, <1>5
  <2>2. Serves(i, q, set, evicted)
    BY <1>1, <2>1
  <2>3. <<i, peer[i]>> = s /\ r = s
    BY <2>1, <2>2, ServesRequest
  <2>4. /\ requests[s] = <<q>> /\ q \in Request /\ set \in {"OK", "FAILED", "NEED_COMPACTION"}
        /\ replies'[s] = AnswerReplies(q.thread, Answer(i, q, set))
    BY <2>2, ExchangeAfterServe
  <2>5. requests[s][1] = q /\ requests[s] # << >>
    BY <2>4
  <2>6. AskedFor(q, i)
    BY <2>5 DEF InStepOn
  <2>7. stored'[i] = IF q.op = "STORE" THEN stored[i] \cup ({q.key} \cap held[i]) ELSE stored[i]
    BY <2>2 DEF Serves, TInv, Types
  <2>8. ASSUME local[t].op = "STORE", Len(replies'[r]) = 2, replies'[r][1].word = "OK"
        PROVE  local[t].key \in stored'[i]
    <3>1. q.op \in {"SET", "STORE"} /\ (q.op = "STORE" => q.key \in held[i])
      BY <2>3, <2>4, <2>8, AnswerStores
    <3>2. q.op = local[t].op /\ q.key = local[t].key
      BY <2>4, <2>6, <3>1, AskerHasTheTurn
    <3> QED
      BY <2>7, <2>8, <3>1, <3>2
  <2> QED
    BY <1>2, <2>8 DEF StoringOn
<1> QED
  BY <1>4, <1>5

\* The new socket of an instance that comes back is empty.
LEMMA StoringOfCreate ==
    ASSUME TInv, NEW t \in ISEs, pc[t] # "idle", NEW j \in Instances, CheckIfExistsOrCreate(j), Storing(t)
    PROVE  Storing(t)'
<1>1. pc' = pc /\ local' = local /\ replies' = replies /\ stored' = stored
  BY DEF CheckIfExistsOrCreate, threads, wires
<1>2. socket_id' = [socket_id EXCEPT ![j] = registering[j]]
  BY DEF CheckIfExistsOrCreate
<1>3. PICK i : i = local[t].selected
  OBVIOUS
<1>4. local'[t].selected = i
  BY <1>1, <1>3
<1>5. PICK r : r = Source(t)
  OBVIOUS
<1>6. PICK m : m = Source(t)'
  OBVIOUS
<1>7. StoringOn(t, i, r)
  BY <1>3, <1>5, StoringNow
<1>8. pc[t] = "receive" => m = r \/ replies[m] = << >>
  <2>1. ASSUME pc[t] = "receive", m # r PROVE replies[m] = << >>
    <3>1. i \in Instances
      BY <1>3, <2>1 DEF TInv, Control, Chosen, Threads
    <3>2. j = i /\ m = <<i, registering[i]>>
      <4>1. j = i
        BY <1>1, <1>2, <1>3, <1>5, <1>6, <2>1, <3>1 DEF Source, RecvSocket, TInv, Types
      <4>2. socket_id'[i] = registering[i]
        BY <1>2, <3>1, <4>1 DEF TInv, Types
      <4> QED
        BY <1>1, <1>3, <1>5, <1>6, <2>1, <4>1, <4>2 DEF Source, RecvSocket
    <3>3. registering[i] = accepted[i] /\ socket_id[i] < accepted[i] /\ accepted[i] # 0
          /\ accepted[i] \in Nat /\ accepted[i] <= MaxConnections[i]
      BY <3>1, <3>2 DEF CheckIfExistsOrCreate, TInv, Types, Connections, Connected
    <3>4. m \in Sockets
      BY <3>1, <3>2, <3>3, PairIsSocket
    <3> QED
      BY <3>2, <3>3, <3>4 DEF TInv, Connections
  <2> QED
    BY <2>1
<1>9. Len(<< >>) # 2
  OBVIOUS
<1>10. StoringOn(t, i, m)'
  BY <1>1, <1>7, <1>8, <1>9 DEF StoringOn
<1> QED
  BY <1>4, <1>6, <1>10, StoringNext

LEMMA StoringOfRuns ==
    ASSUME TInv, OneAtATime, NEW t \in ISEs, Runs(t),
           \A s \in Sockets : Exchange(s), \A i \in Instances : socket_id[i] # 0 => InStep(i), Storing(t)
    PROVE  Storing(t)'
<1>1. t \in Threads /\ t # console
  BY CoordinatorAssumption DEF Threads
<1>2. PICK i : i = local[t].selected
  OBVIOUS
<1>3. PICK r : r = Source(t)
  OBVIOUS
<1>4. StoringOn(t, i, r)
  BY <1>2, <1>3, StoringNow
<1>5. CASE SendToInstance(t)
  <2>1. i \in Instances /\ socket_id[i] # 0
    <3>1. i \in Instances
      BY <1>1, <1>2, <1>5 DEF SendToInstance, TInv, Control, Chosen
    <3> QED
      BY <1>1, <1>2, <3>1 DEF TInv, Connections
  <2>2. PICK s \in Sockets : s = SocketOf(i)
    BY <2>1, SocketOfIsSocket DEF TInv
  <2>3. /\ pc[t] = "send" /\ stored' = stored /\ socket_id' = socket_id /\ Goes(t, "receive")
        /\ Asks(t, i, local[t].op, local[t].key)
    BY <1>2, <1>5 DEF SendToInstance, others, instances
  <2>4. pc'[t] = "receive" /\ local'[t].selected = i /\ local'[t].socket \in {0, socket_id[i]}
    BY <1>1, <2>1, <2>3, GoesTo, AsksLocal
  <2>5. s = Source(t)'
    BY <2>2, <2>3, <2>4 DEF SocketOf, Source, RecvSocket
  <2>6. replies' = replies
    BY <2>3 DEF Asks, SendTo
  <2>7. ~ (Len(replies[s]) = 2 /\ replies[s][1].word = "OK")
    <3>1. \A u \in ISEs : pc[u] # "receive"
      BY <2>3 DEF OneAtATime
    <3>2. Exchange(s) /\ InStepOn(s, i)
      BY <2>1, <2>2, InStepIsOnSocket
    <3> QED
      BY <2>1, <3>1, <3>2, NobodyIsTold
  <2>8. StoringOn(t, i, s)'
    BY <2>4, <2>6, <2>7 DEF StoringOn
  <2> QED
    BY <2>4, <2>5, <2>8, StoringNext
<1>6. CASE ReceiveResult(t)
  <2>1. pc[t] = "receive" /\ stored' = stored
    BY <1>6 DEF ReceiveResult, others, instances
  <2>2. CASE Received(r, 2) /\ Goes(t, "locate") /\ Result(t, Head(replies[r]).word)
    <3>1. /\ pc'[t] = "locate" /\ local'[t].result = Head(replies[r]).word /\ local'[t].selected = i
          /\ local'[t].op = local[t].op /\ local'[t].key = local[t].key
      BY <1>1, <1>2, <2>2, GoesTo, ResultLocal
    <3>2. i \in Instances /\ r \in Sockets
      <4>1. i \in Instances
        BY <1>1, <1>2, <2>1 DEF TInv, Control, Chosen
      <4> QED
        BY <1>1, <1>2, <1>3, <4>1, SourceIsSocket
    <3>3. Len(replies[r]) = 2 /\ Head(replies[r]) = replies[r][1]
      <4>1. replies[r] \in Seq(Reply) /\ Len(replies[r]) >= 2 /\ Len(replies[r]) <= 2
        BY <2>2, <3>2 DEF TInv, Types, Received, Exchange
      <4>2. Len(replies[r]) \in Nat /\ \A m \in Nat : m >= 2 /\ m <= 2 => m = 2
        BY <4>1
      <4>3. replies[r] # << >>
        BY <4>1
      <4> QED
        BY <4>1, <4>2, <4>3, HeadIn
    <3>4. PICK m : m = Source(t)'
      OBVIOUS
    <3>5. StoringOn(t, i, m)'
      BY <1>4, <2>1, <3>1, <3>2, <3>3 DEF StoringOn
    <3> QED
      BY <3>1, <3>4, <3>5, StoringNext
  <2>3. CASE Goes(t, "close") /\ Result(t, "KEY_UNREACHABLE")
    BY <1>1, <2>3, GoesTo, ResultLocal, StoringAway
  <2> QED
    BY <1>3, <1>6, <2>2, <2>3 DEF ReceiveResult
<1>7. CASE Locate(t)
  <2>1. pc[t] = "locate" /\ local' = local /\ stored' = stored /\ \E where \in {"order", "close"} : Goes(t, where)
    BY <1>7 DEF Locate, others, instances
  <2>2. pc'[t] \in {"order", "close"}
    BY <1>1, <2>1, GoesTo
  <2>3. PICK m : m = Source(t)'
    OBVIOUS
  <2>4. StoringOn(t, i, m)'
    BY <1>4, <2>1, <2>2 DEF StoringOn
  <2> QED
    BY <1>2, <2>1, <2>3, <2>4, StoringNext
<1>8. ASSUME ~SendToInstance(t), ~ReceiveResult(t), ~Locate(t) PROVE Storing(t)'
  <2>1. CASE \E where \in {"validation", "select", "look", "health", "send", "filter", "await", "inform", "idle"} :
               Goes(t, where)
    BY <1>1, <2>1, GoesTo, StoringAway
  <2>2. CASE Goes(t, "close") /\ Result(t, "KEY_UNREACHABLE")
    BY <1>1, <2>2, GoesTo, ResultLocal, StoringAway
  <2>3. CASE pc' = pc /\ pc[t] \in {"look", "await"}
    BY <2>3, StoringAway
  <2>4. ASSUME NotifyPlanifier(t) \/ Validation(t) \/ Select(t) \/ LookForInstance(t) \/ HealthCheck(t)
        PROVE  Storing(t)'
    BY <2>1, <2>2, <2>3, <2>4 DEF NotifyPlanifier, Validation, Select, LookForInstance, HealthCheck, Ends
  <2>5. ASSUME OrderCompaction(t) \/ FilterAgain(t) \/ AwaitCompaction(t) \/ Retry(t) \/ Close(t) \/ Inform(t)
        PROVE  Storing(t)'
    BY <2>1, <2>2, <2>3, <2>5 DEF OrderCompaction, FilterAgain, AwaitCompaction, Retry, Close, Inform, Ends
  <2> QED
    BY <1>8, <2>4, <2>5 DEF Runs
<1> QED
  BY <1>5, <1>6, <1>7, <1>8

LEMMA StoringStep ==
    ASSUME TInv, OneAtATime, [Next]_vars, Exchanges, NEW t \in ISEs, Storing(t)
    PROVE  Storing(t)'
<1>1. t \in Threads
  BY DEF Threads
<1>2. CASE pc[t] = "idle"
  <2>1. pc'[t] \in {"idle", "notify"}
    BY <1>2, IdleMoves
  <2> QED
    BY <2>1, StoringAway
<1>3. CASE Runs(t)
  BY <1>3, StoringOfRuns DEF Exchanges
<1>4. CASE \E j \in Instances : CheckIfExistsOrCreate(j)
  BY <1>2, <1>4, StoringOfCreate
<1>5. ASSUME pc[t] # "idle", ~Runs(t), ~ \E j \in Instances : CheckIfExistsOrCreate(j)
      PROVE  Storing(t)'
  <2>1. /\ pc'[t] = pc[t] /\ local'[t] = local[t] /\ socket_id' = socket_id
        /\ \/ \E j \in Instances : Serve(j)
           \/ replies' = replies /\ stored' = stored
           \/ Bystanders(t) /\ (Reading \/ Sending)
    <3>1. CASE \E j \in Instances : Serve(j) \/ Dies(j) \/ Connects(j)
      BY <3>1 DEF Serve, Dies, Connects, threads, list, wires
    <3>2. CASE ~ \E j \in Instances : Serve(j) \/ Dies(j) \/ Connects(j)
      BY <1>5, <3>2, BesideTheTurn DEF Bystanders
    <3> QED
      BY <3>1, <3>2
  <2>2. PICK i : i = local[t].selected
    OBVIOUS
  <2>3. PICK r : r = Source(t)
    OBVIOUS
  <2>4. i = local'[t].selected /\ r = Source(t)'
    BY <2>1, <2>2, <2>3 DEF Source, RecvSocket
  <2>5. StoringOn(t, i, r)
    BY <2>2, <2>3, StoringNow
  <2>6. pc[t] = "receive" => i \in Instances /\ socket_id[i] # 0 /\ r \in Sockets /\ r[1] = i
    <3>1. pc[t] = "receive" => i \in Instances
      BY <1>1, <2>2 DEF TInv, Control, Chosen
    <3> QED
      BY <1>1, <2>2, <2>3, <3>1, SourceIsSocket
  <2>7. CASE replies' = replies /\ stored' = stored
    <3>1. StoringOn(t, i, r)'
      BY <2>1, <2>5, <2>7 DEF StoringOn
    <3> QED
      BY <2>4, <3>1, StoringNext
  <2>8. CASE Bystanders(t) /\ (Reading \/ Sending)
    <3>1. r \in Sockets => Exchange(r)
      BY DEF Exchanges
    <3>2. StoringOn(t, i, r)'
      BY <2>5, <2>6, <2>8, <3>1, StoringBeside
    <3> QED
      BY <2>4, <3>2, StoringNext
  <2>9. ASSUME NEW j \in Instances, Serve(j) PROVE Storing(t)'
    <3>1. CASE pc[t] = "receive"
      <4>1. PICK s : s = SocketOf(i)
        OBVIOUS
      <4>2. s \in Sockets
        BY <2>6, <3>1, <4>1, SocketOfIsSocket DEF TInv
      <4>3. Exchange(s) /\ InStepOn(s, i)
        BY <2>6, <3>1, <4>1, <4>2, InStepIsOnSocket DEF Exchanges
      <4>4. StoringOn(t, i, r)'
        BY <1>5, <2>5, <2>6, <2>9, <3>1, <4>1, <4>2, <4>3, StoringOfServe
      <4> QED
        BY <2>4, <4>4, StoringNext
    <3>2. CASE pc[t] # "receive"
      <4>1. i \in Instances => stored[i] \subseteq stored'[i]
        BY StoredGrows
      <4>2. StoringOn(t, i, r)'
        BY <2>1, <2>5, <3>2, <4>1 DEF StoringOn
      <4> QED
        BY <2>4, <4>2, StoringNext
    <3> QED
      BY <3>1, <3>2
  <2> QED
    BY <2>1, <2>7, <2>8, <2>9
<1> QED
  BY <1>2, <1>3, <1>4, <1>5

-----------------------------------------------------------------------------
(* ... and the coordinator goes on taking the key to it *)

LEMMA KeptStays ==
    ASSUME TInv, [Next]_vars, NEW k \in Keys, Located(k), Kept(k), keys_location'[k] = keys_location[k],
           \A t \in ISEs : pc'[t] = "inform" /\ local'[t].key = k <=> pc[t] = "inform" /\ local[t].key = k,
           \A t \in ISEs : pc[t] = "inform" /\ local[t].key = k => local'[t].selected = local[t].selected
    PROVE  Kept(k)'
<1>1. \A i \in Instances : stored[i] \subseteq stored'[i]
  BY StoredGrows
<1>2. keys_location[k] # << >> => keys_location[k][1] \in Instances
  BY DEF Located
<1>3. \A t \in ISEs : local[t].selected \in Instances \cup {NULL}
  BY DEF TInv, Types, Threads, Local
<1>4. ASSUME NEW t \in ISEs, pc'[t] = "inform", local'[t].key = k, local'[t].selected # NULL
      PROVE  k \in stored'[local'[t].selected]
  <2>1. pc[t] = "inform" /\ local[t].key = k /\ local'[t].selected = local[t].selected
    BY <1>4
  <2>2. k \in stored[local[t].selected]
    BY <1>4, <2>1 DEF Kept
  <2> QED
    BY <1>1, <1>3, <1>4, <2>1, <2>2
<1>5. \/ \E t \in ISEs : pc'[t] = "inform" /\ local'[t].key = k
      \/ keys_location'[k] # << >> /\ k \in stored'[keys_location'[k][1]]
  <2>1. CASE \E t \in ISEs : pc[t] = "inform" /\ local[t].key = k
    BY <2>1
  <2>2. CASE keys_location[k] # << >> /\ k \in stored[keys_location[k][1]]
    BY <1>1, <1>2, <2>2
  <2> QED
    BY <2>1, <2>2 DEF Kept
<1> QED
  BY <1>4, <1>5 DEF Kept

\* Where a key is kept is where the ISE of the turn takes it.
LEMMA KeptWhereTaken ==
    ASSUME OneAtATime, NEW k, Located(k), Kept(k), NEW t \in ISEs,
           pc[t] \in {"locate", "close"}, local[t].key = k
    PROVE  k \in stored[local[t].selected]
<1>1. ~ \E u \in ISEs : pc[u] = "inform" /\ local[u].key = k
  BY DEF OneAtATime
<1>2. keys_location[k] # << >> /\ k \in stored[keys_location[k][1]]
  BY <1>1 DEF Kept
<1>3. pc[t] \in AfterSending
  BY Points DEF AfterSending
<1>4. local[t].selected = keys_location[k][1]
  BY <1>2, <1>3 DEF Located
<1> QED
  BY <1>2, <1>4

LEMMA PutPostaOfLocated ==
    ASSUME NEW k, Located(k), NEW i \in Instances
    PROVE  PutPosta(keys_location[k], i) # << >> /\ PutPosta(keys_location[k], i)[1] = i
<1>1. PutPosta(keys_location[k], i) = <<i>>
  BY PutPostaOne DEF Located
<1>2. \A x : <<x>> # << >> /\ <<x>>[1] = x
  OBVIOUS
<1> QED
  BY <1>1, <1>2

\* Only Close and Inform begin and end the notice of a failed key.
LEMMA InformStays ==
    ASSUME TInv, OneAtATime, [Next]_vars, NEW u \in ISEs, ~Close(u), ~Inform(u)
    PROVE  /\ pc'[u] = "inform" <=> pc[u] = "inform"
           /\ pc[u] = "inform" => local'[u] = local[u]
<1>1. u \in Threads
  BY DEF Threads
<1>2. CASE pc[u] = "idle"
  BY <1>2, IdleMoves
<1>3. CASE Runs(u)
  <2>1. pc[u] # "inform"
    BY <1>3 DEF Runs, NotifyPlanifier, Validation, Select, LookForInstance, HealthCheck, SendToInstance,
                ReceiveResult, Locate, OrderCompaction, FilterAgain, AwaitCompaction, Retry
  <2>2. CASE \E where \in {"validation", "select", "look", "health", "send", "receive", "locate", "order",
                           "filter", "await", "close", "idle"} : Goes(u, where)
    BY <1>1, <2>1, <2>2, GoesTo
  <2>3. CASE pc' = pc
    BY <2>1, <2>3
  <2>4. ASSUME NotifyPlanifier(u) \/ Validation(u) \/ Select(u) \/ LookForInstance(u) \/ HealthCheck(u)
        PROVE  (pc' = pc) \/ \E where \in {"validation", "select", "look", "health", "send", "close", "idle"} :
                                 Goes(u, where)
    BY <2>4 DEF NotifyPlanifier, Validation, Select, LookForInstance, HealthCheck, Ends
  <2>5. ASSUME SendToInstance(u) \/ ReceiveResult(u) \/ Locate(u)
        PROVE  \E where \in {"receive", "locate", "close", "order"} : Goes(u, where)
    BY <2>5 DEF SendToInstance, ReceiveResult, Locate
  <2>6. ASSUME OrderCompaction(u) \/ FilterAgain(u) \/ AwaitCompaction(u) \/ Retry(u)
        PROVE  (pc' = pc) \/ \E where \in {"filter", "await", "send", "close"} : Goes(u, where)
    BY <2>6 DEF OrderCompaction, FilterAgain, AwaitCompaction, Retry
  <2> QED
    BY <1>3, <2>2, <2>3, <2>4, <2>5, <2>6 DEF Runs
<1>4. ASSUME pc[u] # "idle", ~Runs(u) PROVE pc'[u] = pc[u] /\ local'[u] = local[u]
  <2>1. CASE \E j \in Instances : Serve(j) \/ Dies(j) \/ Connects(j) \/ CheckIfExistsOrCreate(j)
    BY <2>1 DEF Serve, Dies, Connects, CheckIfExistsOrCreate, threads
  <2>2. CASE ~ \E j \in Instances : Serve(j) \/ Dies(j) \/ Connects(j) \/ CheckIfExistsOrCreate(j)
    BY <1>4, <2>2, BesideTheTurn DEF Bystanders
  <2> QED
    BY <2>1, <2>2
<1> QED
  BY <1>2, <1>3, <1>4

\* Only those three, of an ISE, move a location.
LEMMA LocationsStay ==
    ASSUME TInv, [Next]_vars, ~ \E t \in ISEs : Locate(t) \/ Close(t) \/ Inform(t)
    PROVE  keys_location' = keys_location /\ promised' = promised /\ orphans' = orphans
<1>1. ASSUME NEW t \in ISEs, Runs(t)
      PROVE keys_location' = keys_location /\ promised' = promised /\ orphans' = orphans
  <2>1. CASE NotifyPlanifier(t) \/ Validation(t) \/ Select(t) \/ LookForInstance(t) \/ HealthCheck(t)
    BY <2>1 DEF NotifyPlanifier, Validation, Select, LookForInstance, HealthCheck, others, history, dictionary
  <2>2. CASE SendToInstance(t) \/ ReceiveResult(t) \/ OrderCompaction(t) \/ FilterAgain(t)
    BY <2>2 DEF SendToInstance, ReceiveResult, OrderCompaction, FilterAgain, others, history, dictionary
  <2>3. CASE AwaitCompaction(t) \/ Retry(t)
    BY <2>3 DEF AwaitCompaction, Retry, others, history, dictionary
  <2> QED
    BY <1>1, <2>1, <2>2, <2>3 DEF Runs
<1>2. ASSUME Runs(console) PROVE keys_location' = keys_location /\ promised' = promised /\ orphans' = orphans
  BY <1>2, ConsoleRuns
<1>3. ASSUME NEW t \in ISEs, ReceiveSentence(t)
      PROVE keys_location' = keys_location /\ promised' = promised /\ orphans' = orphans
  BY <1>3 DEF ReceiveSentence, history, dictionary
<1>4. AskInstance \/ AskValue \/ ReceiveValue \/ PlanifierAnswers \/ UNCHANGED vars =>
        keys_location' = keys_location /\ promised' = promised /\ orphans' = orphans
  BY DEF AskInstance, AskValue, ReceiveValue, PlanifierAnswers, vars, others, history, dictionary
<1>5. ASSUME NEW i \in Instances, Serve(i) \/ Dies(i) \/ Connects(i) \/ CheckIfExistsOrCreate(i)
      PROVE keys_location' = keys_location /\ promised' = promised /\ orphans' = orphans
  BY <1>5 DEF Serve, Dies, Connects, CheckIfExistsOrCreate, history, dictionary
<1> QED
  BY <1>1, <1>2, <1>3, <1>4, <1>5 DEF Next, Threads

\* The ISE of the turn moves the location of its own key.
LEMMA KeptOfOtherKeys ==
    ASSUME TInv, OneAtATime, [Next]_vars, NEW t \in ISEs, Locate(t) \/ Close(t) \/ Inform(t),
           NEW k \in Keys, k # local[t].key, Located(k), Kept(k)
    PROVE  Kept(k)'
<1>1. t \in Threads /\ local[t].key \in Keys /\ Runs(t)
  BY DEF Runs, Threads, TInv, Control, Locate, Close, Inform
<1>2. keys_location'[k] = keys_location[k]
  BY <1>1 DEF Locate, Close, Inform, PutBack, TInv, Types
<1>3. pc'[t] = "inform" => local'[t].key # k
  <2>1. CASE local' = local
    BY <2>1
  <2>2. CASE \E result : Ends(t, result)
    BY <1>1, <2>2, EndsLocal
  <2> QED
    BY <2>1, <2>2 DEF Locate, Close, Inform
<1>4. \A u \in ISEs : u # t => pc'[u] = pc[u] /\ local'[u] = local[u]
  BY <1>1, OtherThreads DEF Threads
<1>5. \A u \in ISEs : pc'[u] = "inform" /\ local'[u].key = k <=> pc[u] = "inform" /\ local[u].key = k
  BY <1>3, <1>4
<1>6. \A u \in ISEs : pc[u] = "inform" /\ local[u].key = k => local'[u].selected = local[u].selected
  BY <1>4
<1> QED
  BY <1>2, <1>5, <1>6, KeptStays

LEMMA KeptOfLocate ==
    ASSUME TInv, OneAtATime, NEW t \in ISEs, Locate(t), NEW k \in Keys, k = local[t].key, Located(k), Kept(k)
    PROVE  Kept(k)'
<1>1. PICK i : i = local[t].selected
  OBVIOUS
<1>2. t \in Threads /\ pc[t] = "locate" /\ i \in Instances
  BY <1>1 DEF Locate, Threads, TInv, Control, Chosen
<1>3. /\ keys_location' = [keys_location EXCEPT ![k] = PutPosta(@, i)] /\ stored' = stored
      /\ \E where \in {"order", "close"} : Goes(t, where)
  BY <1>1 DEF Locate, others, instances
<1>4. k \in stored'[i]
  BY <1>1, <1>2, <1>3, KeptWhereTaken
<1>5. keys_location'[k] = PutPosta(keys_location[k], i)
  BY <1>3 DEF TInv, Types
<1>6. keys_location'[k] # << >> /\ keys_location'[k][1] = i
  BY <1>2, <1>5, PutPostaOfLocated
<1>7. \A u \in ISEs : pc'[u] # "inform"
  <2>1. pc'[t] # "inform" /\ \A u \in Threads : u # t => pc'[u] = pc[u]
    BY <1>2, <1>3, GoesTo
  <2>2. \A u \in ISEs : u # t => pc[u] = "idle"
    BY <1>2 DEF OneAtATime
  <2> QED
    BY <2>1, <2>2 DEF Threads
<1> QED
  BY <1>4, <1>6, <1>7 DEF Kept

\* What is put back, of a key that is on the disk of the instance selected.
LEMMA KeptOfPutBack ==
    ASSUME TInv, OneAtATime, NEW t \in ISEs, pc[t] # "idle", PutBack(t), stored' = stored,
           NEW result, Ends(t, result),
           NEW k \in Keys, k = local[t].key, Located(k), k \notin orphans',
           local[t].selected # NULL => k \in stored[local[t].selected]
    PROVE  Kept(k)'
<1>1. PICK i : i = local[t].selected
  OBVIOUS
<1>2. t \in Threads /\ local[t].selected \in Instances \cup {NULL}
  BY DEF TInv, Types, Threads, Local
<1>3. i \in Instances
  BY <1>1, <1>2 DEF PutBack
<1>4. i # NULL
  BY <1>3, CoordinatorAssumption
<1>5. keys_location'[k] = PutPosta(keys_location[k], i)
  BY <1>1 DEF PutBack, TInv, Types
<1>6. keys_location'[k] # << >> /\ keys_location'[k][1] = i
  BY <1>3, <1>5, PutPostaOfLocated
<1>7. \A u \in ISEs : pc'[u] # "inform"
  <2>1. pc'[t] = "idle" /\ \A u \in Threads : u # t => pc'[u] = pc[u]
    BY <1>2, GoesTo DEF Ends
  <2>2. \A u \in ISEs : u # t => pc[u] = "idle"
    BY DEF OneAtATime
  <2> QED
    BY <2>1, <2>2 DEF Threads
<1> QED
  BY <1>1, <1>4, <1>6, <1>7 DEF Kept

LEMMA KeptOfClose ==
    ASSUME TInv, OneAtATime, NEW t \in ISEs, Close(t), NEW k \in Keys, k = local[t].key, Located(k),
           k \notin orphans', k \in promised', k \in promised => Kept(k), Storing(t)
    PROVE  Kept(k)'
<1>1. t \in Threads /\ pc[t] = "close" /\ stored' = stored
  BY DEF Close, Threads, instances
<1>2. k \in promised => k \in stored[local[t].selected]
  BY <1>1, KeptWhereTaken
<1>3. CASE local[t].result = "KEY_UNREACHABLE"
  <2>1. pc'[t] = "inform" /\ local' = local /\ promised' = promised
    BY <1>1, <1>3, GoesTo DEF Close
  <2>2. \A u \in ISEs : u # t => pc'[u] = "idle"
    <3>1. \A u \in Threads : u # t => pc'[u] = pc[u]
      BY <1>1, <1>3, GoesTo DEF Close
    <3> QED
      BY <1>1, <3>1 DEF OneAtATime, Threads
  <2>3. k \in stored'[local'[t].selected]
    BY <1>1, <1>2, <2>1
  <2> QED
    BY <2>1, <2>2, <2>3 DEF Kept
<1>4. CASE local[t].result # "KEY_UNREACHABLE"
  <2>1. /\ PutBack(t) /\ Ends(t, local[t].result)
        /\ promised' = IF local[t].op = "STORE" /\ local[t].result = "OK"
                       THEN promised \cup {local[t].key} ELSE promised
    BY <1>4 DEF Close
  <2>2. k \in stored[local[t].selected]
    <3>1. CASE k \in promised
      BY <1>2, <3>1
    <3>2. CASE local[t].op = "STORE" /\ local[t].result = "OK"
      BY <1>1, <3>2 DEF Storing, StoringOn
    <3> QED
      BY <2>1, <3>1, <3>2
  <2> QED
    BY <1>1, <2>1, <2>2, KeptOfPutBack
<1> QED
  BY <1>3, <1>4

LEMMA KeptOfInform ==
    ASSUME TInv, OneAtATime, NEW t \in ISEs, Inform(t), NEW k \in Keys, k = local[t].key, Located(k),
           k \notin orphans', Kept(k)
    PROVE  Kept(k)'
<1>1. pc[t] = "inform" /\ stored' = stored /\ PutBack(t) /\ Ends(t, local[t].result)
  BY DEF Inform, instances
<1>2. local[t].selected # NULL => k \in stored[local[t].selected]
  BY <1>1 DEF Kept
<1> QED
  BY <1>1, <1>2, KeptOfPutBack

LEMMA PromisesStep ==
    ASSUME TInv, Types', OneAtATime, Owners, [Next]_vars, \A t \in ISEs : Storing(t), Promises
    PROVE  Promises'
<1> SUFFICES ASSUME NEW k \in promised', k \notin orphans' PROVE Kept(k)'
  BY DEF Promises
<1>1. CASE \E t \in ISEs : Locate(t) \/ Close(t) \/ Inform(t)
  <2>1. PICK t \in ISEs : Locate(t) \/ Close(t) \/ Inform(t)
    BY <1>1
  <2>2. local[t].key \in Keys /\ t \in Threads
    BY <2>1 DEF TInv, Control, Locate, Close, Inform, Threads
  <2>3. /\ k \in Keys /\ orphans \subseteq orphans'
        /\ k \in promised \/ (Close(t) /\ k = local[t].key)
    <3>1. Locate(t) => promised' = promised /\ orphans' = orphans
      BY DEF Locate, others, history
    <3>2. Close(t) \/ Inform(t) => orphans \subseteq orphans'
      BY DEF Close, Inform, PutBack
    <3>3. Inform(t) => promised' = promised
      BY DEF Inform
    <3>4. Close(t) => promised' \subseteq promised \cup {local[t].key}
      BY DEF Close
    <3>5. k \in Keys
      BY DEF Types
    <3> QED
      BY <2>1, <3>1, <3>2, <3>3, <3>4, <3>5
  <2>4. Located(k) /\ (k \in promised => Kept(k))
    BY <2>3 DEF Owners, Promises
  <2>5. CASE k # local[t].key
    BY <2>1, <2>3, <2>4, <2>5, KeptOfOtherKeys
  <2>6. CASE k = local[t].key
    <3>1. CASE Close(t)
      BY <2>3, <2>4, <2>6, <3>1, KeptOfClose
    <3>2. CASE Locate(t)
      <4>1. pc[t] = "locate"
        BY <3>2 DEF Locate
      <4>2. ~Close(t)
        BY <4>1 DEF Close
      <4> QED
        BY <2>3, <2>4, <2>6, <3>2, <4>2, KeptOfLocate
    <3>3. CASE Inform(t)
      <4>1. pc[t] = "inform"
        BY <3>3 DEF Inform
      <4>2. ~Close(t)
        BY <4>1 DEF Close
      <4> QED
        BY <2>3, <2>4, <2>6, <3>3, <4>2, KeptOfInform
    <3> QED
      BY <2>1, <3>1, <3>2, <3>3
  <2> QED
    BY <2>5, <2>6
<1>2. CASE ~ \E t \in ISEs : Locate(t) \/ Close(t) \/ Inform(t)
  <2>1. keys_location' = keys_location /\ promised' = promised /\ orphans' = orphans
    BY <1>2, LocationsStay
  <2>2. k \in Keys /\ Located(k) /\ Kept(k)
    BY <2>1 DEF Types, Owners, Promises
  <2>3. \A u \in ISEs : pc'[u] = "inform" <=> pc[u] = "inform"
    BY <1>2, InformStays
  <2>4. \A u \in ISEs : pc[u] = "inform" => local'[u] = local[u]
    BY <1>2, InformStays
  <2> QED
    BY <2>1, <2>2, <2>3, <2>4, KeptStays
<1> QED
  BY <1>1, <1>2

StoringInv ==
    /\ ExchangesInv /\ Owners
    /\ ~crossed => (\A t \in ISEs : Storing(t)) /\ Promises

LEMMA StoringInvInit == Init => StoringInv
<1> SUFFICES ASSUME Init PROVE StoringInv
  OBVIOUS
<1>1. ExchangesInv /\ Owners
  BY ExchangesInvInit, OwnersInvInit DEF OwnersInv
<1>2. ASSUME NEW t \in ISEs PROVE Storing(t)
  <2>1. pc[t] = "idle"
    BY DEF Init, Threads
  <2> QED
    BY <2>1 DEF Storing, StoringOn
<1>3. Promises
  BY DEF Init, Promises
<1> QED
  BY <1>1, <1>2, <1>3 DEF StoringInv

LEMMA StoringInvStep ==
    ASSUME MayInterrupt = {} PROVE StoringInv /\ [Next]_vars => StoringInv'
<1> SUFFICES ASSUME StoringInv, [Next]_vars PROVE StoringInv'
  OBVIOUS
<1>1. ExchangesInv /\ ExchangesInv' /\ TInv /\ TInv' /\ OneAtATime /\ Owners
  BY ExchangesInvStep DEF StoringInv, ExchangesInv
<1>2. Owners'
  BY <1>1, OwnersStep
<1>3. ASSUME ~crossed' PROVE (\A t \in ISEs : Storing(t)') /\ Promises'
  <2>1. ~crossed
    BY <1>3, CrossedStays
  <2>2. Exchanges /\ (\A t \in ISEs : Storing(t)) /\ Promises
    BY <1>1, <2>1 DEF StoringInv, ExchangesInv
  <2>3. \A t \in ISEs : Storing(t)'
    BY <1>1, <2>2, StoringStep
  <2>4. Promises'
    BY <1>1, <2>2, PromisesStep DEF TInv
  <2> QED
    BY <2>3, <2>4
<1> QED
  BY <1>1, <1>2, <1>3 DEF StoringInv

LEMMA StoringInvImplies == StoringInv => StoredIsFound
<1> SUFFICES ASSUME StoringInv, ~crossed, NEW k \in promised, k \notin orphans,
                    \A t \in Threads : pc[t] = "inform" => local[t].key # k
             PROVE  Location(k) # NULL /\ k \in stored[Location(k)]
  BY DEF StoredIsFound
<1>1. k \in Keys
  BY DEF StoringInv, ExchangesInv, TInv, Types
<1>2. Located(k) /\ Kept(k)
  BY <1>1 DEF StoringInv, Owners, Promises
<1>3. keys_location[k] # << >> /\ k \in stored[keys_location[k][1]]
  BY <1>2 DEF Kept, Threads
<1>4. PICK j \in Instances : keys_location[k] = <<j>>
  BY <1>2, <1>3 DEF Located
<1>5. \A x : Head(<<x>>) = x /\ <<x>>[1] = x
  OBVIOUS
<1>6. Location(k) = j
  BY <1>3, <1>4, <1>5 DEF Location
<1> QED
  BY <1>3, <1>4, <1>5, <1>6, CoordinatorAssumption

\* A STORE that was answered OK is on the disk of the instance where the coordinator goes on
\* taking the key, for any failures after (coordinator.c, process_sentence: the location is put
\* back at the instance selected, whatever the result).
THEOREM StoredKeysAreFound ==
    ASSUME MayInterrupt = {} PROVE Spec => []StoredIsFound
<1>1. Init => StoringInv
  BY StoringInvInit
<1>2. StoringInv /\ [Next]_vars => StoringInv'
  BY StoringInvStep
<1>3. StoringInv => StoredIsFound
  BY StoringInvImplies
<1> QED
  BY <1>1, <1>2, <1>3, PTL DEF Spec

-----------------------------------------------------------------------------
(* The planifier's socket *)

AtPlanifier(t) == pc[t] \in {"validation", "inform"}

\* One question is out, of the ISE that waits for its answer.
Asking ==
    /\ \A t \in ISEs : AtPlanifier(t) =>
          \/ answers = << >> /\ \E q \in Question : asked = <<q>> /\ q.thread = t
          \/ asked = << >> /\ \E a \in Verdict : answers = <<a>> /\ a.thread = t
    /\ (\A t \in ISEs : ~AtPlanifier(t)) => asked = << >> /\ answers = << >>

LEMMA AtPlanifierStays ==
    ASSUME TInv, OneAtATime, [Next]_vars, NEW u \in ISEs,
           ~NotifyPlanifier(u), ~Validation(u), ~Close(u), ~Inform(u)
    PROVE  AtPlanifier(u)' <=> AtPlanifier(u)
<1>1. u \in Threads
  BY DEF Threads
<1>2. CASE pc[u] = "idle"
  BY <1>2, IdleMoves DEF AtPlanifier
<1>3. CASE Runs(u)
  <2>1. pc[u] \notin {"validation", "inform"}
    BY <1>3 DEF Runs, Select, LookForInstance, HealthCheck, SendToInstance, ReceiveResult, Locate,
                OrderCompaction, FilterAgain, AwaitCompaction, Retry
  <2>2. CASE \E where \in {"look", "health", "send", "receive", "locate", "order", "filter", "await", "close",
                           "idle"} : Goes(u, where)
    BY <1>1, <2>1, <2>2, GoesTo DEF AtPlanifier
  <2>3. CASE pc' = pc
    BY <2>1, <2>3 DEF AtPlanifier
  <2>4. ASSUME Select(u) \/ LookForInstance(u) \/ HealthCheck(u)
        PROVE  (pc' = pc) \/ \E where \in {"look", "health", "send", "close", "idle"} : Goes(u, where)
    BY <2>4 DEF Select, LookForInstance, HealthCheck, Ends
  <2>5. ASSUME SendToInstance(u) \/ ReceiveResult(u) \/ Locate(u)
        PROVE  \E where \in {"receive", "locate", "close", "order"} : Goes(u, where)
    BY <2>5 DEF SendToInstance, ReceiveResult, Locate
  <2>6. ASSUME OrderCompaction(u) \/ FilterAgain(u) \/ AwaitCompaction(u) \/ Retry(u)
        PROVE  (pc' = pc) \/ \E where \in {"filter", "await", "send", "close"} : Goes(u, where)
    BY <2>6 DEF OrderCompaction, FilterAgain, AwaitCompaction, Retry
  <2> QED
    BY <1>3, <2>2, <2>3, <2>4, <2>5, <2>6 DEF Runs
<1>4. ASSUME pc[u] # "idle", ~Runs(u) PROVE pc'[u] = pc[u]
  <2>1. CASE \E j \in Instances : Serve(j) \/ Dies(j) \/ Connects(j) \/ CheckIfExistsOrCreate(j)
    BY <2>1 DEF Serve, Dies, Connects, CheckIfExistsOrCreate, threads
  <2>2. CASE ~ \E j \in Instances : Serve(j) \/ Dies(j) \/ Connects(j) \/ CheckIfExistsOrCreate(j)
    BY <1>4, <2>2, BesideTheTurn DEF Bystanders
  <2> QED
    BY <2>1, <2>2
<1> QED
  BY <1>2, <1>3, <1>4 DEF AtPlanifier

LEMMA PlanifierStays ==
    ASSUME TInv, [Next]_vars, ~PlanifierAnswers,
           ~ \E t \in ISEs : NotifyPlanifier(t) \/ Validation(t) \/ Close(t) \/ Inform(t)
    PROVE  asked' = asked /\ answers' = answers
<1>1. ASSUME NEW t \in Threads, Runs(t) PROVE asked' = asked /\ answers' = answers
  <2>1. t = console => Select(t) \/ LookForInstance(t) \/ HealthCheck(t)
    BY <1>1, ConsoleRuns
  <2>2. CASE Select(t) \/ LookForInstance(t) \/ HealthCheck(t) \/ SendToInstance(t) \/ ReceiveResult(t)
    BY <2>2 DEF Select, LookForInstance, HealthCheck, SendToInstance, ReceiveResult, planifier
  <2>3. CASE Locate(t) \/ OrderCompaction(t) \/ FilterAgain(t) \/ AwaitCompaction(t) \/ Retry(t)
    BY <2>3 DEF Locate, OrderCompaction, FilterAgain, AwaitCompaction, Retry, planifier
  <2> QED
    BY <1>1, <2>1, <2>2, <2>3 DEF Runs, Threads
<1>2. ASSUME NEW t \in ISEs, ReceiveSentence(t) PROVE asked' = asked /\ answers' = answers
  BY <1>2 DEF ReceiveSentence, planifier
<1>3. AskInstance \/ AskValue \/ ReceiveValue \/ UNCHANGED vars => asked' = asked /\ answers' = answers
  BY DEF AskInstance, AskValue, ReceiveValue, vars, planifier
<1>4. ASSUME NEW i \in Instances, Serve(i) \/ Dies(i) \/ Connects(i) \/ CheckIfExistsOrCreate(i)
      PROVE asked' = asked /\ answers' = answers
  BY <1>4 DEF Serve, Dies, Connects, CheckIfExistsOrCreate, planifier
<1> QED
  BY <1>1, <1>2, <1>3, <1>4 DEF Next

LEMMA AskingStep ==
    ASSUME TInv, OneAtATime, Asking, [Next]_vars PROVE Asking'
<1>0. \A x : Append(<< >>, x) = <<x>> /\ Tail(<<x>>) = << >> /\ Head(<<x>>) = x /\ <<x>> # << >>
  OBVIOUS
<1>1. CASE \E t \in ISEs : NotifyPlanifier(t) \/ Validation(t) \/ Close(t) \/ Inform(t)
  <2>1. PICK t \in ISEs : NotifyPlanifier(t) \/ Validation(t) \/ Close(t) \/ Inform(t)
    BY <1>1
  <2>2. t \in Threads /\ pc[t] # "idle" /\ Runs(t)
    BY <2>1 DEF Threads, Runs, NotifyPlanifier, Validation, Close, Inform
  <2>3. \A u \in ISEs : u # t => ~AtPlanifier(u) /\ ~AtPlanifier(u)'
    <3>1. \A u \in ISEs : u # t => pc[u] = "idle" /\ pc'[u] = pc[u]
      BY <2>2, OtherThreads DEF OneAtATime, Threads
    <3> QED
      BY <3>1 DEF AtPlanifier
  <2>4. CASE NotifyPlanifier(t)
    <3>1. pc[t] = "notify" /\ asked' = Append(asked, [thread |-> t, op |-> local[t].op]) /\ answers' = answers
          /\ pc'[t] = "validation"
      BY <2>2, <2>4, GoesTo DEF NotifyPlanifier
    <3>2. asked = << >> /\ answers = << >>
      BY <2>3, <3>1 DEF Asking, AtPlanifier
    <3>3. PICK q : q = [thread |-> t, op |-> local[t].op]
      OBVIOUS
    <3>4. q \in Question /\ q.thread = t
      BY <2>2, <3>1, <3>3 DEF Question, TInv, Control
    <3>5. asked' = <<q>>
      BY <1>0, <3>1, <3>2, <3>3
    <3>6. AtPlanifier(t)'
      BY <3>1 DEF AtPlanifier
    <3> QED
      BY <2>3, <3>1, <3>2, <3>4, <3>5, <3>6 DEF Asking
  <2>5. CASE Validation(t)
    <3>1. pc[t] = "validation" /\ answers # << >> /\ answers' = Tail(answers) /\ asked' = asked
      BY <2>5 DEF Validation
    <3>2. Goes(t, "select") \/ Goes(t, "idle")
      BY <2>5 DEF Validation, Ends
    <3>3. ~AtPlanifier(t)'
      BY <2>2, <3>2, GoesTo DEF AtPlanifier
    <3>4. asked = << >> /\ \E a \in Verdict : answers = <<a>>
      BY <3>1 DEF Asking, AtPlanifier
    <3>5. answers' = << >>
      BY <1>0, <3>1, <3>4
    <3> QED
      BY <2>3, <3>1, <3>3, <3>4, <3>5 DEF Asking
  <2>6. CASE Close(t)
    <3>1. pc[t] = "close" /\ answers' = answers
      BY <2>6 DEF Close
    <3>2. asked = << >> /\ answers = << >>
      BY <2>3, <3>1 DEF Asking, AtPlanifier
    <3>3. CASE asked' = asked /\ Goes(t, "idle")
      <4>1. ~AtPlanifier(t)'
        BY <2>2, <3>3, GoesTo DEF AtPlanifier
      <4> QED
        BY <2>3, <3>1, <3>2, <3>3, <4>1 DEF Asking
    <3>4. CASE asked' = Append(asked, [thread |-> t, op |-> "KEY_UNREACHABLE"]) /\ Goes(t, "inform")
      <4>1. AtPlanifier(t)'
        BY <2>2, <3>4, GoesTo DEF AtPlanifier
      <4>2. PICK q : q = [thread |-> t, op |-> "KEY_UNREACHABLE"]
        OBVIOUS
      <4>3. q \in Question /\ q.thread = t
        BY <2>2, <4>2 DEF Question
      <4>4. asked' = <<q>>
        BY <1>0, <3>2, <3>4, <4>2
      <4> QED
        BY <2>3, <3>1, <3>2, <4>1, <4>3, <4>4 DEF Asking
    <3> QED
      BY <2>6, <3>3, <3>4 DEF Close, Ends
  <2>7. CASE Inform(t)
    <3>1. pc[t] = "inform" /\ answers # << >> /\ answers' = Tail(answers) /\ asked' = asked /\ Goes(t, "idle")
      BY <2>7 DEF Inform, Ends
    <3>2. ~AtPlanifier(t)'
      BY <2>2, <3>1, GoesTo DEF AtPlanifier
    <3>3. asked = << >> /\ \E a \in Verdict : answers = <<a>>
      BY <3>1 DEF Asking, AtPlanifier
    <3>4. answers' = << >>
      BY <1>0, <3>1, <3>3
    <3> QED
      BY <2>3, <3>1, <3>2, <3>3, <3>4 DEF Asking
  <2> QED
    BY <2>1, <2>4, <2>5, <2>6, <2>7
<1>2. CASE PlanifierAnswers
  <2>1. pc' = pc
    BY <1>2 DEF PlanifierAnswers, threads
  <2>2. asked # << >> /\ asked' = Tail(asked)
    BY <1>2 DEF PlanifierAnswers
  <2>3. PICK result \in {"OK", "KEY_BLOCKED"} :
          answers' = Append(answers, [thread |-> Head(asked).thread, result |-> result])
    BY <1>2 DEF PlanifierAnswers
  <2>4. PICK t \in ISEs : AtPlanifier(t)
    BY <2>2 DEF Asking
  <2>5. PICK q \in Question : asked = <<q>> /\ q.thread = t /\ answers = << >>
    BY <2>2, <2>4 DEF Asking
  <2>6. PICK a : a = [thread |-> t, result |-> result]
    OBVIOUS
  <2>7. a \in Verdict /\ a.thread = t
    BY <2>3, <2>6 DEF Verdict, Threads
  <2>8. Head(asked) = q
    BY <1>0, <2>5
  <2>9. asked' = << >> /\ answers' = <<a>>
    BY <1>0, <2>2, <2>3, <2>5, <2>6, <2>8
  <2>10. \A u \in ISEs : AtPlanifier(u)' <=> AtPlanifier(u)
    BY <2>1 DEF AtPlanifier
  <2>11. \A u \in ISEs : AtPlanifier(u) => u = t
    BY <2>4 DEF OneAtATime, AtPlanifier
  <2> QED
    BY <2>4, <2>7, <2>9, <2>10, <2>11 DEF Asking
<1>3. CASE ~PlanifierAnswers /\ ~ \E t \in ISEs : NotifyPlanifier(t) \/ Validation(t) \/ Close(t) \/ Inform(t)
  <2>1. asked' = asked /\ answers' = answers
    BY <1>3, PlanifierStays
  <2>2. \A u \in ISEs : AtPlanifier(u)' <=> AtPlanifier(u)
    BY <1>3, AtPlanifierStays
  <2> QED
    BY <2>1, <2>2 DEF Asking
<1> QED
  BY <1>1, <1>2, <1>3

AskingInv == TInv /\ OneAtATime /\ Asking

LEMMA AskingInvInit == Init => AskingInv
<1> SUFFICES ASSUME Init PROVE AskingInv
  OBVIOUS
<1>1. TInv /\ OneAtATime
  BY OwnersInvInit DEF OwnersInv
<1>2. Asking
  BY DEF Init, Asking, AtPlanifier, Threads
<1> QED
  BY <1>1, <1>2 DEF AskingInv

LEMMA AskingInvStep ==
    ASSUME MayInterrupt = {} PROVE AskingInv /\ [Next]_vars => AskingInv'
BY TInvStep, OneAtATimeStep, AskingStep DEF AskingInv

\* An ISE leaves the wait for its answer only by taking it.
LEMMA TakesItsOwn ==
    ASSUME AskingInv, [Next]_vars, NEW t \in ISEs, pc[t] = "validation", pc'[t] # "validation"
    PROVE  Head(answers).thread = t
<1>1. t \in Threads
  BY DEF Threads
<1>2. Runs(t)
  <2> SUFFICES ASSUME ~Runs(t) PROVE pc'[t] = pc[t]
    OBVIOUS
  <2>1. CASE \E j \in Instances : Serve(j) \/ Dies(j) \/ Connects(j) \/ CheckIfExistsOrCreate(j)
    BY <2>1 DEF Serve, Dies, Connects, CheckIfExistsOrCreate, threads
  <2>2. CASE ~ \E j \in Instances : Serve(j) \/ Dies(j) \/ Connects(j) \/ CheckIfExistsOrCreate(j)
    BY <2>2, BesideTheTurn DEF Bystanders, AskingInv
  <2> QED
    BY <2>1, <2>2
<1>3. Validation(t)
  BY <1>2 DEF Runs, NotifyPlanifier, Select, LookForInstance, HealthCheck, SendToInstance, ReceiveResult,
              Locate, OrderCompaction, FilterAgain, AwaitCompaction, Retry, Close, Inform
<1>4. answers # << >>
  BY <1>3 DEF Validation
<1>5. PICK a \in Verdict : answers = <<a>> /\ a.thread = t
  BY <1>4 DEF AskingInv, Asking, AtPlanifier
<1>6. \A x : Head(<<x>>) = x
  OBVIOUS
<1> QED
  BY <1>5, <1>6

\* The answers of the planifier are taken by whoever reads its one socket first, and yet each
\* ISE takes its own as long as no user interrupts one (coordinator.c, notify_sentence_and_ise_to_planifier).
THEOREM AnswersAreNotCrossed ==
    ASSUME MayInterrupt = {} PROVE Spec => AnswerIsItsOwn
<1>1. Init => AskingInv
  BY AskingInvInit
<1>2. AskingInv /\ [Next]_vars => AskingInv'
  BY AskingInvStep
<1>3. AskingInv /\ [Next]_vars =>
        [\A t \in ISEs : pc[t] = "validation" /\ pc'[t] # "validation" => Head(answers).thread = t]_vars
  BY TakesItsOwn
<1> QED
  BY <1>1, <1>2, <1>3, PTL DEF Spec, AnswerIsItsOwn
=============================================================================
