---------------------------- MODULE Coordinator -----------------------------
(***************************************************************************)
(* The coordinator between the ISEs, the planifier and the instances: what *)
(* it does with a sentence (coordinator.c, process_sentence) and with a    *)
(* question of the planifier's console (handlers.c), each in a thread of   *)
(* its own over sockets that they share, while instances fail and connect  *)
(* again.  An instance is here the keys it holds and those it has stored;  *)
(* EntryTable and Instance are its inside.  The choice of an instance is   *)
(* that of EL, seen as any available one; Distribution says which.         *)
(***************************************************************************)
EXTENDS Naturals, FiniteSets, Sequences

CONSTANTS
    Instances,
    Keys,                 \* the keys that are followed; a table may hold others
    ISEs,                 \* one thread of ise_connection_handler for each
    console,              \* the thread of key_info_request_handler
    NULL,
    MayInterrupt,         \* the ISEs whose users interrupt them in their first sentence
    MayFail,              \* the instances that may fail
    MaxSentences, MaxQueries,     \* bounds
    QueriesIn,                    \* bound: after which of the sentences the console may ask
    MaxConnections                \* of each instance

Threads == ISEs \cup {console}
\* The n-th connection of an instance.
Sockets == UNION {{i} \X (1 .. MaxConnections[i]) : i \in Instances}

ASSUME CoordinatorAssumption ==
    /\ console \notin ISEs /\ NULL \notin Instances \cup Threads
    /\ MaxSentences \in Nat /\ MaxQueries \in Nat /\ QueriesIn \subseteq Nat
    /\ MaxConnections \in [Instances -> Nat \ {0}]

VARIABLES
    keys_location,        \* the chain of values of each key in the dictionary
    keys_mtx,             \* who holds the mutex of that dictionary
    socket_id,            \* instances_thread_list: the connection of each, 0 if not in it
    is_available,
    last_instance_selected,   \* a copy: NULL or [instance, socket]
    pc, local,            \* the threads
    waiting,              \* the instances whose compaction is still awaited
    asked, answers,       \* the planifier's socket, both ways
    requests, replies,    \* the instances' sockets, both ways
    reset,                \* closed sockets on which a send can only fail
    peer,                 \* the connection of each instance's process, 0 if it is not running
    registering,          \* the connection of an instance whose handler is not done, or 0
    held, stored,             \* the keys in an instance's table, and in its files
    compact,                  \* it has had no SET since it compacted or connected
    interrupted,          \* the ISEs that are gone
    down,                 \* the coordinator has died
    sentences, queries, accepted,   \* counters of the bounds
    orphans, crossed, promised      \* history: see the properties

instances == <<peer, held, stored, compact, registering>>
list == <<socket_id, is_available, last_instance_selected>>
wires == <<requests, replies, reset, crossed>>
dictionary == <<keys_location, keys_mtx>>
planifier == <<asked, answers>>
threads == <<pc, local, waiting>>
outside == <<interrupted, sentences, queries, accepted>>
history == <<orphans, promised>>
others == <<instances, outside, history>>
vars == <<dictionary, list, threads, planifier, wires, others, down>>

-----------------------------------------------------------------------------
(* keys_location.  put_posta removes the old value of a key only if that is
   not null, and put appends: a null stays first in the chain. *)

\* Mutant: a key is looked for elsewhere once its instance is marked.
LocationIfAvailable(k) ==
    IF keys_location[k] = << >> THEN NULL
    ELSE IF Head(keys_location[k]) \in {i \in Instances : ~is_available[i]} THEN NULL
    ELSE Head(keys_location[k])

Location(k) == IF keys_location[k] = << >> THEN NULL ELSE Head(keys_location[k])

WithoutFirst(chain) == IF chain = << >> THEN << >> ELSE Tail(chain)

PutPosta(chain, i) ==
    Append(IF chain # << >> /\ Head(chain) # NULL THEN Tail(chain) ELSE chain, i)

-----------------------------------------------------------------------------
(* Sockets *)

Open(s) == peer[s[1]] = s[2]

\* Another question is on its way on the socket, or its answer is.
Busy(s) == requests[s] # << >> \/ replies[s] # << >>

\* A send to each of some sockets.  The first on a socket that the other end
\* closed is lost and makes the next one raise SIGPIPE, which nobody catches.
SendTo(t, to, op, k) ==
    /\ requests' = [s \in Sockets |-> IF s \in to /\ Open(s)
                      THEN Append(requests[s], [thread |-> t, op |-> op, key |-> k])
                      ELSE requests[s]]
    /\ reset' = reset \cup {s \in to : ~Open(s)}
    /\ down' = (to \cap reset # {})
    /\ crossed' = (crossed \/ \E s \in to : Open(s) /\ Busy(s))
    /\ UNCHANGED replies

\* A recv of n words from a socket, answered or closed.
Received(s, n) == Len(replies[s]) >= n

EndOfFile(s, n) == ~Open(s) /\ ~Received(s, n)

Take(s, n) == /\ replies' = [replies EXCEPT ![s] = SubSeq(@, n + 1, Len(@))]
              /\ UNCHANGED <<requests, reset>>

-----------------------------------------------------------------------------
(* The list of instances *)

Available == {i \in Instances : socket_id[i] # 0 /\ is_available[i]}

\* Marks an instance, and then the copy of the last one chosen, which is null
\* until a sentence has been sent.  The mark on the copy is never read.
HandleInstanceDisconnection(i) ==
    /\ is_available' = [is_available EXCEPT ![i] = FALSE]
    /\ down' = (last_instance_selected = NULL)
    /\ UNCHANGED <<socket_id, last_instance_selected>>

\* EL runs off the list when it is empty, or has no more the copied instance.
RunsOff == IF last_instance_selected = NULL
           THEN \A i \in Instances : socket_id[i] = 0
           ELSE socket_id[last_instance_selected.instance] # last_instance_selected.socket

-----------------------------------------------------------------------------
(* The threads *)

Free == [op |-> "none", key |-> NULL, selected |-> NULL, retried |-> FALSE, result |-> "none",
         socket |-> 0]

Goes(t, where) == pc' = [pc EXCEPT ![t] = where]
Result(t, result) == local' = [local EXCEPT ![t].result = result]
Selects(t, i) == local' = [local EXCEPT ![t].selected = i]
\* The sentence is answered, or the console's question.
Ends(t, result) ==
    /\ Goes(t, "idle")
    /\ local' = [local EXCEPT ![t] = [Free EXCEPT !.result = result]]

SocketOf(i) == <<i, socket_id[i]>>

\* A recv reads the list for the socket when it is called: now, or as soon as
\* the question was sent (socket is not 0), before an instance connects again.
RecvSocket(i, socket) == <<i, IF socket = 0 THEN socket_id[i] ELSE socket>>

Asks(t, i, op, k) ==
    /\ SendTo(t, {SocketOf(i)}, op, k)
    /\ \E socket \in {0, socket_id[i]} :
          local' = [local EXCEPT ![t].selected = i, ![t].socket = socket]

Source(t) == RecvSocket(local[t].selected, local[t].socket)

\* An ISE that the planifier lets run sends its next sentence.  One whose user
\* interrupts it while it waits makes way for another, and its thread only
\* notices when it has answered.
ReceiveSentence(t) ==
    /\ pc[t] = "idle" /\ t \notin interrupted /\ sentences < MaxSentences
    /\ \A u \in ISEs \ interrupted : pc[u] = "idle"
    /\ \E op \in {"GET", "SET", "STORE"}, k \in Keys :
          local' = [local EXCEPT ![t] = [Free EXCEPT !.op = op, !.key = k]]
    /\ Goes(t, "notify")
    /\ sentences' = sentences + 1
    /\ interrupted' = interrupted \cup ({t} \cap MayInterrupt)
    /\ UNCHANGED <<instances, history, wires, list, dictionary, planifier, waiting, queries, accepted,
                   down>>

\* After the delay: the sentence goes to the planifier, on the one socket.
NotifyPlanifier(t) ==
    /\ pc[t] = "notify"
    /\ asked' = Append(asked, [thread |-> t, op |-> local[t].op])
    /\ Goes(t, "validation")
    /\ UNCHANGED <<others, wires, list, dictionary, local, waiting, answers, down>>

\* The planifier answers in order; to the notice of a failed key always OK.
PlanifierAnswers ==
    /\ asked # << >>
    /\ \E result \in IF Head(asked).op = "KEY_UNREACHABLE" THEN {"OK"} ELSE {"OK", "KEY_BLOCKED"} :
          answers' = Append(answers, [thread |-> Head(asked).thread, result |-> result])
    /\ asked' = Tail(asked)
    /\ UNCHANGED <<others, wires, list, dictionary, threads, down>>

\* A thread takes the next answer on the socket, whoever it is for.
Validation(t) ==
    /\ pc[t] = "validation" /\ answers # << >>
    /\ answers' = Tail(answers)
    /\ IF Head(answers).result = "OK" /\ local[t].op # "GET"
       THEN Goes(t, "select") /\ UNCHANGED local
       ELSE Ends(t, Head(answers).result)
    /\ UNCHANGED <<others, wires, list, dictionary, waiting, asked, down>>

\* The instance that has the key; a SET of a key that nobody has looks for one.
Select(t) ==
    /\ pc[t] = "select" /\ keys_mtx = NULL
    /\ LET i == Location(local[t].key)
       IN  \/ /\ i = NULL /\ local[t].op \in {"SET", "CALCULATE_INSTANCE"}
              /\ Goes(t, "look") /\ UNCHANGED local
           \/ /\ i = NULL /\ local[t].op = "STORE"
              /\ Goes(t, "close") /\ Result(t, "KEY_UNREACHABLE")
           \/ /\ i # NULL /\ t \in ISEs
              /\ Goes(t, "send") /\ Selects(t, i)
           \/ /\ i # NULL /\ t = console
              /\ Ends(t, "INSTANCE_AVAILABLE_FOR_KEY")
    /\ UNCHANGED <<others, wires, list, dictionary, planifier, waiting, down>>

\* One turn of the loop that looks for an instance: with none available EL
\* goes round the list until one is.
LookForInstance(t) ==
    /\ pc[t] = "look"
    /\ \/ /\ RunsOff /\ down' = TRUE
          /\ UNCHANGED <<wires, pc, local>>
       \/ /\ ~RunsOff
          /\ \E i \in Available : Asks(t, i, "HEALTH_CHECK", NULL)
          /\ Goes(t, "health")
    /\ UNCHANGED <<others, list, dictionary, planifier, waiting>>

HealthCheck(t) ==
    /\ pc[t] = "health"
    /\ LET s == Source(t)
       IN  \/ /\ Received(s, 1) /\ Head(replies[s]).word = "OK" /\ Take(s, 1)
              /\ IF t = console THEN Ends(t, "INSTANCE_AVAILABLE_FOR_KEY")
                                ELSE Goes(t, "send") /\ UNCHANGED local
              /\ UNCHANGED <<list, down>>
           \/ /\ Received(s, 1) /\ Head(replies[s]).word # "OK" /\ Take(s, 1)
              /\ HandleInstanceDisconnection(local[t].selected)
              /\ Goes(t, "look") /\ UNCHANGED local
           \/ /\ EndOfFile(s, 1)
              /\ HandleInstanceDisconnection(local[t].selected)
              /\ Goes(t, "look") /\ UNCHANGED <<local, wires>>
    /\ UNCHANGED <<others, dictionary, planifier, waiting, crossed>>

SendToInstance(t) ==
    /\ pc[t] = "send"
    /\ LET i == local[t].selected
       IN  /\ last_instance_selected' = [instance |-> i, socket |-> socket_id[i]]
           /\ Asks(t, i, local[t].op, local[t].key)
    /\ Goes(t, "receive")
    /\ UNCHANGED <<others, dictionary, planifier, socket_id, is_available, waiting>>

\* The result and the entries in use, from the socket that the instance has
\* now; without the entries it is taken for gone.
ReceiveResult(t) ==
    /\ pc[t] = "receive"
    /\ LET s == Source(t)
       IN  \/ /\ Received(s, 2) /\ Take(s, 2)
              /\ Goes(t, "locate") /\ Result(t, Head(replies[s]).word)
              /\ UNCHANGED <<list, down>>
           \/ /\ EndOfFile(s, 2)
              /\ replies' = [replies EXCEPT ![s] = << >>] /\ UNCHANGED <<requests, reset>>
              /\ HandleInstanceDisconnection(local[t].selected)
              /\ Goes(t, "close")
              /\ Result(t, "KEY_UNREACHABLE")
    /\ UNCHANGED <<others, dictionary, planifier, waiting, crossed>>

\* The key is at the instance that answered, whatever it answered.
Locate(t) ==
    /\ pc[t] = "locate" /\ keys_mtx = NULL
    /\ keys_location' = [keys_location EXCEPT ![local[t].key] = PutPosta(@, local[t].selected)]
    /\ Goes(t, IF local[t].result = "NEED_COMPACTION" /\ ~local[t].retried THEN "order" ELSE "close")
    /\ UNCHANGED <<others, wires, list, planifier, keys_mtx, local, waiting, down>>

\* Mutant: everybody compacts but the instance that asked for it.
TheOthers(t) == Available \ {local[t].selected}

ToCompact(t) == Available

\* start_compaction: the order goes to whoever is available, in one pass ...
OrderCompaction(t) ==
    /\ pc[t] = "order"
    /\ SendTo(t, {SocketOf(i) : i \in ToCompact(t)}, "START_COMPACTION", NULL)
    /\ Goes(t, "filter")
    /\ UNCHANGED <<others, list, dictionary, planifier, local, waiting>>

\* Mutant: only the instance that asked for it is waited for.
OnlyTheOneSelected(t) == ToCompact(t) \cap {local[t].selected}

ToAwait(t) == ToCompact(t)

\* ... and the answer is awaited of whoever is available then.
FilterAgain(t) ==
    /\ pc[t] = "filter"
    /\ \E called \in BOOLEAN : waiting' = {<<i, IF called THEN socket_id[i] ELSE 0>> : i \in ToAwait(t)}
    /\ Goes(t, "await")
    /\ UNCHANGED <<others, wires, list, dictionary, planifier, local, down>>

AwaitCompaction(t) ==
    /\ pc[t] = "await"
    /\ \E w \in waiting :
          LET s == RecvSocket(w[1], w[2])
          IN  /\ \/ /\ Received(s, 1) /\ Take(s, 1)
                    /\ IF Head(replies[s]).word = "OK"
                       THEN UNCHANGED <<list, down>> ELSE HandleInstanceDisconnection(w[1])
                 \/ /\ EndOfFile(s, 1) /\ HandleInstanceDisconnection(w[1])
                    /\ UNCHANGED wires
              /\ waiting' = waiting \ {w}
    /\ UNCHANGED <<others, dictionary, planifier, pc, local, crossed>>

\* The SET is sent again if its instance is still there.
Retry(t) ==
    /\ pc[t] = "await" /\ waiting = {}
    /\ IF is_available[local[t].selected]
       THEN Goes(t, "send") /\ local' = [local EXCEPT ![t].retried = TRUE]
       ELSE Goes(t, "close") /\ Result(t, "KEY_UNREACHABLE")
    /\ UNCHANGED <<others, wires, list, dictionary, planifier, waiting, down>>

\* The key is at the instance selected, be it null.
PutBack(t) ==
    /\ keys_location' = [keys_location EXCEPT ![local[t].key] = PutPosta(@, local[t].selected)]
    /\ orphans' = IF local[t].selected = NULL THEN orphans \cup {local[t].key} ELSE orphans

\* Of a failed key the location is removed and the planifier told, with the
\* mutex taken; of another the location is put and the ISE gets its answer.
Close(t) ==
    /\ pc[t] = "close" /\ keys_mtx = NULL
    /\ IF local[t].result = "KEY_UNREACHABLE"
       THEN /\ keys_location' = [keys_location EXCEPT ![local[t].key] = WithoutFirst(@)]
            /\ asked' = Append(asked, [thread |-> t, op |-> "KEY_UNREACHABLE"])
            /\ keys_mtx' = t
            /\ Goes(t, "inform")
            /\ UNCHANGED <<local, orphans, promised>>
       ELSE /\ PutBack(t)
            /\ Ends(t, local[t].result)
            /\ promised' = IF local[t].op = "STORE" /\ local[t].result = "OK"
                           THEN promised \cup {local[t].key} ELSE promised
            /\ UNCHANGED <<asked, keys_mtx>>
    /\ UNCHANGED <<instances, outside, wires, list, waiting, answers, down>>

\* Mutant: the mutex of the locations is not released.
InformKeepingMutex(t) ==
    /\ pc[t] = "inform" /\ answers # << >>
    /\ answers' = Tail(answers)
    /\ PutBack(t)
    /\ Ends(t, local[t].result)
    /\ UNCHANGED <<instances, outside, wires, list, keys_mtx, waiting, asked, down, promised>>

\* Mutant: the location of a failed key is not put back.
InformAndForget(t) ==
    /\ pc[t] = "inform" /\ answers # << >>
    /\ answers' = Tail(answers)
    /\ keys_mtx' = NULL
    /\ Ends(t, local[t].result)
    /\ UNCHANGED <<instances, outside, history, wires, list, keys_location, waiting, asked, down>>

\* The planifier has heard; the location is put back all the same.
Inform(t) ==
    /\ pc[t] = "inform" /\ answers # << >>
    /\ answers' = Tail(answers)
    /\ PutBack(t)
    /\ keys_mtx' = NULL
    /\ Ends(t, local[t].result)
    /\ UNCHANGED <<instances, outside, wires, list, waiting, asked, down, promised>>

-----------------------------------------------------------------------------
(* The console's thread *)

\* status asks for the instance of a key, or for the one that it would go to.
AskInstance ==
    /\ pc[console] = "idle" /\ keys_mtx = NULL /\ queries < MaxQueries /\ sentences \in QueriesIn
    /\ queries' = queries + 1
    /\ \E k \in Keys :
          IF keys_location[k] # << >>
          THEN /\ down' = (Location(k) = NULL)
               /\ UNCHANGED <<pc, local>>
          ELSE /\ Goes(console, "select")
               /\ local' = [local EXCEPT ![console] =
                               [Free EXCEPT !.op = "CALCULATE_INSTANCE", !.key = k]]
               /\ UNCHANGED down
    /\ UNCHANGED <<instances, history, wires, list, dictionary, planifier, waiting, interrupted,
                   sentences, accepted>>

\* It asks for the value, holding the mutex of the locations until it comes.
AskValue ==
    /\ pc[console] = "idle" /\ keys_mtx = NULL /\ queries < MaxQueries /\ sentences \in QueriesIn
    /\ queries' = queries + 1
    /\ \E k \in {j \in Keys : keys_location[j] # << >>} :
          IF Location(k) = NULL
          THEN down' = TRUE /\ UNCHANGED <<wires, local>>
          ELSE Asks(console, Location(k), "GET_KEY_VALUE", k)
    /\ keys_mtx' = console
    /\ Goes(console, "value")
    /\ UNCHANGED <<instances, history, list, planifier, keys_location, waiting, interrupted,
                   sentences, accepted>>

\* The code and, if it says so, the value.  A failure is not told to anybody.
ReceiveValue ==
    /\ pc[console] = "value"
    /\ LET s == Source(console)
           n == IF Received(s, 1) /\ Head(replies[s]).word = "KEY_VALUE_FOUND" THEN 2 ELSE 1
       IN  \/ Received(s, n) /\ Take(s, n)
           \/ EndOfFile(s, n) /\ UNCHANGED wires
    /\ keys_mtx' = NULL
    /\ Ends(console, "none")
    /\ UNCHANGED <<others, list, planifier, keys_location, waiting, down, crossed>>

-----------------------------------------------------------------------------
(* The instances *)

\* Their answers, word by word.
Answer(i, request, set) ==
    CASE request.op = "SET" -> <<set, "entries in use">>
      [] request.op = "STORE" -> <<IF request.key \in held[i] THEN "OK" ELSE "FAILED", "entries in use">>
      [] request.op = "GET_KEY_VALUE" -> IF request.key \in held[i]
                                         THEN <<"KEY_VALUE_FOUND", "value">> ELSE <<"KEY_VALUE_NOT_FOUND">>
      [] OTHER -> <<"OK">>

\* What a SET may end in, and the keys that are evicted on its way, whatever it
\* ends in.  One of a key in the table is an update: it evicts nothing and asks
\* for no compaction.  Any other may ask for one, of a table just compacted too:
\* what it evicts, which may be keys that the model does not follow, leaves holes.
Puts(i, k) ==
    IF k \in held[i] THEN {"OK", "FAILED"} \X {{}}
    ELSE {"OK", "FAILED", "NEED_COMPACTION"} \X SUBSET held[i]

Serve(i) ==
    /\ peer[i] # 0 /\ requests[<<i, peer[i]>>] # << >>
    /\ LET s == <<i, peer[i]>>
           request == Head(requests[s])
       IN  \E put \in IF request.op = "SET" THEN Puts(i, request.key) ELSE {<<"OK", {}>>} :
          /\ requests' = [requests EXCEPT ![s] = Tail(@)]
          /\ LET words == Answer(i, request, put[1])
             IN  replies' = [replies EXCEPT ![s] = @ \o
                    [n \in DOMAIN words |-> [thread |-> request.thread, word |-> words[n]]]]
          /\ held' = [held EXCEPT ![i] = (@ \ put[2]) \cup
                        IF request.op = "SET" /\ put[1] = "OK" THEN {request.key} ELSE {}]
          /\ compact' = [compact EXCEPT ![i] = request.op # "SET" /\ (@ \/ request.op = "START_COMPACTION")]
          /\ stored' = [stored EXCEPT ![i] = IF request.op = "STORE" THEN @ \cup ({request.key} \cap held[i])
                                             ELSE @]
    /\ UNCHANGED <<outside, history, list, dictionary, planifier, threads, peer, reset,
                   registering, down, crossed>>

\* An instance that dies with requests unread resets its socket.
Dies(i) ==
    /\ i \in MayFail /\ peer[i] # 0
    /\ peer' = [peer EXCEPT ![i] = 0]
    /\ held' = [held EXCEPT ![i] = {}]
    /\ reset' = IF requests[<<i, peer[i]>>] = << >> THEN reset ELSE reset \cup {<<i, peer[i]>>}
    /\ requests' = [requests EXCEPT ![<<i, peer[i]>>] = << >>]
    /\ UNCHANGED <<outside, history, list, dictionary, planifier, threads, stored, compact,
                   replies, registering, down, crossed>>

\* The keys whose location the coordinator sends to an instance that connects.
KeysToLoad(i) == {k \in Keys : \E n \in DOMAIN keys_location[k] : keys_location[k][n] = i}

\* It connects, with a name of its own, and is told its keys: it loads their
\* files until one fails.  The name of a null location kills the coordinator.
Connects(i) ==
    /\ peer[i] = 0 /\ registering[i] = 0 /\ accepted[i] < MaxConnections[i]
    /\ accepted' = [accepted EXCEPT ![i] = @ + 1]
    /\ down' = \E k \in Keys : \E n \in DOMAIN keys_location[k] : keys_location[k][n] = NULL
    /\ peer' = [peer EXCEPT ![i] = accepted[i] + 1]
    /\ registering' = [registering EXCEPT ![i] = accepted[i] + 1]
    /\ \E keys \in SUBSET KeysToLoad(i) : held' = [held EXCEPT ![i] = keys]
    /\ compact' = [compact EXCEPT ![i] = TRUE]
    /\ UNCHANGED <<history, wires, list, dictionary, planifier, threads, stored, interrupted,
                   sentences, queries>>

\* Its thread then puts it in the list, or finds it there by its name.
CheckIfExistsOrCreate(i) ==
    /\ registering[i] # 0
    /\ socket_id' = [socket_id EXCEPT ![i] = registering[i]]
    /\ is_available' = [is_available EXCEPT ![i] = TRUE]
    /\ registering' = [registering EXCEPT ![i] = 0]
    /\ UNCHANGED <<outside, history, wires, dictionary, planifier, threads,
                   last_instance_selected, peer, held, stored, compact, down>>

-----------------------------------------------------------------------------
Init ==
    /\ keys_location = [k \in Keys |-> << >>] /\ keys_mtx = NULL
    /\ socket_id = [i \in Instances |-> 0] /\ is_available = [i \in Instances |-> FALSE]
    /\ last_instance_selected = NULL
    /\ pc = [t \in Threads |-> "idle"] /\ local = [t \in Threads |-> Free] /\ waiting = {}
    /\ asked = << >> /\ answers = << >>
    /\ requests = [s \in Sockets |-> << >>] /\ replies = [s \in Sockets |-> << >>] /\ reset = {}
    /\ peer = [i \in Instances |-> 0] /\ registering = [i \in Instances |-> 0]
    /\ held = [i \in Instances |-> {}] /\ stored = [i \in Instances |-> {}]
    /\ compact = [i \in Instances |-> TRUE]
    /\ interrupted = {} /\ down = FALSE
    /\ sentences = 0 /\ queries = 0 /\ accepted = [i \in Instances |-> 0]
    /\ orphans = {} /\ crossed = FALSE /\ promised = {}

\* A thread that process_sentence, or a question, has taken on its way.
Runs(t) ==
    \/ NotifyPlanifier(t) \/ Validation(t) \/ Select(t) \/ LookForInstance(t) \/ HealthCheck(t)
    \/ SendToInstance(t) \/ ReceiveResult(t) \/ Locate(t) \/ OrderCompaction(t) \/ FilterAgain(t)
    \/ AwaitCompaction(t) \/ Retry(t) \/ Close(t) \/ Inform(t)

Next ==
    /\ ~down
    /\ \/ \E t \in ISEs : ReceiveSentence(t)
       \/ \E t \in Threads : Runs(t)
       \/ AskInstance \/ AskValue \/ ReceiveValue
       \/ PlanifierAnswers
       \/ \E i \in Instances : Serve(i) \/ Dies(i) \/ Connects(i) \/ CheckIfExistsOrCreate(i)

Spec == Init /\ [][Next]_vars

\* Threads and processes go on; users and failures need not come.
Fairness ==
    /\ \A t \in Threads : WF_vars(~down /\ Runs(t))
    /\ WF_vars(~down /\ ReceiveValue) /\ WF_vars(~down /\ PlanifierAnswers)
    /\ \A i \in Instances : WF_vars(~down /\ Serve(i)) /\ WF_vars(~down /\ CheckIfExistsOrCreate(i))

FairSpec == Spec /\ Fairness

-----------------------------------------------------------------------------
(* Properties *)

Results == {"OK", "FAILED", "NEED_COMPACTION", "KEY_UNREACHABLE", "KEY_BLOCKED",
            "INSTANCE_AVAILABLE_FOR_KEY", "none", "entries in use", "KEY_VALUE_FOUND", "value",
            "KEY_VALUE_NOT_FOUND"}

TypeOK ==
    /\ \A k \in Keys : \A n \in DOMAIN keys_location[k] :
          keys_location[k][n] \in Instances \cup {NULL}
    /\ keys_mtx \in Threads \cup {NULL}
    /\ \A i \in Instances : /\ {socket_id[i], peer[i], registering[i]} \subseteq 0 .. accepted[i]
                            /\ accepted[i] <= MaxConnections[i]
    /\ is_available \in [Instances -> BOOLEAN] /\ compact \in [Instances -> BOOLEAN]
    /\ held \in [Instances -> SUBSET Keys] /\ stored \in [Instances -> SUBSET Keys]
    /\ \A t \in Threads : local[t].result \in Results
    /\ reset \subseteq Sockets

\* A key is in the table of one instance only, unless a null was put as its
\* location (handlers.c and process_sentence send each sentence on a key to
\* one instance; only a location that is lost or null can give it to another).  With the
\* types of the variables.
OneOwner ==
    TypeOK /\ \A k \in Keys \ orphans, i, j \in Instances :
        k \in held[i] \cap held[j] => i = j

\* A STORE that the ISE was told OK is on the disk of the instance that the
\* coordinator goes on taking the key to, whatever fails after.
StoredIsFound ==
    ~crossed => \A k \in promised \ orphans :
        (\A t \in Threads : pc[t] = "inform" => local[t].key # k)
            => Location(k) # NULL /\ k \in stored[Location(k)]

\* What waits to be read from an available instance is for a thread that will read it,
\* unless the console once asked for a value in the middle of a sentence.
SocketsInStep ==
    ~crossed => \A i \in Available :
        \A q \in {requests[SocketOf(i)], replies[SocketOf(i)]} : \A n \in DOMAIN q :
            LET t == q[n].thread
            IN  \/ pc[t] \in {"health", "receive", "value"} /\ local[t].selected = i
                \/ pc[t] = "filter"
                \/ pc[t] = "await" /\ \E w \in waiting : w[1] = i

\* A SET that asked for a compaction is sent again only to an instance that has
\* compacted since, or has begun anew: of the two passes of start_compaction over
\* whoever is available, neither leaves out the instance that asked.
CompactsBeforeRetry ==
    ~crossed => \A s \in Sockets : \A n \in DOMAIN requests[s] :
        requests[s][n].op = "SET" /\ local[requests[s][n].thread].retried => compact[s[1]]

\* A thread waits on a live socket for an answer to what it never asked there.
Deaf(s) == Open(s) /\ requests[s] = << >> /\ Len(replies[s]) < 2

SomebodyIsDeaf ==
    \/ \E t \in Threads : pc[t] \in {"health", "receive", "value"} /\ Deaf(Source(t))
    \/ \E w \in waiting : Deaf(RecvSocket(w[1], w[2]))

\* The answer that a thread takes from the planifier is to its own question
\* (coordinator.c:497, "Received result '%s' from planifier for ISE with id").
AnswerIsItsOwn ==
    [][ \A t \in ISEs : pc[t] = "validation" /\ pc'[t] # "validation"
                           => Head(answers).thread = t ]_vars

\* A sentence is answered unless the coordinator dies, nobody is available or
\* a thread is left waiting for an instance that it asked nothing.
SentenceEnds ==
    \A t \in ISEs : pc[t] # "idle" ~>
        pc[t] = "idle" \/ down \/ Available = {} \/ SomebodyIsDeaf
=============================================================================
