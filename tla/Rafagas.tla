------------------------------- MODULE Rafagas ------------------------------
(***************************************************************************)
(* The scheduler of src/planifier under the algorithms that look at CPU    *)
(* bursts: SJF, SJF with preemption (SJF_DESALOJO) and HRRN.  What Planifier*)
(* says of FIFO with every thread's steps is said here of the estimates and *)
(* of the ready list, a handler at a time; which resource an ESI waits for  *)
(* is left open.  The process of an ESI may be interrupted in its turn, and *)
(* its sentence then still reaches the planifier through the coordinator,  *)
(* when the ESI has ended.                                                 *)
(***************************************************************************)
EXTENDS SequencesExt, Integers

CONSTANTS ESIs,
          Ninguno,             \* the ESI id 0
          Algoritmos,          \* what the configuration may name
          Largos,              \* how many sentences a script may have
          alpha,               \* of the exponential mean, in percent
          initial_estimation,
          ESCALA,              \* parts of a sentence that estimates are kept in
          MaxBloqueos,         \* bound: times an ESI blocks in its turn
          MaxComandos,         \* bound: commands at the console and ESIs interrupted
          MaxTiempo            \* bound: turns of the dispatcher

ASSUME ConfiguracionAssumption ==
    /\ Ninguno \notin ESIs
    /\ Algoritmos \subseteq {"SJF", "SJF_DESALOJO", "HRRN"}
    /\ Largos \subseteq Nat \ {0}
    /\ alpha \in 0 .. 100 /\ initial_estimation \in Nat /\ ESCALA \in Nat \ {0}
    /\ MaxBloqueos \in Nat /\ MaxComandos \in Nat /\ MaxTiempo \in Nat

VARIABLES
    algorithm,
    esi,                       \* the esi of each id in esi_map
    READY_ESI_LIST, BLOCKED_ESI_LIST, RUNNING_ESI, NEXT_RUNNING_ESI,
    FINISHED_ESI_LIST,         \* a set: one put twice is freed once
    esperas,                   \* how many places each ESI has in the queues of the resources
    cpu_time,
    dispatcher_manager,        \* the mutex, used as a binary semaphore
    pc,                        \* where the dispatcher is in its turn
    rafaga,                    \* ghost: turns of each ESI since it last blocked
    ejecutadas,                \* the sentences of its script that the ESI has behind
    interrumpidos,             \* the ESIs whose process a user ended
    pedidos,                   \* those of them whose last sentence is at the coordinator
    aDestiempo,                \* ghost: a sentence or a resource reached an ESI that had ended
    bloqueos, comandos,
    caido                      \* the process has died

listas == <<READY_ESI_LIST, BLOCKED_ESI_LIST>>
turno == <<RUNNING_ESI, NEXT_RUNNING_ESI>>
cuentas == <<bloqueos, comandos>>
tardios == <<interrumpidos, pedidos, aDestiempo>>

proceso == <<rafaga, ejecutadas>>

vars == <<algorithm, esi, listas, FINISHED_ESI_LIST, esperas, turno, cpu_time,
          dispatcher_manager, pc, proceso, tardios, cuentas, caido>>

EsiNuevo == [estado |-> "ausente", largo |-> 0, instruction_pointer |-> 0,
             anterior_instruction_pointer |-> 0, duracion_real_ultima_rafaga |-> 0,
             estimacion_ultima_rafaga |-> initial_estimation * ESCALA,
             ultima_entrada_a_ready |-> 0]

\* Bound: what users do, at the console and to the ESIs.
QuedanSucesos == comandos < MaxComandos /\ comandos + Cardinality(interrumpidos) < MaxComandos

EnMapa(e) == e \in ESIs /\ esi[e].estado \notin {"ausente", "borrado"}

\* The comparators read every esi of the ready list.
TodosEnMapa(lista) == \A i \in DOMAIN lista : EnMapa(lista[i])

Muere == /\ caido' = TRUE
         /\ UNCHANGED <<algorithm, esi, listas, FINISHED_ESI_LIST, esperas, turno, cpu_time,
                        dispatcher_manager, pc, proceso, tardios, cuentas>>

NotifyDispatcher ==
    dispatcher_manager' = IF RUNNING_ESI = Ninguno THEN "libre" ELSE dispatcher_manager

-----------------------------------------------------------------------------
(* The order of the ready list *)

\* One comparison of list_sort, of the i-th element with the one that follows it.
Compara(paso, i, enOrden) ==
    IF <<paso.lista[i], paso.lista[i + 1]>> \in enOrden THEN paso
    ELSE [lista |-> [paso.lista EXCEPT ![i] = paso.lista[i + 1], ![i + 1] = paso.lista[i]],
          desordenados |-> i - 1]

\* One pass over the first elements: neighbours that are not in order change
\* places, and the next pass stops where the last change was.
Pasada(paso, enOrden) ==
    LET hasta == IF paso.desordenados < Len(paso.lista) THEN paso.desordenados
                 ELSE Len(paso.lista) - 1
        tras[i \in 0 .. hasta] == IF i = 0 THEN paso ELSE Compara(tras[i - 1], i, enOrden)
    IN  tras[hasta]

\* Mutant: one pass and no more.
UnaPasada(lista, enOrden) ==
    Pasada([lista |-> lista, desordenados |-> Len(lista)], enOrden).lista

\* list_sort: passes until one changes nothing, at most one for each element.
\* The comparator is the set of pairs that it lets stand in that order.
ListSort(lista, enOrden) ==
    LET tras[i \in 0 .. Len(lista)] ==
            IF i = 0 THEN [lista |-> lista, desordenados |-> Len(lista)]
            ELSE Pasada(tras[i - 1], enOrden)
    IN  tras[Len(lista)].lista

\* The burst that SJF compares is an int, the one that SJF_DESALOJO does a float.
Estimacion(mapa, e) == IF algorithm = "SJF" THEN mapa[e].estimacion_ultima_rafaga \div ESCALA
                       ELSE mapa[e].estimacion_ultima_rafaga

\* shortest_job: whether e may stay ahead of the other.  Of two as short, the
\* one that has been unblocked stays behind.
ShortestJob(mapa, e, otro) ==
    \/ Estimacion(mapa, otro) > Estimacion(mapa, e)
    \/ /\ Estimacion(mapa, otro) = Estimacion(mapa, e)
       /\ mapa[otro].estado = "DESBLOQUEADO"

TiempoEsperando(e) == cpu_time + 1 - esi[e].ultima_entrada_a_ready

\* higher_response_ratio, 1 + W/S of one against the other's, multiplied out:
\* with an estimate of zero the float is infinite and compares the same way.
HigherResponseRatio(e, otro) ==
    TiempoEsperando(otro) * esi[e].estimacion_ultima_rafaga
        <= TiempoEsperando(e) * esi[otro].estimacion_ultima_rafaga

Pares(lista) == {<<lista[i], lista[j]>> : i, j \in DOMAIN lista}

PorRafaga(mapa, lista) == {p \in Pares(lista) : ShortestJob(mapa, p[1], p[2])}
PorRespuesta(lista) == {p \in Pares(lista) : HigherResponseRatio(p[1], p[2])}

AllSameEstimation(lista) == lista # << >> /\ \A i \in DOMAIN lista :
    esi[lista[i]].estimacion_ultima_rafaga = esi[lista[1]].estimacion_ultima_rafaga

EnElOrdenDelAlgoritmo(lista) ==
    CASE algorithm = "HRRN" -> ListSort(lista, PorRespuesta(lista))
      [] algorithm = "SJF" /\ AllSameEstimation(lista) -> lista
      [] OTHER -> ListSort(lista, PorRafaga(esi, lista))

\* sjf_replan, sjf_desa_replan, hrrn_replan: what they would take as the next
\* ESI to run, and what they would leave ready.
Replan(lista) ==
    LET orden == EnElOrdenDelAlgoritmo(lista)
    IN  IF lista = << >> THEN [next |-> Ninguno, listos |-> << >>]
        ELSE [next |-> Head(orden), listos |-> Tail(orden)]

Replanifica == /\ NEXT_RUNNING_ESI' = Replan(READY_ESI_LIST).next
               /\ READY_ESI_LIST' = Replan(READY_ESI_LIST).listos

-----------------------------------------------------------------------------
(* Ready, blocked, unblocked *)

\* estimate_next_cpu_burst, of an ESI that becomes ready.
EstimateNextCpuBurst(s) ==
    IF s.estado = "NUEVO" THEN initial_estimation * ESCALA
    ELSE (alpha * s.duracion_real_ultima_rafaga * ESCALA
          + (100 - alpha) * s.estimacion_ultima_rafaga) \div 100

\* e as add_esi_by_algorithm leaves it.
Listo(s) ==
    [s EXCEPT !.estimacion_ultima_rafaga = EstimateNextCpuBurst(s),
              !.ultima_entrada_a_ready = IF algorithm = "HRRN" THEN cpu_time ELSE @]

\* replan_for_new_esi: the first of the ready ones takes the next turn from the
\* running ESI if it is shorter, and that one goes to the end of the list.
ReplanForNewEsi(mapa, lista) ==
    LET orden == ListSort(lista, PorRafaga(mapa, lista))
    IN  IF ShortestJob(mapa, Head(orden), RUNNING_ESI)
        THEN /\ NEXT_RUNNING_ESI' = Head(orden)
             /\ READY_ESI_LIST' = Append(Tail(orden), RUNNING_ESI)
        ELSE READY_ESI_LIST' = orden /\ UNCHANGED NEXT_RUNNING_ESI

\* add_esi_by_algorithm of e, whose esi has become s.
AddEsiByAlgorithm(e, s) ==
    LET mapa == [esi EXCEPT ![e] = Listo(s)] IN
    /\ esi' = mapa
    /\ IF algorithm = "SJF_DESALOJO" /\ RUNNING_ESI # Ninguno
       THEN ReplanForNewEsi(mapa, Append(READY_ESI_LIST, e))
       ELSE /\ READY_ESI_LIST' = Append(READY_ESI_LIST, e)
            /\ UNCHANGED NEXT_RUNNING_ESI

\* A preemption compares with the running ESI and with every ready one.
AddMata == /\ algorithm = "SJF_DESALOJO" /\ RUNNING_ESI # Ninguno
           /\ ~EnMapa(RUNNING_ESI) \/ ~TodosEnMapa(READY_ESI_LIST)

\* new_esi, and the notice of esi_connection_handler.
NewEsi(e) ==
    /\ ~caido /\ esi[e].estado = "ausente"
    /\ IF AddMata THEN Muere
       ELSE /\ \E n \in Largos :
                 AddEsiByAlgorithm(e, [EsiNuevo EXCEPT !.estado = "NUEVO", !.largo = n])
            /\ NotifyDispatcher
            /\ UNCHANGED <<algorithm, BLOCKED_ESI_LIST, FINISHED_ESI_LIST, esperas, RUNNING_ESI,
                           cpu_time, pc, proceso, tardios, cuentas, caido>>

\* Mutant: a burst after the first is counted without the sentence to retry.
DuracionSinReintento(s) == s.instruction_pointer - s.anterior_instruction_pointer

\* The length of the burst that ends: the sentence that blocked is counted, and
\* its retry too, for the pointer had gone back.
DuracionReal(s) == s.instruction_pointer - s.anterior_instruction_pointer
                       + IF s.anterior_instruction_pointer # 0 THEN 1 ELSE 0

\* e as block_esi leaves it.
Bloqueado(s) ==
    [s EXCEPT !.estado = "BLOQUEADO",
              !.duracion_real_ultima_rafaga = DuracionReal(s),
              !.anterior_instruction_pointer = s.instruction_pointer]

\* block_esi_by_resource: block_esi, and a place in the queue of the resource.
\* SJF compares ids with pointers and leaves e in the ready list.
BlockEsi(e) ==
    /\ esi' = [esi EXCEPT ![e] = Bloqueado(@)]
    /\ rafaga' = [rafaga EXCEPT ![e] = 0]
    /\ esperas' = [esperas EXCEPT ![e] = @ + 1]
    /\ BLOCKED_ESI_LIST' = Append(BLOCKED_ESI_LIST, e)
    /\ IF RUNNING_ESI = e THEN Replanifica
       ELSE /\ READY_ESI_LIST' = IF algorithm = "HRRN" THEN RemoveFirst(READY_ESI_LIST, e)
                                 ELSE READY_ESI_LIST
            /\ UNCHANGED NEXT_RUNNING_ESI

\* The ESI that has the turn has sent its sentence, and waits for the answer.
Responde == /\ pc \in {"sentencia", "almacenada"} /\ ~caido
            /\ ejecutadas[RUNNING_ESI] < esi[RUNNING_ESI].largo
            /\ RUNNING_ESI \notin interrumpidos

\* A replan reads every ready ESI.
BlockMata(e) == ~EnMapa(e) \/ (RUNNING_ESI = e /\ ~TodosEnMapa(READY_ESI_LIST))

\* unblock_esi of the ESI that the queue of a resource gives, whatever its state:
\* one that is in the map, is_valid_esi, or any when the map is empty.  The
\* places of the freed ones, which are passed over, count for nothing else.
UnblockEsi(e) ==
    /\ esperas[e] > 0
    /\ EnMapa(e) \/ \A x \in ESIs : ~EnMapa(x)
    /\ esperas' = [esperas EXCEPT ![e] = @ - 1]
    /\ IF AddMata \/ ~EnMapa(e)
       THEN /\ caido' = TRUE
            /\ UNCHANGED <<algorithm, esi, listas, FINISHED_ESI_LIST, turno, cpu_time,
                           dispatcher_manager, proceso, bloqueos>>
       ELSE /\ BLOCKED_ESI_LIST' = RemoveFirst(BLOCKED_ESI_LIST, e)
            /\ AddEsiByAlgorithm(e, [esi[e] EXCEPT !.estado = "DESBLOQUEADO"])
            /\ NotifyDispatcher
            /\ UNCHANGED <<algorithm, FINISHED_ESI_LIST, RUNNING_ESI, cpu_time, proceso,
                           bloqueos, caido>>

\* free_resource: once in a STORE, for each resource of an ESI that ends, which
\* has none before its first sentence.
FreeResource(e) ==
    /\ ~caido
    /\ \/ Responde /\ pc = "sentencia" /\ pc' = "almacenada"
       \/ /\ pc \in {"fallado", "sin_resultado", "terminado"} /\ UNCHANGED pc
          /\ ejecutadas[RUNNING_ESI] > 0 \/ RUNNING_ESI \in interrumpidos
    /\ UnblockEsi(e)
    /\ aDestiempo' = (aDestiempo \/ esi[e].estado = "FINALIZADO")
    /\ UNCHANGED <<interrumpidos, pedidos, comandos>>

\* The last sentence of an ESI that was interrupted reaches the planifier when
\* the dispatcher has ended it: a GET of what another has, a STORE of what
\* somebody waits for, or one that nobody waits for.
PedidoTardio(e) ==
    /\ ~caido /\ e \in pedidos /\ pedidos' = pedidos \ {e}
    /\ \/ /\ BlockMata(e) /\ caido' = TRUE
          /\ UNCHANGED <<esi, listas, NEXT_RUNNING_ESI, esperas, rafaga, aDestiempo>>
          /\ UNCHANGED <<algorithm, FINISHED_ESI_LIST, RUNNING_ESI, cpu_time,
                         dispatcher_manager, ejecutadas, bloqueos>>
       \/ /\ ~BlockMata(e) /\ BlockEsi(e) /\ aDestiempo' = TRUE
          /\ UNCHANGED <<algorithm, FINISHED_ESI_LIST, RUNNING_ESI, cpu_time,
                         dispatcher_manager, ejecutadas, bloqueos, caido>>
       \/ /\ \E x \in ESIs : UnblockEsi(x)
          /\ aDestiempo' = TRUE
       \/ UNCHANGED <<algorithm, esi, listas, FINISHED_ESI_LIST, esperas, turno, cpu_time,
                      dispatcher_manager, proceso, aDestiempo, bloqueos, caido>>
    /\ UNCHANGED <<pc, interrumpidos, comandos>>

Comando == ~caido /\ QuedanSucesos /\ comandos' = comandos + 1

UnblockCmd(e) == Comando /\ UnblockEsi(e) /\ UNCHANGED <<pc, tardios>>

\* block_cmd, on a resource that another has: an ESI that is ready, or one that
\* runs when the dispatcher gives permission, between two turns.
BlockCmd(e) ==
    /\ Comando
    /\ \/ esi[e].estado \in {"NUEVO", "DESBLOQUEADO"}
       \/ esi[e].estado = "CORRIENDO" /\ pc = "adquirir" /\ dispatcher_manager = "libre"
    /\ IF BlockMata(e)
       THEN /\ caido' = TRUE
            /\ UNCHANGED <<esi, rafaga, listas, NEXT_RUNNING_ESI, esperas>>
       ELSE BlockEsi(e) /\ UNCHANGED caido
    /\ UNCHANGED <<algorithm, FINISHED_ESI_LIST, RUNNING_ESI, cpu_time, dispatcher_manager, pc,
                   ejecutadas, tardios, bloqueos>>

-----------------------------------------------------------------------------
(* The turn of the dispatcher *)

Despachador(lugar) == pc = lugar /\ ~caido

\* From the mutex to send_esi_to_run.
Despacha ==
    /\ Despachador("adquirir") /\ dispatcher_manager = "libre" /\ cpu_time < MaxTiempo
    /\ LET plan == IF RUNNING_ESI = Ninguno THEN Replan(READY_ESI_LIST)
                   ELSE [next |-> NEXT_RUNNING_ESI, listos |-> READY_ESI_LIST]
           e    == plan.next
       IN  IF (RUNNING_ESI = Ninguno /\ ~TodosEnMapa(READY_ESI_LIST)) \/ ~EnMapa(e)
           THEN Muere
           ELSE /\ esi' = [esi EXCEPT ![e].estado = "CORRIENDO", ![e].instruction_pointer = @ + 1]
                /\ rafaga' = [rafaga EXCEPT ![e] = @ + 1]
                /\ RUNNING_ESI' = e /\ NEXT_RUNNING_ESI' = e
                /\ READY_ESI_LIST' = plan.listos
                /\ dispatcher_manager' = "tomado"
                /\ pc' = "sentencia"
                /\ UNCHANGED <<algorithm, BLOCKED_ESI_LIST, FINISHED_ESI_LIST, esperas, cpu_time,
                               ejecutadas, tardios, cuentas, caido>>

\* The sentence was answered OK ...
Ejecuta ==
    /\ Responde
    /\ ejecutadas' = [ejecutadas EXCEPT ![RUNNING_ESI] = @ + 1]
    /\ pc' = "cerrar"
    /\ UNCHANGED <<algorithm, esi, listas, FINISHED_ESI_LIST, esperas, turno, cpu_time,
                   dispatcher_manager, rafaga, tardios, cuentas, caido>>

\* ... or it was a GET of a resource that another has ...
SeBloquea ==
    /\ Responde /\ pc = "sentencia" /\ bloqueos < MaxBloqueos
    /\ IF BlockMata(RUNNING_ESI) THEN Muere
       ELSE /\ BlockEsi(RUNNING_ESI)
            /\ bloqueos' = bloqueos + 1
            /\ pc' = "cerrar"
            /\ UNCHANGED <<algorithm, FINISHED_ESI_LIST, RUNNING_ESI, cpu_time,
                           dispatcher_manager, ejecutadas, tardios, comandos, caido>>

\* Mutant: an ESI that ends leaves the next turn as it was.
FinishSinReplanificar(e) ==
    /\ esi' = [esi EXCEPT ![e].estado = "FINALIZADO"]
    /\ FINISHED_ESI_LIST' = FINISHED_ESI_LIST \cup {e}
    /\ UNCHANGED <<listas, NEXT_RUNNING_ESI>>

\* The end of the running ESI reads its esi, and every ready one if it replans.
FinishMata == \/ ~EnMapa(RUNNING_ESI)
              \/ esi[RUNNING_ESI].estado = "CORRIENDO" /\ ~TodosEnMapa(READY_ESI_LIST)

\* finish_esi, out of the list that its state names.
FinishEsi(e) ==
    /\ esi' = [esi EXCEPT ![e].estado = "FINALIZADO"]
    /\ FINISHED_ESI_LIST' = FINISHED_ESI_LIST \cup {e}
    /\ CASE esi[e].estado = "BLOQUEADO" ->
              /\ BLOCKED_ESI_LIST' = RemoveFirst(BLOCKED_ESI_LIST, e)
              /\ UNCHANGED <<READY_ESI_LIST, NEXT_RUNNING_ESI>>
         [] esi[e].estado = "CORRIENDO" -> Replanifica /\ UNCHANGED BLOCKED_ESI_LIST
         [] OTHER -> /\ READY_ESI_LIST' = RemoveFirst(READY_ESI_LIST, e)
                     /\ UNCHANGED <<BLOCKED_ESI_LIST, NEXT_RUNNING_ESI>>

\* ... or it failed, and check_execution_error ends the ESI ...
Falla ==
    /\ Responde
    /\ IF FinishMata THEN Muere
       ELSE /\ FinishEsi(RUNNING_ESI)
            /\ pc' = "fallado"
            /\ UNCHANGED <<algorithm, esperas, RUNNING_ESI, cpu_time, dispatcher_manager, proceso,
                           tardios, cuentas, caido>>

\* A user interrupts the ESI that has the turn, which the dispatcher notices when
\* it waits for its result.  Where the sentence was answered the result may not
\* have come; where it was not it may be on its way to the planifier.  One who
\* is interrupted before its turn has it and sends nothing.
Interrumpe ==
    /\ pc \in {"sentencia", "almacenada", "cerrar"}
    /\ RUNNING_ESI \notin interrumpidos /\ QuedanSucesos
    /\ interrumpidos' = interrumpidos \cup {RUNNING_ESI}
    /\ \/ UNCHANGED pedidos
       \/ /\ pc = "sentencia" /\ ejecutadas[RUNNING_ESI] < esi[RUNNING_ESI].largo
          /\ pedidos' = pedidos \cup {RUNNING_ESI}

\* ... or there is nobody to answer: the script was over before the planifier's
\* count of it was, or a user interrupts the ESI.  The mutex is unlocked first,
\* and nothing is put away.
SinResultado ==
    /\ ~caido
    /\ \/ Interrumpe
       \/ /\ pc = "sentencia" /\ UNCHANGED <<interrumpidos, pedidos>>
          /\ ejecutadas[RUNNING_ESI] = esi[RUNNING_ESI].largo \/ RUNNING_ESI \in interrumpidos
    /\ IF FinishMata
       THEN /\ caido' = TRUE
            /\ UNCHANGED <<esi, listas, NEXT_RUNNING_ESI, FINISHED_ESI_LIST, dispatcher_manager, pc>>
       ELSE /\ FinishEsi(RUNNING_ESI)
            /\ dispatcher_manager' = "libre"
            /\ pc' = "sin_resultado"
            /\ UNCHANGED caido
    /\ UNCHANGED <<algorithm, esperas, RUNNING_ESI, cpu_time, proceso, aDestiempo, cuentas>>

SigueSinResultado ==
    /\ Despachador("sin_resultado")
    /\ pc' = "adquirir"
    /\ UNCHANGED <<algorithm, esi, listas, FINISHED_ESI_LIST, esperas, turno, cpu_time,
                   dispatcher_manager, proceso, tardios, cuentas, caido>>

\* The clock, borrado_de_finish, and whether the script is over.  As in
\* Planifier, a freed esi is read when there is another to run.
CierraTurno ==
    /\ pc \in {"cerrar", "fallado"} /\ ~caido
    /\ LET e       == RUNNING_ESI
           borrado == e \in FINISHED_ESI_LIST \/ ~EnMapa(e)
           quedan  == [x \in ESIs |-> IF x \in FINISHED_ESI_LIST
                                      THEN [esi[x] EXCEPT !.estado = "borrado"] ELSE esi[x]]
           mapa    == IF esi[e].estado = "BLOQUEADO"
                      THEN [quedan EXCEPT ![e].instruction_pointer = @ - 1] ELSE quedan
           termino == /\ mapa[e].instruction_pointer = mapa[e].largo
                      /\ esi[e].estado # "BLOQUEADO" \/ NEXT_RUNNING_ESI = e
       IN  \/ borrado /\ NEXT_RUNNING_ESI # Ninguno /\ Muere
           \/ /\ esi' = mapa
              /\ FINISHED_ESI_LIST' = {}
              /\ cpu_time' = cpu_time + 1
              /\ IF NEXT_RUNNING_ESI = Ninguno
                 THEN RUNNING_ESI' = Ninguno /\ pc' = "adquirir" /\ UNCHANGED dispatcher_manager
                 ELSE IF ~borrado /\ termino
                 THEN pc' = "terminar" /\ UNCHANGED <<RUNNING_ESI, dispatcher_manager>>
                 ELSE dispatcher_manager' = "libre" /\ pc' = "adquirir" /\ UNCHANGED RUNNING_ESI
              /\ UNCHANGED <<algorithm, listas, esperas, NEXT_RUNNING_ESI, proceso, tardios,
                             cuentas, caido>>

\* The ESI ran its last sentence.
Termina ==
    /\ Despachador("terminar")
    /\ IF FinishMata THEN Muere
       ELSE /\ FinishEsi(RUNNING_ESI)
            /\ pc' = "terminado"
            /\ UNCHANGED <<algorithm, esperas, RUNNING_ESI, cpu_time, dispatcher_manager, proceso,
                           tardios, cuentas, caido>>

\* After finish_esi has freed its resources.
TerminaTurno ==
    /\ Despachador("terminado")
    /\ IF NEXT_RUNNING_ESI = Ninguno
       THEN RUNNING_ESI' = Ninguno /\ UNCHANGED dispatcher_manager
       ELSE dispatcher_manager' = "libre" /\ UNCHANGED RUNNING_ESI
    /\ pc' = "adquirir"
    /\ UNCHANGED <<algorithm, esi, listas, FINISHED_ESI_LIST, esperas, NEXT_RUNNING_ESI, cpu_time,
                   proceso, tardios, cuentas, caido>>

Init ==
    /\ algorithm \in Algoritmos
    /\ esi = [e \in ESIs |-> EsiNuevo]
    /\ READY_ESI_LIST = << >> /\ BLOCKED_ESI_LIST = << >>
    /\ RUNNING_ESI = Ninguno /\ NEXT_RUNNING_ESI = Ninguno
    /\ cpu_time = 0
    /\ dispatcher_manager = "tomado" /\ pc = "adquirir"
    /\ rafaga = [e \in ESIs |-> 0] /\ ejecutadas = [e \in ESIs |-> 0]
    /\ FINISHED_ESI_LIST = {} /\ esperas = [e \in ESIs |-> 0]
    /\ interrumpidos = {} /\ pedidos = {} /\ aDestiempo = FALSE
    /\ bloqueos = 0 /\ comandos = 0
    /\ caido = FALSE

Next ==
    \/ \E e \in ESIs : \/ NewEsi(e) \/ FreeResource(e) \/ PedidoTardio(e)
                     \/ UnblockCmd(e) \/ BlockCmd(e)
    \/ Despacha \/ Ejecuta \/ SeBloquea \/ Falla
    \/ SinResultado \/ SigueSinResultado \/ CierraTurno \/ Termina \/ TerminaTurno

Spec == Init /\ [][Next]_vars

-----------------------------------------------------------------------------
(* Properties *)

TypeOK ==
    /\ algorithm \in Algoritmos
    /\ esi \in [ESIs ->
         [estado : {"ausente", "NUEVO", "CORRIENDO", "BLOQUEADO", "DESBLOQUEADO",
                    "FINALIZADO", "borrado"},
          largo : Largos \cup {0}, instruction_pointer : Nat,
          anterior_instruction_pointer : Nat, duracion_real_ultima_rafaga : Nat,
          estimacion_ultima_rafaga : Nat, ultima_entrada_a_ready : 0 .. MaxTiempo]]
    /\ READY_ESI_LIST \in Seq(ESIs) /\ BLOCKED_ESI_LIST \in Seq(ESIs)
    /\ RUNNING_ESI \in ESIs \cup {Ninguno} /\ NEXT_RUNNING_ESI \in ESIs \cup {Ninguno}
    /\ cpu_time \in 0 .. MaxTiempo
    /\ dispatcher_manager \in {"libre", "tomado"}
    /\ pc \in {"adquirir", "sentencia", "almacenada", "fallado", "sin_resultado", "cerrar",
              "terminar", "terminado"}
    /\ rafaga \in [ESIs -> Nat] /\ ejecutadas \in [ESIs -> Nat] /\ esperas \in [ESIs -> Nat]
    /\ {FINISHED_ESI_LIST, interrumpidos, pedidos} \subseteq SUBSET ESIs /\ aDestiempo \in BOOLEAN
    /\ bloqueos \in 0 .. MaxBloqueos /\ comandos \in 0 .. MaxComandos
    /\ caido \in BOOLEAN

Veces(e, lista) == Cardinality({i \in DOMAIN lista : lista[i] = e})

\* Nothing has come from the console, and no sentence or resource to an ESI that
\* had ended.
SinSorpresas == comandos = 0 /\ ~aDestiempo

\* Without preemption, with nobody at the console and until a sentence or a
\* resource reaches an ESI that has ended, an ESI of the map is where its state
\* says: a ready one once in the ready list unless it is next, a blocked one once
\* in the blocked list, and nobody is in two places; ESIs that are interrupted
\* in their turn included.  With the types of the variables.
CadaUnoEnSuLugar ==
    TypeOK /\ (algorithm # "SJF_DESALOJO" /\ SinSorpresas => \A e \in ESIs :
        /\ Veces(e, READY_ESI_LIST) =
             IF esi[e].estado \in {"NUEVO", "DESBLOQUEADO"} /\ NEXT_RUNNING_ESI # e THEN 1 ELSE 0
        /\ Veces(e, BLOCKED_ESI_LIST) = IF esi[e].estado = "BLOQUEADO" THEN 1 ELSE 0
        /\ NEXT_RUNNING_ESI = e => esi[e].estado \in {"NUEVO", "DESBLOQUEADO", "CORRIENDO"})

\* Whom SJF, SJF_DESALOJO and HRRN may leave waiting when e is next.
PuedeEsperar(e, otro) ==
    IF algorithm = "HRRN"
    THEN (cpu_time + 1 - esi[e].ultima_entrada_a_ready) * esi[otro].estimacion_ultima_rafaga
           >= (cpu_time + 1 - esi[otro].ultima_entrada_a_ready) * esi[e].estimacion_ultima_rafaga
    ELSE Estimacion(esi', e) <= Estimacion(esi', otro)

\* Who is chosen to run next was the best of those that waited, by the rule of
\* the algorithm, however the list was ordered before.
EligeElMejor ==
    [][ NEXT_RUNNING_ESI' \notin {NEXT_RUNNING_ESI, Ninguno} =>
          \A i \in DOMAIN READY_ESI_LIST' :
              PuedeEsperar(NEXT_RUNNING_ESI', READY_ESI_LIST'[i]) ]_vars

\* The last burst, from which the next is estimated, is as long as the turns
\* that the ESI had since it last blocked, the one in which it blocks included:
\* with nobody at the console, and until one that has ended is reached.
DuracionEsLaRafaga ==
    [][ \A e \in ESIs :
          (/\ esi[e].estado = "CORRIENDO" /\ esi'[e].estado = "BLOQUEADO"
           /\ SinSorpresas)
          => esi'[e].duracion_real_ultima_rafaga = rafaga[e] ]_vars
=============================================================================
