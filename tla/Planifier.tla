------------------------------ MODULE Planifier -----------------------------
(***************************************************************************)
(* The scheduler of src/planifier under FIFO: which ESI runs its next      *)
(* sentence, which ESIs wait for a resource, and who holds each resource.  *)
(*                                                                         *)
(* Threads of the process: the dispatcher, one thread per ESI that         *)
(* connects, the thread that answers the coordinator, and the console.     *)
(* An action is what a thread does between two points where what another   *)
(* thread does can matter to it.  The ESI process and the coordinator that *)
(* relays its sentences are here only as far as the scheduler sees them.   *)
(***************************************************************************)
EXTENDS SequencesExt, Integers

CONSTANTS ESIs, Recursos,
          Ninguno,             \* the ESI id 0
          ESI_BLOQUEADO,       \* the owner of what the configuration takes
          Nadie,               \* no entry in recurso_tomado_por_esi
          SinRecurso,          \* an empty blocking_resource
          TAKEN_RESOURCES,     \* the resources the configuration takes
          Guiones,             \* the scripts an ESI may bring
          Desconexiones,       \* the ESIs a user may interrupt
          FallanInstancias,    \* whether an instance may be unreachable
          MaxComandos          \* bound: kill, unblock and deadlock commands typed

Sentencia == [op : {"GET", "SET", "STORE", "INVALIDA"}, recurso : Recursos]

ASSUME EsisAssumption == IsFiniteSet(ESIs)
ASSUME IdAssumption ==
    {Ninguno, ESI_BLOQUEADO, Nadie} \cap ESIs = {} /\ Nadie # ESI_BLOQUEADO
ASSUME RecursoAssumption == SinRecurso \notin Recursos /\ TAKEN_RESOURCES \subseteq Recursos
ASSUME GuionAssumption == \A g \in Guiones : g \in Seq(Sentencia) /\ g # << >>
ASSUME EntornoAssumption ==
    Desconexiones \subseteq ESIs /\ FallanInstancias \in BOOLEAN /\ MaxComandos \in Nat

VARIABLES
    estado,                    \* esi->estado; "ausente" before it is in esi_map,
                               \* "borrado" once borrado_de_finish freed it
    instruction_pointer,       \* esi->instruction_pointer
    blocking_resource,         \* esi->blocking_resource
    READY_ESI_LIST, BLOCKED_ESI_LIST, FINISHED_ESI_LIST,
    RUNNING_ESI, NEXT_RUNNING_ESI,
    esis_bloqueados_por_recurso, recurso_tomado_por_esi,
    dispatcher_manager,        \* the mutex, used as a binary semaphore
    pc, marco,                 \* where each thread is, and its locals
    conexion,                  \* where the thread of each ESI is
    ise, guion, linea,         \* the ESI process, its script, its line
    pedido,                    \* the sentence the coordinator asks about
    resultado,                 \* the EXECUTION_RESULT in the ESI's socket
    comandos,                  \* console commands typed
    caido                      \* the process has died

mapa == <<estado, instruction_pointer, blocking_resource>>
listas == <<READY_ESI_LIST, BLOCKED_ESI_LIST, FINISHED_ESI_LIST>>
turno == <<RUNNING_ESI, NEXT_RUNNING_ESI>>
recursos == <<esis_bloqueados_por_recurso, recurso_tomado_por_esi>>
hilos == <<pc, marco>>
clientes == <<ise, guion, linea, pedido, resultado>>

vars == <<mapa, listas, turno, recursos, dispatcher_manager, hilos, conexion,
          clientes, comandos, caido>>

Hilos == {"despachador", "coordinador", "consola"}

Errores == {"KEY_UNREACHABLE", "KEY_LOCK_NOT_ACQUIRED"}

Resultados == Errores \cup {"OK", "KEY_BLOCKED", "PARSE_ERROR"}

NoPedido == [op |-> "ninguna", recurso |-> SinRecurso]

SinMarco == [esi |-> Ninguno, recursos |-> {}, recurso |-> SinRecurso, vuelve |-> "libre"]

EnMapa(e) == e \in ESIs /\ estado[e] \notin {"ausente", "borrado"}

\* A null esi is dereferenced, or a freed one is used: the process dies.
Muere == /\ caido' = TRUE
         /\ UNCHANGED <<mapa, listas, turno, recursos, dispatcher_manager, hilos,
                        conexion, clientes, comandos>>

-----------------------------------------------------------------------------
(* What several threads call *)

\* fifo_replan: the next ESI to run, taken out of the ready list.
Replan(listos) == IF listos = << >> THEN [next |-> Ninguno, listos |-> listos]
                  ELSE [next |-> Head(listos), listos |-> Tail(listos)]

\* Mutant: the end of the ESI that runs leaves it as the next one.
NoReplanifica(listos) == UNCHANGED <<NEXT_RUNNING_ESI, READY_ESI_LIST>>

ReplanificaCon(listos) == /\ NEXT_RUNNING_ESI' = Replan(listos).next
                          /\ READY_ESI_LIST' = Replan(listos).listos

\* notify_dispatcher: unlocking a mutex that nobody holds changes nothing.
NotifyDispatcher ==
    dispatcher_manager' = IF RUNNING_ESI = Ninguno THEN "libre" ELSE dispatcher_manager

\* cambiar_recurso_que_lo_bloquea
CambiarRecursoQueLoBloquea(e, r) ==
    blocking_resource' = [blocking_resource EXCEPT ![e] = r]

\* Mutant: the ESI stays in the blocked list.
UnblockEsiSinQuitar(e) ==
    /\ estado' = [estado EXCEPT ![e] = "DESBLOQUEADO"]
    /\ READY_ESI_LIST' = Append(READY_ESI_LIST, e)
    /\ NotifyDispatcher
    /\ UNCHANGED BLOCKED_ESI_LIST

\* unblock_esi, for an ESI of esi_map, whatever its state was.
UnblockEsi(e) ==
    /\ estado' = [estado EXCEPT ![e] = "DESBLOQUEADO"]
    /\ BLOCKED_ESI_LIST' = RemoveFirst(BLOCKED_ESI_LIST, e)
    /\ READY_ESI_LIST' = Append(READY_ESI_LIST, e)
    /\ NotifyDispatcher

\* What is left of a queue after popping ids until one passes is_valid_esi.
DesdeElPrimeroValido(cola) ==
    LET i == SelectInSeq(cola, EnMapa)
    IN  IF i = 0 THEN << >> ELSE SubSeq(cola, i, Len(cola))

\* Mutant: freeing a resource wakes nobody.
DespiertaNadie(r) == UNCHANGED <<esis_bloqueados_por_recurso, mapa, READY_ESI_LIST,
                                 BLOCKED_ESI_LIST, dispatcher_manager>>

\* The waiter that free_resource takes out of the queue of r is woken.
DespiertaUno(r) ==
    LET cola == DesdeElPrimeroValido(esis_bloqueados_por_recurso[r])
    IN  IF cola = << >>
        THEN /\ esis_bloqueados_por_recurso' = [esis_bloqueados_por_recurso EXCEPT ![r] = << >>]
             /\ UNCHANGED <<mapa, READY_ESI_LIST, BLOCKED_ESI_LIST, dispatcher_manager>>
        ELSE /\ esis_bloqueados_por_recurso' = [esis_bloqueados_por_recurso EXCEPT ![r] = Tail(cola)]
             /\ CambiarRecursoQueLoBloquea(Head(cola), SinRecurso)
             /\ UnblockEsi(Head(cola))
             /\ UNCHANGED instruction_pointer

\* free_resource up to unblock_esi.  When esi_map is empty is_valid_esi lets
\* every id pass, and clearing its blocking resource uses a null esi.
FreeResource(t) ==
    /\ pc[t] = "liberar" /\ ~caido
    /\ \E r \in marco[t].recursos :
         IF esis_bloqueados_por_recurso[r] # << >> /\ \A e \in ESIs : ~EnMapa(e)
         THEN Muere
         ELSE /\ DespiertaUno(r)
              /\ pc' = [pc EXCEPT ![t] = "quitar"]
              /\ marco' = [marco EXCEPT ![t].recursos = @ \ {r}, ![t].recurso = r]
              /\ UNCHANGED <<FINISHED_ESI_LIST, turno, recurso_tomado_por_esi,
                             conexion, clientes, comandos, caido>>

\* free_resource after it: the owner is removed, whoever it is by now.
FreeResourceQuita(t) ==
    /\ pc[t] = "quitar" /\ ~caido
    /\ recurso_tomado_por_esi' = [recurso_tomado_por_esi EXCEPT ![marco[t].recurso] = Nadie]
    /\ pc' = [pc EXCEPT ![t] = "liberar"]
    /\ UNCHANGED <<mapa, listas, turno, esis_bloqueados_por_recurso, dispatcher_manager,
                   marco, conexion, clientes, comandos, caido>>

GetResourcesTakenByEsi(e) == {r \in Recursos : recurso_tomado_por_esi[r] = e}

\* Thread t calls finish_esi(e) and will go on at "vuelve".
LlamaFinish(t, e, vuelve) ==
    /\ pc' = [pc EXCEPT ![t] = "finish"]
    /\ marco' = [marco EXCEPT ![t] = [SinMarco EXCEPT !.esi = e, !.vuelve = vuelve]]

\* finish_esi up to get_resources_taken_by_esi: out of the list its state names.
FinishEsi(t) ==
    LET e == marco[t].esi IN
    /\ pc[t] = "finish" /\ ~caido
    /\ IF ~EnMapa(e) THEN Muere
       ELSE /\ CASE estado[e] = "BLOQUEADO" ->
                      /\ BLOCKED_ESI_LIST' = RemoveFirst(BLOCKED_ESI_LIST, e)
                      /\ UNCHANGED <<READY_ESI_LIST, NEXT_RUNNING_ESI>>
                 [] estado[e] = "CORRIENDO" ->
                      ReplanificaCon(READY_ESI_LIST) /\ UNCHANGED BLOCKED_ESI_LIST
                 [] OTHER ->
                      /\ READY_ESI_LIST' = RemoveFirst(READY_ESI_LIST, e)
                      /\ UNCHANGED <<BLOCKED_ESI_LIST, NEXT_RUNNING_ESI>>
            /\ estado' = [estado EXCEPT ![e] = "FINALIZADO"]
            /\ FINISHED_ESI_LIST' = Append(FINISHED_ESI_LIST, e)
            /\ pc' = [pc EXCEPT ![t] = "liberar"]
            /\ marco' = [marco EXCEPT ![t].recursos = GetResourcesTakenByEsi(e)]
            /\ UNCHANGED <<instruction_pointer, blocking_resource, RUNNING_ESI, recursos,
                           dispatcher_manager, conexion, clientes, comandos, caido>>

Vuelve(t) == /\ pc' = [pc EXCEPT ![t] = marco[t].vuelve]
             /\ marco' = [marco EXCEPT ![t] = SinMarco]

\* The end of finish_esi, which asks whether nothing is to run, holding no mutex ...
FinishEsiRetorna(t) ==
    /\ pc[t] = "liberar" /\ marco[t].recursos = {} /\ marco[t].esi # Ninguno /\ ~caido
    /\ IF READY_ESI_LIST = << >> /\ NEXT_RUNNING_ESI = Ninguno /\ RUNNING_ESI = Ninguno
       THEN pc' = [pc EXCEPT ![t] = "replanificar"] /\ UNCHANGED marco
       ELSE Vuelve(t)
    /\ UNCHANGED <<mapa, listas, turno, recursos, dispatcher_manager, conexion, clientes,
                   comandos, caido>>

\* ... and if so chooses whom to run, from what is ready by then ...
FinishEsiReplanifica(t) ==
    /\ pc[t] = "replanificar" /\ ~caido
    /\ ReplanificaCon(READY_ESI_LIST)
    /\ pc' = [pc EXCEPT ![t] = "notificar"]
    /\ UNCHANGED <<mapa, BLOCKED_ESI_LIST, FINISHED_ESI_LIST, RUNNING_ESI, recursos,
                   dispatcher_manager, marco, conexion, clientes, comandos, caido>>

\* ... and wakes the dispatcher.
FinishEsiNotifica(t) ==
    /\ pc[t] = "notificar" /\ ~caido
    /\ NotifyDispatcher
    /\ Vuelve(t)
    /\ UNCHANGED <<mapa, listas, turno, recursos, conexion, clientes, comandos, caido>>

-----------------------------------------------------------------------------
(* esi_connection_handler, in the thread of ESI e *)

\* new_esi and add_esi, before the ESI knows its id.
NewEsi(e) ==
    /\ conexion[e] = "nueva" /\ ~caido
    /\ estado' = [estado EXCEPT ![e] = "NUEVO"]
    /\ READY_ESI_LIST' = Append(READY_ESI_LIST, e)
    /\ conexion' = [conexion EXCEPT ![e] = "agregado"]
    /\ UNCHANGED <<instruction_pointer, blocking_resource, BLOCKED_ESI_LIST, FINISHED_ESI_LIST,
                   turno, recursos, dispatcher_manager, hilos, clientes, comandos, caido>>

\* send_id_to_esi, which fails only if the ESI is already gone.
SendIdToEsi(e) ==
    /\ conexion[e] = "agregado" /\ ~caido
    /\ \E sigue \in (IF ise[e] = "terminado" THEN BOOLEAN ELSE {TRUE}) :
         conexion' = [conexion EXCEPT ![e] = IF sigue THEN "identificado" ELSE "fin"]
    /\ ise' = [ise EXCEPT ![e] = IF @ = "sin_id" THEN "espera" ELSE @]
    /\ UNCHANGED <<mapa, listas, turno, recursos, dispatcher_manager, hilos, guion, linea,
                   pedido, resultado, comandos, caido>>

NotificaNuevo(e) ==
    /\ conexion[e] = "identificado" /\ ~caido
    /\ NotifyDispatcher
    /\ conexion' = [conexion EXCEPT ![e] = "fin"]
    /\ UNCHANGED <<mapa, listas, turno, recursos, hilos, clientes, comandos, caido>>

-----------------------------------------------------------------------------
(* The ESI process *)

\* The sentence is over: the script goes on unless it has to be retried, and
\* the process ends after its last line or an error.
RecibeResultado(e, res) ==
    LET avanza == res # "KEY_BLOCKED" IN
    /\ resultado' = [resultado EXCEPT ![e] = res]
    /\ linea' = [linea EXCEPT ![e] = IF avanza THEN @ + 1 ELSE @]
    /\ ise' = [ise EXCEPT ![e] =
                  IF res \in Errores \/ (avanza /\ linea[e] = Len(guion[e]))
                  THEN "terminado" ELSE "espera"]

\* Told to run: it asks the coordinator, or reports a line it cannot parse.
ExecuteSentence(e) ==
    /\ ise[e] = "ejecuta" /\ ~caido
    /\ IF guion[e][linea[e]].op = "INVALIDA"
       THEN RecibeResultado(e, "PARSE_ERROR") /\ UNCHANGED pedido
       ELSE /\ pedido' = [pedido EXCEPT ![e] = guion[e][linea[e]]]
            /\ ise' = [ise EXCEPT ![e] = "pregunta"]
            /\ UNCHANGED <<linea, resultado>>
    /\ UNCHANGED <<mapa, listas, turno, recursos, dispatcher_manager, hilos, conexion,
                   guion, comandos, caido>>

\* The user interrupts it; what it asked for stays asked.
Desconecta(e) ==
    /\ e \in Desconexiones /\ ise[e] \in {"espera", "ejecuta", "pregunta"} /\ ~caido
    /\ ise' = [ise EXCEPT ![e] = "terminado"]
    /\ UNCHANGED <<mapa, listas, turno, recursos, dispatcher_manager, hilos, conexion,
                   guion, linea, pedido, resultado, comandos, caido>>

-----------------------------------------------------------------------------
(* connect_to_coordinator: the thread that answers the coordinator *)

\* The answer goes back through the coordinator to an ESI that may be gone.
Responde(e, res) ==
    /\ pedido' = [pedido EXCEPT ![e] = NoPedido]
    /\ IF ise[e] = "pregunta" THEN RecibeResultado(e, res)
       ELSE UNCHANGED <<ise, linea, resultado>>
    /\ UNCHANGED guion

\* After the planifier's OK the coordinator asks an instance.
Concedido == IF FallanInstancias THEN {"OK", "KEY_UNREACHABLE"} ELSE {"OK"}

\* fifo_block_esi and the rest of block_esi_by_resource.
BlockEsiByResource(e, r) ==
    LET listos == RemoveFirst(READY_ESI_LIST, e) IN
    /\ estado' = [estado EXCEPT ![e] = "BLOQUEADO"]
    /\ IF RUNNING_ESI = e THEN ReplanificaCon(listos)
       ELSE READY_ESI_LIST' = listos /\ UNCHANGED NEXT_RUNNING_ESI
    /\ BLOCKED_ESI_LIST' = Append(BLOCKED_ESI_LIST, e)
    /\ esis_bloqueados_por_recurso' = [esis_bloqueados_por_recurso EXCEPT ![r] = Append(@, e)]
    /\ CambiarRecursoQueLoBloquea(e, r)

\* resource_taken: by another than e.
ResourceTaken(r, e) == recurso_tomado_por_esi[r] \notin {Nadie, e}

\* bloquear_recurso and the answer to GET.  Only DeadlockCmd reads between its
\* block and its blocking resource; see there.
GetSentence(e) ==
    /\ pc["coordinador"] = "libre" /\ pedido[e].op = "GET" /\ ~caido
    /\ LET r == pedido[e].recurso IN
       IF ~ResourceTaken(r, e)
       THEN /\ recurso_tomado_por_esi' = [recurso_tomado_por_esi EXCEPT ![r] = e]
            /\ Responde(e, "OK")
            /\ UNCHANGED <<mapa, listas, turno, esis_bloqueados_por_recurso,
                           dispatcher_manager, hilos, conexion, comandos, caido>>
       ELSE IF EnMapa(e)
       THEN /\ BlockEsiByResource(e, r)
            /\ Responde(e, "KEY_BLOCKED")
            /\ UNCHANGED <<instruction_pointer, FINISHED_ESI_LIST, RUNNING_ESI,
                           recurso_tomado_por_esi, dispatcher_manager, hilos, conexion,
                           comandos, caido>>
       ELSE Muere

\* Mutant: it does not look at who took it.
ResourceTakenByAny(e, r) ==
    {IF recurso_tomado_por_esi[r] # Nadie THEN "si" ELSE "no"}

\* is_resource_taken_by_esi.  With nothing taken by anybody it reads a pointer
\* that was never set: null, an id of an earlier call, or no address at all.
ResourceTakenByEsi(e, r) ==
    IF \A otro \in Recursos : recurso_tomado_por_esi[otro] = Nadie
    THEN {"si", "no", "muere"}
    ELSE {IF recurso_tomado_por_esi[r] = e THEN "si" ELSE "no"}

SetSentence(e) ==
    /\ pc["coordinador"] = "libre" /\ pedido[e].op = "SET" /\ ~caido
    /\ \E tomado \in ResourceTakenByEsi(e, pedido[e].recurso) :
         IF tomado = "muere" THEN Muere
         ELSE /\ \E res \in IF tomado = "si" THEN Concedido ELSE {"KEY_LOCK_NOT_ACQUIRED"} :
                   Responde(e, res)
              /\ UNCHANGED <<mapa, listas, turno, recursos, dispatcher_manager, hilos,
                             conexion, comandos, caido>>

\* A STORE frees the resource without asking who took it ...
StoreSentence(e) ==
    /\ pc["coordinador"] = "libre" /\ pedido[e].op = "STORE" /\ ~caido
    /\ pc' = [pc EXCEPT !["coordinador"] = "liberar"]
    /\ marco' = [marco EXCEPT !["coordinador"].recursos = {pedido[e].recurso}]
    /\ pedido' = [pedido EXCEPT ![e].op = "STORE_EN_CURSO"]
    /\ UNCHANGED <<mapa, listas, turno, recursos, dispatcher_manager, conexion, ise, guion,
                   linea, resultado, comandos, caido>>

\* ... and is answered when free_resource returns.
StoreSentenceResponde(e) ==
    /\ pc["coordinador"] = "liberar" /\ marco["coordinador"].recursos = {} /\ ~caido
    /\ pedido[e].op = "STORE_EN_CURSO"
    /\ \E res \in Concedido : Responde(e, res)
    /\ pc' = [pc EXCEPT !["coordinador"] = "libre"]
    /\ marco' = [marco EXCEPT !["coordinador"] = SinMarco]
    /\ UNCHANGED <<mapa, listas, turno, recursos, dispatcher_manager, conexion, comandos, caido>>

-----------------------------------------------------------------------------
(* dispatch: the dispatcher's loop *)

Despachador(lugar) == pc["despachador"] = lugar /\ ~caido

DespachadorVa(lugar) == pc' = [pc EXCEPT !["despachador"] = lugar] /\ UNCHANGED marco

AcquireDispatcher ==
    /\ Despachador("adquirir") /\ dispatcher_manager = "libre"
    /\ dispatcher_manager' = "tomado"
    /\ DespachadorVa("elegir")
    /\ UNCHANGED <<mapa, listas, turno, recursos, conexion, clientes, comandos, caido>>

\* An ESI that is told to run before it knows its id takes it for a rejection.
IseExecute(e) ==
    ise' = [ise EXCEPT ![e] = CASE @ = "espera" -> "ejecuta"
                                [] @ = "sin_id" -> "terminado"
                                [] OTHER -> @]

\* From the replan of an idle dispatcher to send_esi_to_run.
Despacha ==
    /\ Despachador("elegir")
    /\ LET plan == IF RUNNING_ESI = Ninguno THEN Replan(READY_ESI_LIST)
                   ELSE [next |-> NEXT_RUNNING_ESI, listos |-> READY_ESI_LIST]
           e    == plan.next
       IN  IF ~EnMapa(e) THEN Muere
           ELSE /\ NEXT_RUNNING_ESI' = e
                /\ RUNNING_ESI' = e
                /\ READY_ESI_LIST' = plan.listos
                /\ estado' = [estado EXCEPT ![e] = "CORRIENDO"]
                /\ instruction_pointer' = [instruction_pointer EXCEPT ![e] = @ + 1]
                /\ IseExecute(e)
                /\ DespachadorVa("resultado")
                /\ UNCHANGED <<blocking_resource, BLOCKED_ESI_LIST, FINISHED_ESI_LIST, recursos,
                               dispatcher_manager, conexion, guion, linea, pedido, resultado,
                               comandos, caido>>

\* Mutant: the dispatcher gives up on an ESI that is only slow.
SinResultadoAun ==
    /\ Despachador("resultado")
    /\ resultado[RUNNING_ESI] = "nada"
    /\ dispatcher_manager' = "libre"
    /\ LlamaFinish("despachador", RUNNING_ESI, "adquirir")
    /\ UNCHANGED <<mapa, listas, turno, recursos, conexion, clientes, comandos, caido>>

\* send_esi_to_run or wait_execution_result fails: the ESI has gone.
SinResultado ==
    /\ Despachador("resultado")
    /\ resultado[RUNNING_ESI] = "nada" /\ ise[RUNNING_ESI] = "terminado"
    /\ dispatcher_manager' = "libre"
    /\ LlamaFinish("despachador", RUNNING_ESI, "adquirir")
    /\ UNCHANGED <<mapa, listas, turno, recursos, conexion, clientes, comandos, caido>>

\* wait_execution_result and check_execution_error.
WaitExecutionResult ==
    /\ Despachador("resultado") /\ resultado[RUNNING_ESI] # "nada"
    /\ resultado' = [resultado EXCEPT ![RUNNING_ESI] = "nada"]
    /\ IF resultado[RUNNING_ESI] \in Errores
       THEN LlamaFinish("despachador", RUNNING_ESI, "cerrar")
       ELSE DespachadorVa("cerrar")
    /\ UNCHANGED <<mapa, listas, turno, recursos, dispatcher_manager, conexion, ise, guion,
                   linea, pedido, comandos, caido>>

\* borrado_de_finish
BorradoDeFinish(estados) ==
    [e \in ESIs |-> IF \E i \in DOMAIN FINISHED_ESI_LIST : FINISHED_ESI_LIST[i] = e
                    THEN "borrado" ELSE estados[e]]

\* Mutant: the instruction that blocked stays counted.
PunteroSinDescontar(e) == instruction_pointer

\* What the instruction pointer of e is after the turn.
PunteroAlCerrar(e) ==
    [instruction_pointer EXCEPT ![e] = IF estado[e] = "BLOQUEADO" THEN @ - 1 ELSE @]

\* The end of the turn.  The esi of the turn may be one that borrado_de_finish
\* has just freed: what is read of it is then whatever that memory holds, and
\* it only matters when there is a next ESI.
CierraTurno ==
    /\ Despachador("cerrar")
    /\ LET e       == RUNNING_ESI
           estado1 == BorradoDeFinish(estado)
           borrado == estado1[e] = "borrado"
           termino == /\ PunteroAlCerrar(e)[e] = Len(guion[e])
                      /\ estado1[e] # "BLOQUEADO" \/ NEXT_RUNNING_ESI = e
       IN  \/ /\ borrado /\ NEXT_RUNNING_ESI # Ninguno
              /\ Muere
           \/ /\ estado' = estado1
              /\ FINISHED_ESI_LIST' = << >>
              /\ instruction_pointer' =
                     IF borrado THEN instruction_pointer ELSE PunteroAlCerrar(e)
              /\ IF NEXT_RUNNING_ESI = Ninguno
                 THEN /\ RUNNING_ESI' = Ninguno
                      /\ DespachadorVa("adquirir")
                      /\ UNCHANGED dispatcher_manager
                 ELSE IF ~borrado /\ termino
                 THEN /\ LlamaFinish("despachador", e, "terminar")
                      /\ UNCHANGED <<RUNNING_ESI, dispatcher_manager>>
                 ELSE /\ dispatcher_manager' = "libre"
                      /\ DespachadorVa("adquirir")
                      /\ UNCHANGED RUNNING_ESI
              /\ UNCHANGED <<blocking_resource, READY_ESI_LIST, BLOCKED_ESI_LIST,
                             NEXT_RUNNING_ESI, recursos, conexion, clientes, comandos, caido>>

\* Mutant: the mutex stays locked though there is a next ESI.
TerminaTurnoSinSoltar ==
    /\ Despachador("terminar")
    /\ RUNNING_ESI' = IF NEXT_RUNNING_ESI = Ninguno THEN Ninguno ELSE RUNNING_ESI
    /\ DespachadorVa("adquirir")
    /\ UNCHANGED <<mapa, listas, NEXT_RUNNING_ESI, recursos, dispatcher_manager, conexion,
                   clientes, comandos, caido>>

\* After the finish_esi of an ESI that ran its last instruction.
TerminaTurno ==
    /\ Despachador("terminar")
    /\ IF NEXT_RUNNING_ESI = Ninguno
       THEN RUNNING_ESI' = Ninguno /\ UNCHANGED dispatcher_manager
       ELSE dispatcher_manager' = "libre" /\ UNCHANGED RUNNING_ESI
    /\ DespachadorVa("adquirir")
    /\ UNCHANGED <<mapa, listas, NEXT_RUNNING_ESI, recursos, conexion, clientes, comandos, caido>>

-----------------------------------------------------------------------------
(* The console *)

Comando == /\ pc["consola"] = "libre" /\ ~caido
           /\ comandos < MaxComandos
           /\ comandos' = comandos + 1

KillCmd(e) ==
    /\ Comando
    /\ EnMapa(e) /\ estado[e] = "BLOQUEADO"
    /\ LlamaFinish("consola", e, "libre")
    /\ UNCHANGED <<mapa, listas, turno, recursos, dispatcher_manager, conexion, clientes, caido>>

\* Mutant: the search does not stop growing where the circle closes.
BuscarSinCorte(id, hallado) == [hallado EXCEPT !.ids = @ \cup {id}]

\* The way back of the search through id: a circle that was closed grows until
\* it comes to the ESI that closed it.
VuelvePor(id, hallado) ==
    IF hallado.ids = {} \/ id \in hallado.ids \/ hallado.DEADLOCK_ENCONTRADO
    THEN [hallado EXCEPT !.DEADLOCK_ENCONTRADO = TRUE]
    ELSE [hallado EXCEPT !.ids = @ \cup {id}]

\* Whether an ESI of esi_map is blocked, and who has what it waits for.
Bloqueado(id) == EnMapa(id) /\ estado[id] = "BLOQUEADO"
Bloqueante(id) == recurso_tomado_por_esi[blocking_resource[id]]

\* A search that has found nothing.
Nada == [ids |-> {}, DEADLOCK_ENCONTRADO |-> FALSE, muere |-> FALSE]

\* buscar_deadlock_en_lista: from a blocked ESI to the one that has what it waits
\* for, until one that is not blocked or was passed.  That nobody has what an ESI
\* waits for is not looked at: a null is dereferenced.
BuscarDeadlockEnLista[corte \in SUBSET ESIs] ==
    [id \in ESIs \cup {ESI_BLOQUEADO} |->
        IF id \in corte THEN [Nada EXCEPT !.ids = {id}]
        ELSE IF ~Bloqueado(id) THEN Nada
        ELSE IF Bloqueante(id) = Nadie THEN [Nada EXCEPT !.muere = TRUE]
        ELSE VuelvePor(id, BuscarDeadlockEnLista[corte \cup {id}][Bloqueante(id)])]

\* buscar_deadlock: what the searches from all that are blocked find.
Busquedas == {BuscarDeadlockEnLista[{}][e] : e \in ToSet(BLOCKED_ESI_LIST)}
BuscarDeadlock == UNION {b.ids : b \in Busquedas}

\* bloquear_recurso has blocked e and not noted yet what for: nobody has what e
\* waits for, unless an earlier wait left its mark.
BloqueadoAMedias(e) ==
    /\ pc["coordinador"] = "libre" /\ pedido[e].op = "GET" /\ EnMapa(e)
    /\ ResourceTaken(pedido[e].recurso, e)
    /\ blocking_resource[e] # SinRecurso => Bloqueante(e) = Nadie

\* The search may also come in the middle of a GET that blocks.
DeadlockCmd ==
    /\ Comando
    /\ \/ caido' = \E b \in Busquedas : b.muere
       \/ (\E e \in ESIs : BloqueadoAMedias(e)) /\ caido' = TRUE
    /\ UNCHANGED <<mapa, listas, turno, recursos, dispatcher_manager, hilos, conexion, clientes>>

\* unblock_cmd with nobody waiting: the resource loses its owner.
UnblockResource(r) ==
    /\ Comando
    /\ esis_bloqueados_por_recurso[r] = << >> /\ recurso_tomado_por_esi[r] # Nadie
    /\ recurso_tomado_por_esi' = [recurso_tomado_por_esi EXCEPT ![r] = Nadie]
    /\ UNCHANGED <<mapa, listas, turno, esis_bloqueados_por_recurso, dispatcher_manager,
                   hilos, conexion, clientes, caido>>

\* unblock_cmd with a queue: the first valid ESI of it is woken.  The loop tests
\* the id before asking whether there is one.
UnblockCmd(r) ==
    LET cola == DesdeElPrimeroValido(esis_bloqueados_por_recurso[r]) IN
    /\ Comando
    /\ esis_bloqueados_por_recurso[r] # << >>
    /\ IF cola = << >>
       THEN /\ caido' = TRUE
            /\ UNCHANGED <<mapa, listas, esis_bloqueados_por_recurso, dispatcher_manager>>
       ELSE /\ esis_bloqueados_por_recurso' = [esis_bloqueados_por_recurso EXCEPT ![r] = Tail(cola)]
            /\ UnblockEsi(Head(cola))
            /\ UNCHANGED <<instruction_pointer, blocking_resource, FINISHED_ESI_LIST, caido>>
    /\ UNCHANGED <<turno, recurso_tomado_por_esi, hilos, conexion, clientes>>

-----------------------------------------------------------------------------

Init ==
    /\ estado = [e \in ESIs |-> "ausente"]
    /\ instruction_pointer = [e \in ESIs |-> 0]
    /\ blocking_resource = [e \in ESIs |-> SinRecurso]
    /\ READY_ESI_LIST = << >> /\ BLOCKED_ESI_LIST = << >> /\ FINISHED_ESI_LIST = << >>
    /\ RUNNING_ESI = Ninguno /\ NEXT_RUNNING_ESI = Ninguno
    /\ esis_bloqueados_por_recurso = [r \in Recursos |-> << >>]
    /\ recurso_tomado_por_esi =
           [r \in Recursos |-> IF r \in TAKEN_RESOURCES THEN ESI_BLOQUEADO ELSE Nadie]
    /\ dispatcher_manager = "tomado"
    /\ pc = [t \in Hilos |-> IF t = "despachador" THEN "adquirir" ELSE "libre"]
    /\ marco = [t \in Hilos |-> SinMarco]
    /\ conexion = [e \in ESIs |-> "nueva"]
    /\ ise = [e \in ESIs |-> "sin_id"]
    /\ guion \in [ESIs -> Guiones]
    /\ linea = [e \in ESIs |-> 1]
    /\ pedido = [e \in ESIs |-> NoPedido]
    /\ resultado = [e \in ESIs |-> "nada"]
    /\ comandos = 0
    /\ caido = FALSE

\* What a thread does in a call common to several.
Llamada(t) ==
    \/ FreeResource(t) \/ FreeResourceQuita(t)
    \/ FinishEsi(t) \/ FinishEsiRetorna(t) \/ FinishEsiReplanifica(t) \/ FinishEsiNotifica(t)

HiloDespachador ==
    \/ AcquireDispatcher \/ Despacha \/ SinResultado \/ WaitExecutionResult
    \/ CierraTurno \/ TerminaTurno \/ Llamada("despachador")

HiloCoordinador ==
    \/ \E e \in ESIs : \/ GetSentence(e) \/ SetSentence(e)
                       \/ StoreSentence(e) \/ StoreSentenceResponde(e)
    \/ FreeResource("coordinador") \/ FreeResourceQuita("coordinador")

HiloConsola ==
    \/ \E e \in ESIs : KillCmd(e)
    \/ \E r \in Recursos : UnblockResource(r) \/ UnblockCmd(r)
    \/ DeadlockCmd
    \/ Llamada("consola")

HiloConexion(e) == NewEsi(e) \/ SendIdToEsi(e) \/ NotificaNuevo(e)

Next ==
    \/ HiloDespachador \/ HiloCoordinador \/ HiloConsola
    \/ \E e \in ESIs : HiloConexion(e) \/ ExecuteSentence(e) \/ Desconecta(e)

Spec == Init /\ [][Next]_vars

\* The threads run, and an ESI told to run does; users need not do anything.
Fairness ==
    /\ WF_vars(HiloDespachador) /\ WF_vars(HiloCoordinador) /\ WF_vars(Llamada("consola"))
    /\ \A e \in ESIs : WF_vars(HiloConexion(e)) /\ WF_vars(ExecuteSentence(e))

FairSpec == Spec /\ Fairness

-----------------------------------------------------------------------------
(* Properties *)

TipoMapa ==
    /\ estado \in [ESIs -> {"ausente", "NUEVO", "CORRIENDO", "BLOQUEADO", "DESBLOQUEADO",
                            "FINALIZADO", "borrado"}]
    /\ instruction_pointer \in [ESIs -> Nat]
    /\ blocking_resource \in [ESIs -> Recursos \cup {SinRecurso}]

TipoListas ==
    /\ READY_ESI_LIST \in Seq(ESIs)
    /\ BLOCKED_ESI_LIST \in Seq(ESIs)
    /\ FINISHED_ESI_LIST \in Seq(ESIs)
    /\ RUNNING_ESI \in ESIs \cup {Ninguno}
    /\ NEXT_RUNNING_ESI \in ESIs \cup {Ninguno}

TipoRecursos ==
    /\ esis_bloqueados_por_recurso \in [Recursos -> Seq(ESIs)]
    /\ recurso_tomado_por_esi \in [Recursos -> ESIs \cup {ESI_BLOQUEADO, Nadie}]

TipoHilos ==
    /\ dispatcher_manager \in {"libre", "tomado"}
    /\ pc \in [Hilos -> {"libre", "adquirir", "elegir", "resultado", "cerrar", "terminar",
                         "finish", "liberar", "quitar", "replanificar", "notificar"}]
    /\ marco \in [Hilos -> [esi : ESIs \cup {Ninguno}, recursos : SUBSET Recursos,
                            recurso : Recursos \cup {SinRecurso},
                            vuelve : {"libre", "adquirir", "cerrar", "terminar"}]]
    /\ conexion \in [ESIs -> {"nueva", "agregado", "identificado", "fin"}]

TipoClientes ==
    /\ ise \in [ESIs -> {"sin_id", "espera", "ejecuta", "pregunta", "terminado"}]
    /\ guion \in [ESIs -> Guiones]
    /\ linea \in [ESIs -> Nat \ {0}]
    /\ pedido \in [ESIs -> [op : {"GET", "SET", "STORE", "STORE_EN_CURSO", "ninguna"},
                            recurso : Recursos \cup {SinRecurso}]]
    /\ resultado \in [ESIs -> Resultados \cup {"nada"}]

TypeOK ==
    /\ TipoMapa /\ TipoListas /\ TipoRecursos /\ TipoHilos /\ TipoClientes
    /\ comandos \in 0 .. MaxComandos /\ caido \in BOOLEAN

Veces(e, lista) == Cardinality({i \in DOMAIN lista : lista[i] = e})

\* The places of all the queues.
Lugares == UNION {{r} \X DOMAIN esis_bloqueados_por_recurso[r] : r \in Recursos}

VecesEsperando(e) == Cardinality({p \in Lugares : esis_bloqueados_por_recurso[p[1]][p[2]] = e})

\* An ESI of the map is where its state says and nowhere else: a ready one once
\* in the ready list, unless it is the next to run; a blocked one once in the
\* blocked list and once in the queues, in that of the resource it waits for; a
\* finished one once in the finished list.  With the types of the variables.
CadaUnoEnSuLista ==
    TypeOK /\ (~caido => \A e \in ESIs :
        /\ Veces(e, READY_ESI_LIST) =
             IF estado[e] \in {"NUEVO", "DESBLOQUEADO"} /\ NEXT_RUNNING_ESI # e THEN 1
             ELSE IF estado[e] = "CORRIENDO" /\ e \notin {RUNNING_ESI, NEXT_RUNNING_ESI} THEN 1
             ELSE 0
        /\ Veces(e, BLOCKED_ESI_LIST) = IF estado[e] = "BLOQUEADO" THEN 1 ELSE 0
        /\ Veces(e, FINISHED_ESI_LIST) = IF estado[e] = "FINALIZADO" THEN 1 ELSE 0
        /\ VecesEsperando(e) = IF estado[e] = "BLOQUEADO" THEN 1 ELSE 0
        /\ \A r \in Recursos :
             Veces(e, esis_bloqueados_por_recurso[r]) > 0 => blocking_resource[e] = r)

\* ESIs wait for a resource only while an ESI that can still free it has it, or
\* the configuration or the console; or one that was woken for it has still to
\* try again.
EsperaJustificada ==
    ~caido => \A r \in Recursos : esis_bloqueados_por_recurso[r] # << >> =>
        \/ recurso_tomado_por_esi[r] = ESI_BLOQUEADO
        \/ EnMapa(recurso_tomado_por_esi[r])
        \/ \E e \in ESIs : /\ EnMapa(e) /\ estado[e] \notin {"BLOQUEADO", "FINALIZADO"}
                           /\ ise[e] # "terminado"
                           /\ guion[e][linea[e]] = [op |-> "GET", recurso |-> r]

\* The planifier counts the instructions that the ESI has really executed: an
\* ESI that waits its turn is about to run the line after the ones counted.
PunteroEnFase ==
    ~caido => \A e \in ESIs :
        (EnMapa(e) /\ RUNNING_ESI # e /\ ise[e] # "terminado" /\ estado[e] # "FINALIZADO")
            => instruction_pointer[e] = linea[e] - 1

\* One ESI executes at a time: the one the dispatcher is waiting for.
UnoALaVez ==
    ~caido => \A e \in ESIs : ise[e] \in {"ejecuta", "pregunta"} =>
        RUNNING_ESI = e /\ pc["despachador"] = "resultado"

\* An ESI that is ready or next runs, unless the dispatcher goes to sleep before.
ListoCorre ==
    \A e \in ESIs : Veces(e, READY_ESI_LIST) > 0 \/ NEXT_RUNNING_ESI = e ~>
        (RUNNING_ESI = e \/ RUNNING_ESI = Ninguno \/ caido)

\* When the ESI of the turn blocked or ended, the dispatcher goes to sleep only
\* with the ready list empty, as what it logs then says (dispatcher.c:127, "la
\* cola de listos esta vacia, durmiendo", and :141, "no hay mas ESIs en la cola
\* de listos").
DuermeSinListos ==
    [][ (/\ RUNNING_ESI # Ninguno /\ RUNNING_ESI' = Ninguno
         /\ pc["despachador"] = "terminar" \/ estado[RUNNING_ESI] = "BLOQUEADO")
        => READY_ESI_LIST = << >> ]_vars

\* With nobody at the console an ESI that finished never comes back, whether it
\* ended its script or failed: it is in no list and no queue that could wake it.
FinalizadoNoVuelve ==
    [][ \A e \in ESIs : estado[e] = "FINALIZADO" => estado'[e] \in {"FINALIZADO", "borrado"} ]_vars

\* While anybody has a resource, a SET of one that the ESI does not hold, because
\* it never asked for it or because another's STORE freed it, aborts the ESI.
SetAjenoAborta ==
    [][ \A e \in ESIs :
          (/\ pedido[e].op = "SET" /\ pedido'[e] = NoPedido /\ ise[e] = "pregunta"
           /\ recurso_tomado_por_esi[pedido[e].recurso] # e
           /\ \E r \in Recursos : recurso_tomado_por_esi[r] # Nadie)
          => resultado'[e] = "KEY_LOCK_NOT_ACQUIRED" ]_vars

\* Whom e waits for: the ESI that has what e is blocked by.
EsperaPor(e) == {f \in ESIs : Bloqueado(e) /\ Bloqueante(e) = f}

\* e is in a circle: one of some ESIs who wait for each other, so that each waits
\* for one of them and one of them waits for it.  As nobody waits for two, they
\* are the ESIs of one or more circles.
EnCirculo(e) ==
    \E circulo \in SUBSET ESIs :
        /\ e \in circulo
        /\ \A f \in circulo : /\ EsperaPor(f) \cap circulo # {}
                              /\ \E g \in circulo : f \in EsperaPor(g)

\* What the console answers to deadlock are the ESIs that wait for each other in
\* a circle, and not the ones that only wait for one of them.
DeadlockEsCirculo ==
    (\A b \in Busquedas : ~b.muere) => BuscarDeadlock = {e \in ESIs : EnCirculo(e)}
=============================================================================
