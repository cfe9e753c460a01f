--------------------------- MODULE Sincronizacion ---------------------------
(***************************************************************************)
(* The mutexes and condition variables of src/planifier/semaphores.c as its *)
(* four threads use them.  Planifier and Rafagas say what the threads do to *)
(* the lists and take several locks as one step; here the lists are left   *)
(* out and every lock is a step.  A thread is the rest of the program that *)
(* it has to run, and where the code looks at the lists the program offers *)
(* every way on.  A cond_wait returns only when it is signalled.            *)
(***************************************************************************)
EXTENDS Sequences, Integers, FiniteSets

CONSTANTS Algoritmos,          \* of the configuration
          MaxComandos,         \* bound: commands at the console
          MaxConexiones,       \* bound: ESIs that connect
          MaxInterrupciones,   \* bound: ESIs interrupted in the middle of a sentence
          MaxSucesos           \* bound: commands, connections and interruptions

ASSUME SincronizacionAssumption ==
    /\ Algoritmos \subseteq {"FIFO", "SJF", "SJF_DESALOJO", "HRRN"}
    /\ MaxComandos \in Nat /\ MaxConexiones \in Nat /\ MaxInterrupciones \in Nat
    /\ MaxSucesos \in Nat

Hilos == {"despachador", "coordinador", "consola", "conexion"}

\* The numbers are those of the names in the code.
Mutexes == {"running_1", "next_2", "blocked_3", "ready_4", "finished_5", "esi_map_6",
            "blocked_by_resource", "blocked_resources",
            "dispatcher_manager", "pause_manager", "permission_to_block_manager"}

\* The two maps of resources and the lists: what these guard is never waited
\* for with a condition variable.
DeDatos == Mutexes \ {"dispatcher_manager", "pause_manager", "permission_to_block_manager"}

VARIABLES
    algorithm,
    programa,                  \* what each thread has still to run
    dueno,                     \* of each mutex: a thread, or "nadie"
    bandera,                   \* paused, permission_to_block_acquired, RUNNING_ESI = 0
    mensajes,                  \* on their way: sentences and results; and the
                               \* results that nobody will read
    cuenta                     \* commands, connections and interruptions so far

vars == <<algorithm, programa, dueno, bandera, mensajes, cuenta>>

-----------------------------------------------------------------------------
(* Instructions *)

Lock(m) == [ins |-> "lock", m |-> m]
Unlock(m) == [ins |-> "unlock", m |-> m]
Pasa(m) == [ins |-> "pasa", m |-> m]                 \* lock, look or change, unlock
TryLock(m, p) == [ins |-> "trylock", m |-> m, si |-> p]
Wait(c, m) == [ins |-> "wait", c |-> c, m |-> m]
Duerme(c, m) == [ins |-> "duerme", c |-> c, m |-> m] \* the rest of a wait
Signal(c) == [ins |-> "signal", c |-> c]
Pon(b, valor) == [ins |-> "pon", b |-> b, valor |-> valor]
Si(b, p) == [ins |-> "si", b |-> b, p |-> p]
Elige(programas) == [ins |-> "elige", programas |-> programas]
Manda(msj) == [ins |-> "manda", msj |-> msj]
Recibe(msj) == [ins |-> "recibe", msj |-> msj]

Con(m, p) == <<Lock(m)>> \o p \o <<Unlock(m)>>

-----------------------------------------------------------------------------
(* The handlers, as far as they lock *)

\* Of an ESI that is not 0: modificar_estado, get_esi_by_id, is_valid_esi, ...
EnElMapa == <<Pasa("esi_map_6")>>

NotifyDispatcher == <<Si("durmiendo", <<Unlock("dispatcher_manager")>>)>>

\* sjf_replan and sjf_desa_replan lock what they use, ...
SjfReplan == Con("next_2", Con("ready_4", EnElMapa))

\* ... hrrn_replan the map of ESIs for each one, and fifo_replan nothing.
HrrnReplan == EnElMapa

Replan == CASE algorithm = "FIFO" -> << >>
            [] algorithm = "HRRN" -> HrrnReplan
            [] OTHER -> SjfReplan

\* Mutant: the lists are locked whatever the algorithm locks by itself.
FinishRunningLocked == Con("next_2", Con("ready_4", Replan))

\* fifo_finish_esi and hrrn_finish_esi lock the lists for theirs.
FifoFinishEsi == Con("next_2", Con("ready_4", << >>))
HrrnFinishEsi == Con("next_2", Con("ready_4", HrrnReplan))

FinishRunningEsi == CASE algorithm = "FIFO" -> FifoFinishEsi
                      [] algorithm = "HRRN" -> HrrnFinishEsi
                      [] OTHER -> SjfReplan

\* The one that runs is blocked, or another.
FifoBlockEsi == Con("running_1", Con("next_2", Con("blocked_3", Con("ready_4", << >>))))

HrrnBlockEsi == Con("running_1", Con("next_2", Con("blocked_3",
                    Con("ready_4", <<Elige({HrrnReplan, << >>})>>))))

SjfBlockEsi == Con("running_1", Con("blocked_3", <<Elige({SjfReplan, <<Pasa("ready_4")>>})>>))

BlockByAlgorithm == CASE algorithm = "FIFO" -> FifoBlockEsi
                      [] algorithm = "HRRN" -> HrrnBlockEsi
                      [] OTHER -> SjfBlockEsi

\* sjf_add_esi and hrrn_add_esi estimate a burst; only sjf_desa_add_esi looks at
\* who runs, and may plan again.
SjfAddEsi == Con("ready_4", EnElMapa)
SjfDesaAddEsi == SjfAddEsi \o Con("running_1", <<Elige({SjfReplan, << >>})>>)

AddEsiByAlgorithm ==
    CASE algorithm = "FIFO" -> <<Pasa("ready_4")>>
      [] algorithm = "SJF_DESALOJO" -> SjfDesaAddEsi
      [] OTHER -> SjfAddEsi

\* bloquear_recurso: the resource is free, or the ESI blocks.
BloquearRecurso ==
    <<Elige({ <<Pasa("blocked_resources")>>,
              Con("blocked_resources",
                  EnElMapa \o BlockByAlgorithm \o <<Pasa("blocked_by_resource")>> \o EnElMapa) })>>

UnblockEsi == Con("blocked_3", EnElMapa) \o EnElMapa \o AddEsiByAlgorithm \o NotifyDispatcher

\* free_resource: somebody waits for it, or nobody.
FreeResource ==
    <<Elige({ Con("blocked_by_resource", Con("blocked_resources", EnElMapa)) \o UnblockEsi,
              Con("blocked_by_resource", <<Pasa("blocked_resources")>>) })>>

\* finish_esi, of an ESI taken out of its list by the program given; the ESI
\* had some resource or none, and nobody may be left to run.
FinishEsi(quita) ==
    EnElMapa \o quita \o EnElMapa \o <<Pasa("finished_5"), Pasa("blocked_resources")>>
        \o <<Elige({FreeResource, << >>}), Si("durmiendo", <<Elige({Replan \o NotifyDispatcher, << >>})>>)>>

BorradoDeFinish == Con("finished_5", EnElMapa)

-----------------------------------------------------------------------------
(* The dispatcher *)

\* Mutant: it tells the console that it stops, and goes on.
AtomicExecutionSinEsperar ==
    <<Si("paused", <<Signal("paused_planification")>>),
      Si("permission_to_block_acquired", <<Signal("permission_to_block")>>)>>

AtomicExecution ==
    <<Si("paused", <<Signal("paused_planification"),
                     Wait("resume_planification", "dispatcher_manager")>>),
      Si("permission_to_block_acquired",
         <<Signal("permission_to_block"),
           Wait("permission_to_block_released", "dispatcher_manager")>>)>>

\* After a result: the ESI may have failed, ...
CheckExecutionError == <<Elige({FinishEsi(FinishRunningEsi), << >>})>>

\* ... may be over, and there may be nobody to run next: RUNNING_ESI is then 0
\* and the mutex stays locked.
CierraTurno == <<Elige({FinishEsi(FinishRunningEsi), << >>}),
                 Elige({<<Pon("durmiendo", TRUE)>>, <<Unlock("dispatcher_manager")>>})>>

\* The ESI does not take the order, or its result does not come.
SinResultado == <<Unlock("dispatcher_manager")>> \o FinishEsi(FinishRunningEsi)

\* One turn of the loop of dispatch.
Dispatch ==
    <<Lock("dispatcher_manager")>> \o AtomicExecution
        \o <<Si("durmiendo", Replan), Pon("durmiendo", FALSE)>> \o EnElMapa
        \o <<Elige({ SinResultado,
                     <<Manda("sentencia"), Recibe("resultado")>> \o CheckExecutionError
                         \o BorradoDeFinish \o CierraTurno })>>

-----------------------------------------------------------------------------
(* The connection with the coordinator, the connections of ESIs *)

\* GET, SET and STORE.
ConnectToCoordinator ==
    <<Recibe("sentencia"), Elige({BloquearRecurso, <<Pasa("blocked_resources")>>, FreeResource}),
      Manda("resultado")>>

EsiConnectionHandler == EnElMapa \o AddEsiByAlgorithm \o NotifyDispatcher

-----------------------------------------------------------------------------
(* The console *)

PauseDispatcher ==
    <<Pon("paused", TRUE),
      TryLock("dispatcher_manager",
              <<Unlock("dispatcher_manager"), Lock("pause_manager"),
                Wait("paused_planification", "pause_manager")>>)>>

ResumeDispatcher ==
    <<Pon("paused", FALSE), Signal("resume_planification"), Unlock("pause_manager")>>

AcquirePermissionToBlock ==
    <<Pon("permission_to_block_acquired", TRUE), Lock("permission_to_block_manager"),
      Wait("permission_to_block", "permission_to_block_manager")>>

ReleasePermissionToBlock ==
    <<Pon("permission_to_block_acquired", FALSE), Signal("permission_to_block_released"),
      Unlock("permission_to_block_manager")>>

\* block_cmd: of an ESI that runs, or of a ready one.
BlockCmd == EnElMapa \o <<Pasa("blocked_resources")>>
                \o <<Elige({ AcquirePermissionToBlock \o BloquearRecurso \o ReleasePermissionToBlock,
                             BloquearRecurso })>>

\* unblock_cmd keeps the map of queues while it unblocks.
UnblockCmd == Con("blocked_by_resource", <<Elige({EnElMapa \o UnblockEsi, <<Pasa("blocked_resources")>>})>>)

KillCmd == EnElMapa \o FinishEsi(<<Pasa("blocked_3")>>)

\* Mutant: the map of ESIs is locked before the list.
DeadlockCmdBackwards == Con("esi_map_6", Con("blocked_3", <<Pasa("blocked_by_resource")>>))

\* deadlock_cmd; DEADLOCK_ENCONTRADO_MUTEX is of this thread alone.
DeadlockCmd == Con("blocked_3", Con("esi_map_6", <<Pasa("blocked_by_resource")>>))

ListCmd == <<Pasa("blocked_by_resource")>>

\* status_cmd looks at the queue without its mutex and asks the coordinator, with
\* nothing locked.
StatusCmd == <<Elige({ListCmd, << >>})>>

Comandos == {PauseDispatcher, ResumeDispatcher, BlockCmd, UnblockCmd, KillCmd, DeadlockCmd, ListCmd,
             StatusCmd}

-----------------------------------------------------------------------------
(* Threads *)

Corre(t, ins) == programa[t] # << >> /\ Head(programa[t]).ins = ins

\* A choice, and the unlock of what only mutexes guard, touch nothing that another
\* thread could see in another order: they follow the step before at once.
Interno(t) == Corre(t, "elige") \/ (Corre(t, "unlock") /\ Head(programa[t]).m \in DeDatos)

Turno(t) == \A h \in Hilos \ {t} : ~Interno(h)

Sigue(t, p) == programa' = [programa EXCEPT ![t] = p \o Tail(@)]

LockStep(t) ==
    /\ Corre(t, "lock")
    /\ dueno[Head(programa[t]).m] = "nadie"
    /\ dueno' = [dueno EXCEPT ![Head(programa[t]).m] = t]
    /\ Sigue(t, << >>)
    /\ UNCHANGED <<bandera, mensajes>>

\* Whoever holds it: dispatcher_manager is used as a semaphore.
UnlockStep(t) ==
    /\ Corre(t, "unlock")
    /\ dueno' = [dueno EXCEPT ![Head(programa[t]).m] = "nadie"]
    /\ Sigue(t, << >>)
    /\ UNCHANGED <<bandera, mensajes>>

PasaStep(t) ==
    /\ Corre(t, "pasa")
    /\ dueno[Head(programa[t]).m] = "nadie"
    /\ Sigue(t, << >>)
    /\ UNCHANGED <<dueno, bandera, mensajes>>

TryLockStep(t) ==
    /\ Corre(t, "trylock")
    /\ LET m == Head(programa[t]).m IN
       IF dueno[m] = "nadie"
       THEN dueno' = [dueno EXCEPT ![m] = t] /\ Sigue(t, Head(programa[t]).si)
       ELSE UNCHANGED dueno /\ Sigue(t, << >>)
    /\ UNCHANGED <<bandera, mensajes>>

WaitStep(t) ==
    /\ Corre(t, "wait")
    /\ LET i == Head(programa[t]) IN
       /\ dueno' = [dueno EXCEPT ![i.m] = "nadie"]
       /\ Sigue(t, <<Duerme(i.c, i.m)>>)
    /\ UNCHANGED <<bandera, mensajes>>

\* Nobody else ever waits on the same condition, and a signal to nobody is lost.
SignalStep(t) ==
    /\ Corre(t, "signal")
    /\ LET c == Head(programa[t]).c
           despierta(h) == Corre(h, "duerme") /\ Head(programa[h]).c = c
       IN  programa' = [h \in Hilos |->
                          CASE h = t -> Tail(programa[t])
                            [] h # t /\ despierta(h) ->
                                 <<Lock(Head(programa[h]).m)>> \o Tail(programa[h])
                            [] OTHER -> programa[h]]
    /\ UNCHANGED <<dueno, bandera, mensajes>>

PonStep(t) ==
    /\ Corre(t, "pon")
    /\ LET i == Head(programa[t]) IN bandera' = [bandera EXCEPT ![i.b] = i.valor]
    /\ Sigue(t, << >>)
    /\ UNCHANGED <<dueno, mensajes>>

SiStep(t) ==
    /\ Corre(t, "si")
    /\ Sigue(t, IF bandera[Head(programa[t]).b] THEN Head(programa[t]).p ELSE << >>)
    /\ UNCHANGED <<dueno, bandera, mensajes>>

EligeStep(t) ==
    /\ Corre(t, "elige")
    /\ \E p \in Head(programa[t]).programas : Sigue(t, p)
    /\ UNCHANGED <<dueno, bandera, mensajes>>

MandaStep(t) ==
    /\ Corre(t, "manda")
    /\ LET msj == Head(programa[t]).msj IN
       mensajes' = IF msj = "resultado" /\ mensajes["perdido"] > 0
                   THEN [mensajes EXCEPT !["perdido"] = @ - 1]
                   ELSE [mensajes EXCEPT ![msj] = @ + 1]
    /\ Sigue(t, << >>)
    /\ UNCHANGED <<dueno, bandera>>

RecibeStep(t) ==
    /\ Corre(t, "recibe")
    /\ mensajes[Head(programa[t]).msj] > 0
    /\ mensajes' = [mensajes EXCEPT ![Head(programa[t]).msj] = @ - 1]
    /\ Sigue(t, << >>)
    /\ UNCHANGED <<dueno, bandera>>

Paso(t) ==
    /\ Turno(t)
    /\ \/ LockStep(t) \/ UnlockStep(t) \/ PasaStep(t) \/ TryLockStep(t)
       \/ WaitStep(t) \/ SignalStep(t)
       \/ PonStep(t) \/ SiStep(t) \/ EligeStep(t) \/ MandaStep(t) \/ RecibeStep(t)
    /\ UNCHANGED <<algorithm, cuenta>>

\* A thread with nothing to run goes round its loop.
Empieza(t, p) ==
    /\ programa[t] = << >> /\ Turno(t)
    /\ programa' = [programa EXCEPT ![t] = p]
    /\ UNCHANGED <<algorithm, dueno, bandera, mensajes>>

Vuelve == \/ Empieza("despachador", Dispatch) /\ UNCHANGED cuenta
          \/ Empieza("coordinador", ConnectToCoordinator) /\ UNCHANGED cuenta

Sucede(suceso, limite) ==
    /\ cuenta[suceso] < limite
    /\ cuenta["comandos"] + cuenta["conexiones"] + cuenta["interrupciones"] < MaxSucesos
    /\ cuenta' = [cuenta EXCEPT ![suceso] = @ + 1]

Teclea == /\ Sucede("comandos", MaxComandos)
          /\ \E p \in Comandos : Empieza("consola", p)

Conecta == /\ Sucede("conexiones", MaxConexiones)
           /\ Empieza("conexion", EsiConnectionHandler)

\* An ESI is interrupted after it sent its sentence: the dispatcher does not get
\* the result, and what the coordinator will answer goes nowhere.
Interrumpe ==
    /\ Corre("despachador", "recibe") /\ Turno("despachador")
    /\ Sucede("interrupciones", MaxInterrupciones)
    /\ programa' = [programa EXCEPT !["despachador"] = SinResultado]
    /\ mensajes' = IF mensajes["resultado"] > 0 THEN [mensajes EXCEPT !["resultado"] = @ - 1]
                   ELSE [mensajes EXCEPT !["perdido"] = @ + 1]
    /\ UNCHANGED <<algorithm, dueno, bandera>>

\* init_dispatcher has locked the mutex of the dispatcher.
Init ==
    /\ algorithm \in Algoritmos
    /\ programa = [t \in Hilos |-> << >>]
    /\ dueno = [m \in Mutexes |-> IF m = "dispatcher_manager" THEN "principal" ELSE "nadie"]
    /\ bandera = [b \in {"paused", "permission_to_block_acquired", "durmiendo"} |-> b = "durmiendo"]
    /\ mensajes = [msj \in {"sentencia", "resultado", "perdido"} |-> 0]
    /\ cuenta = [c \in {"comandos", "conexiones", "interrupciones"} |-> 0]

Next == Vuelve \/ Teclea \/ Conecta \/ Interrumpe \/ \E t \in Hilos : Paso(t)

Spec == Init /\ [][Next]_vars

-----------------------------------------------------------------------------
(* Properties *)

TypeOK ==
    /\ algorithm \in Algoritmos
    /\ \A t \in Hilos : programa[t] # << >> =>
         Head(programa[t]).ins \in {"lock", "unlock", "pasa", "trylock", "wait", "duerme", "signal",
                                   "pon", "si", "elige", "manda", "recibe"}
    /\ dueno \in [Mutexes -> Hilos \cup {"nadie", "principal"}]
    /\ bandera \in [{"paused", "permission_to_block_acquired", "durmiendo"} -> BOOLEAN]
    /\ mensajes \in [{"sentencia", "resultado", "perdido"} -> 0 .. MaxInterrupciones + 1]

\* The thread that t waits for, to lock a mutex of the data.
Espera(t) ==
    IF programa[t] = << >> \/ Head(programa[t]).ins \notin {"lock", "pasa"} THEN "nadie"
    ELSE IF Head(programa[t]).m \in DeDatos THEN dueno[Head(programa[t]).m] ELSE "nadie"

\* Whatever the algorithm, no handler locks a mutex of the data that a caller
\* of it has locked: fifo_replan and hrrn_replan leave to their callers what
\* sjf_replan locks itself.  With the types of the variables.
NadieSeEsperaASiMismo == TypeOK /\ \A t \in Hilos : Espera(t) # t

\* Two threads that wait for each other, or three in a circle.
EnCirculo(t) ==
    LET u == Espera(t) IN
    u \in Hilos /\ LET v == Espera(u) IN v = t \/ (v \in Hilos /\ Espera(v) = t)

\* The mutexes of the lists, of who runs and of the map of ESIs never leave two
\* threads waiting for each other: in every circle somebody has the map of the
\* queues of resources locked.
SoloPorLasColas ==
    \A t \in Hilos : EnCirculo(t) => dueno["blocked_by_resource"] \in Hilos

\* The console was told that the dispatcher stopped, and answered so.
Avisada == /\ bandera["paused"] /\ programa["consola"] = << >>
           /\ dueno["pause_manager"] = "consola"

OrdenaSentencia == Corre("despachador", "manda") /\ programa'["despachador"] # programa["despachador"]

\* A console that was told that the dispatcher stopped sees no sentence run
\* until it resumes, whoever connects meanwhile.
PausaDetiene == [][ Avisada => ~OrdenaSentencia ]_vars

\* While the console blocks the ESI that runs, no sentence of it is on its way.
BloqueoEntreTurnos ==
    /\ dueno["permission_to_block_manager"] = "consola" /\ ~Corre("consola", "wait")
    /\ bandera["permission_to_block_acquired"]
    => ~Corre("despachador", "manda") /\ ~Corre("despachador", "recibe")
=============================================================================
