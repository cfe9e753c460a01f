--------------------------- MODULE Rafagas_proofs ----------------------------
(***************************************************************************)
(* The bursts of Rafagas, for any ESIs, scripts, algorithm and parameters  *)
(* of the estimate, and any number of blocks and turns.                    *)
(***************************************************************************)
EXTENDS Rafagas, TLAPS, WellFoundedInduction, SequenceTheorems, FiniteSetTheorems

Esi == [estado : {"ausente", "NUEVO", "CORRIENDO", "BLOQUEADO", "DESBLOQUEADO", "FINALIZADO", "borrado"},
        largo : Nat, instruction_pointer : Int,
        anterior_instruction_pointer : Int, duracion_real_ultima_rafaga : Int,
        estimacion_ultima_rafaga : Int, ultima_entrada_a_ready : Int]

Tipos ==
    /\ esi \in [ESIs -> Esi] /\ rafaga \in [ESIs -> Int]
    /\ RUNNING_ESI \in ESIs \cup {Ninguno}
    /\ cpu_time \in Nat /\ comandos \in Nat /\ aDestiempo \in BOOLEAN
    /\ pedidos \subseteq interrumpidos

\* How the running ESI is while the dispatcher is in its turn.  Under preemption it
\* may have been blocked when it was given the turn, and a queue may wake it then.
EnTurno ==
    /\ pc \in {"sentencia", "almacenada"} =>
         /\ RUNNING_ESI \in ESIs /\ esi[RUNNING_ESI].estado \in {"CORRIENDO", "DESBLOQUEADO"}
         /\ esi[RUNNING_ESI].instruction_pointer > 0
    /\ pc = "cerrar" =>
         RUNNING_ESI \in ESIs /\ esi[RUNNING_ESI].estado \in {"CORRIENDO", "DESBLOQUEADO", "BLOQUEADO"}
    /\ pc = "fallado" => RUNNING_ESI \in ESIs /\ esi[RUNNING_ESI].estado = "FINALIZADO"
    /\ pc \in {"almacenada", "cerrar", "fallado"} /\ ~caido => RUNNING_ESI \notin interrumpidos

\* It has blocked, and its sentence is still to be taken back.
PorRetroceder(e) == e = RUNNING_ESI /\ pc = "cerrar" /\ esi[e].estado = "BLOQUEADO"

\* One that has been interrupted with no sentence on its way blocks no more.
PuedeBloquearse(e) == e \in interrumpidos => e \in pedidos

\* The pointers of each ESI count its turns since it last blocked.
Cuentan == \A e \in ESIs :
    LET s == esi[e]
    IN  /\ s.instruction_pointer >= 0
        /\ s.estado = "ausente" => s.instruction_pointer = 0 /\ s.anterior_instruction_pointer = 0
        /\ PuedeBloquearse(e) =>
             IF PorRetroceder(e)
             THEN /\ rafaga[e] = 0 /\ s.instruction_pointer > 0
                  /\ s.instruction_pointer = s.anterior_instruction_pointer
             ELSE rafaga[e] = DuracionReal(s)

IInv == Tipos /\ (SinSorpresas => EnTurno /\ Cuentan)

-----------------------------------------------------------------------------
(* Records of ESIs *)

LEMMA EsiNuevoKeeps ==
  EsiNuevo \in Esi /\ EsiNuevo.instruction_pointer = 0 /\ EsiNuevo.anterior_instruction_pointer = 0
<1>1. initial_estimation * ESCALA \in Int
  BY ConfiguracionAssumption
<1> QED
  BY <1>1 DEF EsiNuevo, Esi

\* Becoming ready changes the estimate, and not what bursts are counted with.
LEMMA ListoKeeps ==
  ASSUME ConfiguracionAssumption, cpu_time \in Nat, NEW s \in Esi
  PROVE  /\ Listo(s) \in Esi
         /\ Listo(s).estado = s.estado
         /\ Listo(s).instruction_pointer = s.instruction_pointer
         /\ Listo(s).anterior_instruction_pointer = s.anterior_instruction_pointer
<1>1. EstimateNextCpuBurst(s) \in Int
  <2>1. alpha \in Int /\ initial_estimation \in Int /\ ESCALA \in Int
    BY ConfiguracionAssumption DEF ConfiguracionAssumption
  <2>2. s.duracion_real_ultima_rafaga \in Int /\ s.estimacion_ultima_rafaga \in Int
    BY DEF Esi
  <2>3. alpha * s.duracion_real_ultima_rafaga * ESCALA + (100 - alpha) * s.estimacion_ultima_rafaga \in Int
    BY <2>1, <2>2
  <2>4. initial_estimation * ESCALA \in Int
    BY <2>1
  <2> DEFINE n == alpha * s.duracion_real_ultima_rafaga * ESCALA + (100 - alpha) * s.estimacion_ultima_rafaga
  <2> HIDE DEF n
  <2>5. n \div 100 \in Int
    BY <2>3 DEF n
  <2> QED
    BY <2>4, <2>5 DEF EstimateNextCpuBurst, n
<1>2. (IF algorithm = "HRRN" THEN cpu_time ELSE s.ultima_entrada_a_ready) \in Int
  BY DEF Esi
<1> QED
  BY <1>1, <1>2 DEF Listo, Esi

\* Blocking notes the length of the burst and where it ends.
LEMMA BloqueadoKeeps ==
  ASSUME NEW s \in Esi
  PROVE  /\ Bloqueado(s) \in Esi
         /\ Bloqueado(s).estado = "BLOQUEADO"
         /\ Bloqueado(s).duracion_real_ultima_rafaga = DuracionReal(s)
         /\ Bloqueado(s).instruction_pointer = s.instruction_pointer
         /\ Bloqueado(s).anterior_instruction_pointer = s.instruction_pointer
<1>1. DuracionReal(s) \in Int
  BY DEF DuracionReal, Esi
<1> QED
  BY <1>1 DEF Bloqueado, Esi

\* A step that changes neither pointers nor turns leaves them counting.
LEMMA CuentanStays ==
  ASSUME Tipos, Cuentan, Tipos', UNCHANGED rafaga,
         \A x \in ESIs :
            /\ PuedeBloquearse(x)' => PuedeBloquearse(x)
            /\ esi'[x].instruction_pointer = esi[x].instruction_pointer
            /\ esi'[x].anterior_instruction_pointer = esi[x].anterior_instruction_pointer
            /\ esi'[x].estado = "ausente" => esi[x].estado = "ausente"
            /\ PorRetroceder(x)' <=> PorRetroceder(x)
  PROVE  Cuentan'
BY DEF Cuentan, DuracionReal

-----------------------------------------------------------------------------
(* Ready, blocked, unblocked *)

\* The new ESI of the map.
LEMMA NewEsiEstado ==
  ASSUME Tipos, NEW e \in ESIs, NewEsi(e), esi' # esi
  PROVE  \E s \in Esi : /\ esi' = [esi EXCEPT ![e] = s]
                        /\ s.estado = "NUEVO" /\ s.instruction_pointer = 0
                        /\ s.anterior_instruction_pointer = 0
<1>1. PICK n \in Largos : esi' = [esi EXCEPT ![e] = Listo([EsiNuevo EXCEPT !.estado = "NUEVO", !.largo = n])]
  BY Zenon DEF NewEsi, Muere, AddEsiByAlgorithm
<1> DEFINE s == [EsiNuevo EXCEPT !.estado = "NUEVO", !.largo = n]
<1>2. EsiNuevo \in Esi /\ EsiNuevo.instruction_pointer = 0 /\ EsiNuevo.anterior_instruction_pointer = 0
  BY EsiNuevoKeeps
<1>3. s \in Esi /\ s.estado = "NUEVO" /\ s.instruction_pointer = 0 /\ s.anterior_instruction_pointer = 0
  BY <1>2, ConfiguracionAssumption DEF Esi
<1>4. esi' = [esi EXCEPT ![e] = Listo(s)]
  BY <1>1
<1> HIDE DEF s
<1> QED
  BY <1>3, <1>4, ListoKeeps, ConfiguracionAssumption DEF Tipos

LEMMA NewEsiKeeps == ASSUME IInv, NEW e \in ESIs, NewEsi(e) PROVE IInv'
<1>1. /\ esi[e].estado = "ausente" /\ ~caido
      /\ UNCHANGED <<rafaga, RUNNING_ESI, cpu_time, comandos, pc, interrumpidos, pedidos, aDestiempo>>
  BY DEF NewEsi, Muere, turno, proceso, cuentas, tardios
<1>2. CASE esi' = esi
  BY <1>1, <1>2 DEF IInv, Tipos, EnTurno, Cuentan, PuedeBloquearse, PorRetroceder, DuracionReal, SinSorpresas
<1>3. CASE esi' # esi
  <2>1. PICK s \in Esi : /\ esi' = [esi EXCEPT ![e] = s]
                         /\ s.estado = "NUEVO" /\ s.instruction_pointer = 0
                         /\ s.anterior_instruction_pointer = 0
    BY <1>3, NewEsiEstado DEF IInv
  <2>2. Tipos'
    BY <1>1, <2>1 DEF IInv, Tipos
  <2>3. ASSUME SinSorpresas' PROVE EnTurno' /\ Cuentan'
    <3>0. SinSorpresas /\ \A x \in ESIs : PuedeBloquearse(x)' <=> PuedeBloquearse(x)
      BY <1>1, <2>3 DEF SinSorpresas, PuedeBloquearse
    <3>1. e # RUNNING_ESI \/ pc \notin {"sentencia", "almacenada", "cerrar", "fallado"}
      BY <1>1, <3>0 DEF IInv, EnTurno
    <3>2. EnTurno'
      BY <1>1, <2>1, <3>0, <3>1 DEF IInv, Tipos, EnTurno
    <3>3. \A x \in ESIs : PorRetroceder(x)' <=> PorRetroceder(x)
      BY <1>1, <2>1, <3>1 DEF IInv, Tipos, PorRetroceder
    <3>4. Cuentan'
      BY <1>1, <2>1, <2>2, <3>0, <3>3, CuentanStays DEF IInv, Tipos, Cuentan
    <3> QED
      BY <3>2, <3>4
  <2> QED
    BY <2>2, <2>3 DEF IInv
<1> QED
  BY <1>2, <1>3

LEMMA UnblockEsiKeeps ==
  ASSUME Tipos, NEW e \in ESIs, UnblockEsi(e)
  PROVE  /\ esi' = esi \/ esi' = [esi EXCEPT ![e] = Listo([esi[e] EXCEPT !.estado = "DESBLOQUEADO"])]
         /\ esi'[e] = esi[e] \/ esi'[e].estado = "DESBLOQUEADO"
         /\ \A x \in ESIs :
              /\ esi'[x] \in Esi
              /\ x # e => esi'[x] = esi[x]
              /\ esi'[x].instruction_pointer = esi[x].instruction_pointer
              /\ esi'[x].anterior_instruction_pointer = esi[x].anterior_instruction_pointer
              /\ esi'[x].estado = "ausente" => esi[x].estado = "ausente"
         /\ esi' \in [ESIs -> Esi]
         /\ UNCHANGED <<rafaga, RUNNING_ESI, cpu_time>>
<1> DEFINE s == [esi[e] EXCEPT !.estado = "DESBLOQUEADO"]
<1>2. UNCHANGED <<rafaga, RUNNING_ESI, cpu_time>>
  BY DEF UnblockEsi, proceso, turno
<1>3. esi' = esi \/ esi' = [esi EXCEPT ![e] = Listo(s)]
  BY DEF UnblockEsi, AddEsiByAlgorithm
<1>4. /\ s \in Esi /\ s.estado = "DESBLOQUEADO"
      /\ s.instruction_pointer = esi[e].instruction_pointer
      /\ s.anterior_instruction_pointer = esi[e].anterior_instruction_pointer
  BY DEF Tipos, Esi
<1>5. /\ Listo(s) \in Esi /\ Listo(s).estado = "DESBLOQUEADO"
      /\ Listo(s).instruction_pointer = esi[e].instruction_pointer
      /\ Listo(s).anterior_instruction_pointer = esi[e].anterior_instruction_pointer
  BY <1>4, ListoKeeps, ConfiguracionAssumption DEF Tipos
<1> HIDE DEF s
<1>6. CASE esi' = esi
  BY <1>2, <1>6 DEF Tipos
<1>7. CASE esi' = [esi EXCEPT ![e] = Listo(s)]
  BY <1>2, <1>3, <1>5, <1>7 DEF Tipos, s
<1> QED
  BY <1>3, <1>6, <1>7

\* The wake of one that has ended is the last thing that is counted.
LEMMA FreeResourceKeeps == ASSUME IInv, NEW e \in ESIs, FreeResource(e) PROVE IInv'
<1>1. /\ UnblockEsi(e) /\ UNCHANGED <<interrumpidos, pedidos, comandos>>
      /\ \/ UNCHANGED pc
         \/ pc = "sentencia" /\ pc' = "almacenada" /\ RUNNING_ESI \notin interrumpidos
      /\ pc \in {"sentencia", "fallado", "sin_resultado", "terminado"} /\ ~caido
  BY DEF FreeResource, Responde
<1>2. aDestiempo' \in BOOLEAN /\ (~aDestiempo' => ~aDestiempo /\ esi[e].estado # "FINALIZADO")
  BY DEF FreeResource
<1>3. Tipos /\ Tipos'
  BY <1>1, <1>2, UnblockEsiKeeps DEF IInv, Tipos
<1>4. ASSUME SinSorpresas' PROVE EnTurno' /\ Cuentan'
  <2>0. SinSorpresas /\ esi[e].estado # "FINALIZADO" /\ EnTurno /\ Cuentan
    BY <1>1, <1>2, <1>4 DEF SinSorpresas, IInv
  <2>1. EnTurno'
    <3>1. e = RUNNING_ESI => pc # "fallado"
      BY <2>0 DEF EnTurno
    <3> QED
      BY <1>1, <1>3, <2>0, <3>1, UnblockEsiKeeps DEF EnTurno
  <2>2. \A x \in ESIs : ~PorRetroceder(x)' /\ ~PorRetroceder(x)
    BY <1>1 DEF PorRetroceder
  <2>3. \A x \in ESIs : PuedeBloquearse(x)' <=> PuedeBloquearse(x)
    BY <1>1 DEF PuedeBloquearse
  <2>4. Cuentan'
    BY <1>1, <1>3, <2>0, <2>2, <2>3, UnblockEsiKeeps, CuentanStays
  <2> QED
    BY <2>1, <2>4
<1> QED
  BY <1>3, <1>4 DEF IInv

\* The console is out of what is counted: only the types are left.
LEMMA UnblockCmdKeeps == ASSUME IInv, NEW e \in ESIs, UnblockCmd(e) PROVE IInv'
<1>1. UnblockEsi(e) /\ comandos' = comandos + 1 /\ UNCHANGED tardios
  BY DEF UnblockCmd, Comando
<1>2. esi' \in [ESIs -> Esi] /\ UNCHANGED <<rafaga, RUNNING_ESI, cpu_time>>
  BY <1>1, UnblockEsiKeeps DEF IInv
<1> QED
  BY <1>1, <1>2 DEF IInv, Tipos, SinSorpresas, tardios

LEMMA BlockEsiKeeps ==
  ASSUME Tipos, NEW e \in ESIs, BlockEsi(e)
  PROVE  /\ esi' \in [ESIs -> Esi] /\ rafaga' \in [ESIs -> Int]
         /\ esi'[e] = Bloqueado(esi[e]) /\ rafaga'[e] = 0
         /\ \A x \in ESIs \ {e} : esi'[x] = esi[x] /\ rafaga'[x] = rafaga[x]
BY BloqueadoKeeps DEF BlockEsi, Tipos

LEMMA BlockCmdKeeps == ASSUME IInv, NEW e \in ESIs, BlockCmd(e) PROVE IInv'
<1>1. UNCHANGED <<esi, rafaga>> \/ BlockEsi(e)
  BY DEF BlockCmd
<1>2. comandos' = comandos + 1 /\ UNCHANGED <<RUNNING_ESI, cpu_time, interrumpidos, pedidos, aDestiempo>>
  BY DEF BlockCmd, Comando, tardios
<1> QED
  BY <1>1, <1>2, BlockEsiKeeps DEF IInv, Tipos, SinSorpresas

\* A late sentence is either the last that is counted or one that does nothing.
LEMMA PedidoTardioKeeps == ASSUME IInv, NEW e \in ESIs, PedidoTardio(e) PROVE IInv'
<1>1. UNCHANGED <<pc, interrumpidos, comandos>> /\ pedidos' = pedidos \ {e} /\ ~caido
  BY DEF PedidoTardio
<1>2. CASE BlockEsi(e) /\ aDestiempo' = TRUE /\ UNCHANGED <<RUNNING_ESI, cpu_time>>
  BY <1>1, <1>2, BlockEsiKeeps DEF IInv, Tipos, SinSorpresas
<1>3. CASE (\E x \in ESIs : UnblockEsi(x)) /\ aDestiempo' = TRUE
  BY <1>1, <1>3, UnblockEsiKeeps DEF IInv, Tipos, SinSorpresas
<1>4. CASE UNCHANGED <<esi, rafaga, RUNNING_ESI, cpu_time, aDestiempo>>
  <2>1. Tipos'
    BY <1>1, <1>4 DEF IInv, Tipos
  <2>2. ASSUME SinSorpresas' PROVE EnTurno' /\ Cuentan'
    <3>1. EnTurno /\ Cuentan
      BY <1>1, <1>4, <2>2 DEF IInv, SinSorpresas
    <3>2. \A x \in ESIs : /\ PuedeBloquearse(x)' => PuedeBloquearse(x)
                          /\ PorRetroceder(x)' <=> PorRetroceder(x)
      BY <1>1, <1>4 DEF PuedeBloquearse, PorRetroceder
    <3> QED
      BY <1>1, <1>4, <2>1, <3>1, <3>2, CuentanStays DEF EnTurno, IInv
  <2> QED
    BY <2>1, <2>2 DEF IInv
<1> QED
  BY <1>2, <1>3, <1>4 DEF PedidoTardio, turno, proceso

-----------------------------------------------------------------------------
(* The turn of the dispatcher *)

LEMMA MuereKeeps == ASSUME IInv, Muere PROVE IInv'
<1>1. caido' /\ UNCHANGED <<esi, rafaga, RUNNING_ESI, cpu_time, comandos, pc, interrumpidos, pedidos, aDestiempo>>
  BY DEF Muere, turno, proceso, cuentas, tardios
<1> QED
  BY <1>1 DEF IInv, Tipos, EnTurno, Cuentan, PuedeBloquearse, PorRetroceder, DuracionReal, SinSorpresas

LEMMA DespachaKeeps == ASSUME IInv, Despacha PROVE IInv'
<1>1. CASE Muere
  BY <1>1, MuereKeeps
<1>2. CASE ~Muere
  <2>1. PICK e \in ESIs :
          /\ esi[e].estado # "ausente"
          /\ esi' = [esi EXCEPT ![e].estado = "CORRIENDO", ![e].instruction_pointer = @ + 1]
          /\ rafaga' = [rafaga EXCEPT ![e] = @ + 1]
          /\ RUNNING_ESI' = e
    BY <1>2 DEF Despacha, EnMapa
  <2>2. /\ pc = "adquirir" /\ pc' = "sentencia"
        /\ UNCHANGED <<cpu_time, comandos, interrumpidos, pedidos, aDestiempo>>
    BY <1>2 DEF Despacha, Despachador, cuentas, tardios
  <2>3. /\ esi'[e] \in Esi /\ esi'[e].estado = "CORRIENDO"
        /\ esi'[e].instruction_pointer = esi[e].instruction_pointer + 1
        /\ esi'[e].anterior_instruction_pointer = esi[e].anterior_instruction_pointer
        /\ \A x \in ESIs \ {e} : esi'[x] = esi[x]
    BY <2>1 DEF IInv, Tipos, Esi
  <2>4. Tipos'
    BY <2>1, <2>2, <2>3 DEF IInv, Tipos
  <2>5. ASSUME SinSorpresas' PROVE EnTurno' /\ Cuentan'
    <3>0. Cuentan
      BY <2>2, <2>5 DEF IInv, SinSorpresas
    <3>1. EnTurno'
      BY <2>1, <2>2, <2>3, <3>0 DEF IInv, Tipos, EnTurno, Cuentan, Esi
    <3>2. ASSUME NEW x \in ESIs
          PROVE /\ esi'[x].instruction_pointer >= 0
                /\ esi'[x].estado = "ausente" => esi'[x].instruction_pointer = 0 /\ esi'[x].anterior_instruction_pointer = 0
                /\ PuedeBloquearse(x)' => rafaga'[x] = DuracionReal(esi'[x])
      <4>1. /\ esi[x].instruction_pointer >= 0 /\ (PuedeBloquearse(x)' => rafaga[x] = DuracionReal(esi[x]))
            /\ esi[x].estado = "ausente" => esi[x].instruction_pointer = 0 /\ esi[x].anterior_instruction_pointer = 0
        BY <2>2, <3>0 DEF Cuentan, PorRetroceder, PuedeBloquearse
      <4>2. CASE x # e
        BY <2>1, <2>3, <4>1, <4>2 DEF IInv, Tipos
      <4>3. CASE x = e
        BY <2>1, <2>3, <4>1, <4>3 DEF IInv, Tipos, DuracionReal, Esi
      <4> QED
        BY <4>2, <4>3
    <3>3. \A x \in ESIs : ~PorRetroceder(x)'
      BY <2>2 DEF PorRetroceder
    <3> QED
      BY <3>1, <3>2, <3>3 DEF Cuentan
  <2> QED
    BY <2>4, <2>5 DEF IInv
<1> QED
  BY <1>1, <1>2

LEMMA EjecutaKeeps == ASSUME IInv, Ejecuta PROVE IInv'
<1>1. /\ pc \in {"sentencia", "almacenada"} /\ pc' = "cerrar" /\ RUNNING_ESI \notin interrumpidos
      /\ UNCHANGED <<esi, rafaga, RUNNING_ESI, cpu_time, comandos, interrumpidos, pedidos, aDestiempo>>
  BY DEF Ejecuta, Responde, turno, cuentas, tardios
<1> QED
  BY <1>1 DEF IInv, Tipos, EnTurno, Cuentan, PuedeBloquearse, PorRetroceder, DuracionReal, SinSorpresas

LEMMA SeBloqueaKeeps == ASSUME IInv, SeBloquea PROVE IInv'
<1>1. CASE Muere
  BY <1>1, MuereKeeps
<1>2. CASE ~Muere
  <2>1. /\ pc = "sentencia" /\ pc' = "cerrar" /\ BlockEsi(RUNNING_ESI) /\ RUNNING_ESI \notin interrumpidos
        /\ UNCHANGED <<RUNNING_ESI, cpu_time, comandos, interrumpidos, pedidos, aDestiempo>>
    BY <1>2 DEF SeBloquea, Responde, tardios
  <2>2. CASE SinSorpresas
    <3>1. RUNNING_ESI \in ESIs /\ esi[RUNNING_ESI].instruction_pointer > 0
      BY <2>1, <2>2 DEF IInv, EnTurno
    <3>2. Tipos'
      BY <2>1, <3>1, BlockEsiKeeps DEF IInv, Tipos
    <3>3. EnTurno'
      BY <2>1, <3>1, BlockEsiKeeps, BloqueadoKeeps DEF IInv, Tipos, EnTurno
    <3>4. \A x \in ESIs \ {RUNNING_ESI} : ~PorRetroceder(x) /\ ~PorRetroceder(x)'
      BY <2>1 DEF PorRetroceder
    <3>5. PorRetroceder(RUNNING_ESI)'
      BY <2>1, <3>1, BlockEsiKeeps, BloqueadoKeeps DEF IInv, Tipos, PorRetroceder
    <3>6. Cuentan'
      BY <2>1, <2>2, <3>1, <3>4, <3>5, BlockEsiKeeps, BloqueadoKeeps
         DEF IInv, Tipos, Cuentan, PuedeBloquearse
    <3> QED
      BY <3>2, <3>3, <3>6 DEF IInv
  <2>3. CASE ~SinSorpresas
    <3>1. CASE RUNNING_ESI \in ESIs
      BY <2>1, <2>3, <3>1, BlockEsiKeeps DEF IInv, Tipos, SinSorpresas
    <3>2. CASE RUNNING_ESI \notin ESIs
      BY <2>1, <2>3, <3>2 DEF IInv, Tipos, BlockEsi, SinSorpresas
    <3> QED
      BY <3>1, <3>2
  <2> QED
    BY <2>2, <2>3
<1> QED
  BY <1>1, <1>2

\* The end of the running ESI, in the three places where it comes.  One that is
\* interrupted after it has blocked is out of what is counted.
LEMMA FinishEsiKeeps ==
  ASSUME IInv, FinishEsi(RUNNING_ESI), UNCHANGED <<rafaga, RUNNING_ESI, cpu_time, comandos, aDestiempo>>,
         pc' \in {"fallado", "sin_resultado", "terminado"},
         pc \in {"sentencia", "almacenada", "cerrar", "terminar"},
         pc' = "fallado" => pc \in {"sentencia", "almacenada"} /\ RUNNING_ESI \notin interrumpidos',
         pc = "cerrar" => ~PuedeBloquearse(RUNNING_ESI)',
         \A x \in ESIs : PuedeBloquearse(x)' => PuedeBloquearse(x), pedidos' \subseteq interrumpidos'
  PROVE  IInv'
<1>1. esi' = [esi EXCEPT ![RUNNING_ESI].estado = "FINALIZADO"]
  BY DEF FinishEsi
<1>2. \A x \in ESIs :
        /\ esi'[x] \in Esi
        /\ esi'[x].instruction_pointer = esi[x].instruction_pointer
        /\ esi'[x].anterior_instruction_pointer = esi[x].anterior_instruction_pointer
        /\ esi'[x].estado = "ausente" => esi[x].estado = "ausente"
        /\ x = RUNNING_ESI => esi'[x].estado = "FINALIZADO"
  BY <1>1 DEF IInv, Tipos, Esi
<1>3. Tipos'
  BY <1>1, <1>2 DEF IInv, Tipos
<1>4. ASSUME SinSorpresas' PROVE EnTurno' /\ Cuentan'
  <2>0. EnTurno /\ Cuentan
    BY <1>4 DEF IInv, SinSorpresas
  <2>1. EnTurno'
    BY <1>2, <2>0 DEF EnTurno
  <2>2. \A x \in ESIs : ~PorRetroceder(x)' /\ (PuedeBloquearse(x)' => ~PorRetroceder(x))
    BY DEF PorRetroceder
  <2>3. ASSUME NEW x \in ESIs
        PROVE  /\ esi'[x].instruction_pointer >= 0
               /\ esi'[x].estado = "ausente" => esi'[x].instruction_pointer = 0 /\ esi'[x].anterior_instruction_pointer = 0
               /\ PuedeBloquearse(x)' => rafaga'[x] = DuracionReal(esi'[x])
    BY <1>2, <2>0, <2>2 DEF Cuentan, DuracionReal
  <2>4. Cuentan'
    BY <2>2, <2>3 DEF Cuentan
  <2> QED
    BY <2>1, <2>4
<1> QED
  BY <1>3, <1>4 DEF IInv

LEMMA FallaKeeps == ASSUME IInv, Falla PROVE IInv'
BY MuereKeeps, FinishEsiKeeps
   DEF Falla, Responde, proceso, cuentas, tardios, PuedeBloquearse, IInv, Tipos

LEMMA SinResultadoKeeps == ASSUME IInv, SinResultado PROVE IInv'
<1>0. /\ UNCHANGED <<rafaga, RUNNING_ESI, cpu_time, comandos, aDestiempo>>
      /\ \/ /\ pc \in {"sentencia", "almacenada", "cerrar"} /\ RUNNING_ESI \notin interrumpidos
            /\ interrumpidos' = interrumpidos \cup {RUNNING_ESI}
            /\ UNCHANGED pedidos \/ (pc = "sentencia" /\ pedidos' = pedidos \cup {RUNNING_ESI})
         \/ pc = "sentencia" /\ UNCHANGED <<interrumpidos, pedidos>>
  <2>1. UNCHANGED <<rafaga, RUNNING_ESI, cpu_time, comandos, aDestiempo>>
    BY DEF SinResultado, proceso, cuentas
  <2>2. Interrumpe => /\ pc \in {"sentencia", "almacenada", "cerrar"}
                      /\ RUNNING_ESI \notin interrumpidos
                      /\ interrumpidos' = interrumpidos \cup {RUNNING_ESI}
                      /\ UNCHANGED pedidos \/ (pc = "sentencia" /\ pedidos' = pedidos \cup {RUNNING_ESI})
    BY DEF Interrumpe
  <2>3. Interrumpe \/ (pc = "sentencia" /\ UNCHANGED <<interrumpidos, pedidos>>)
    BY DEF SinResultado
  <2> QED
    BY <2>1, <2>2, <2>3
<1>1. /\ pc \in {"sentencia", "almacenada", "cerrar"}
      /\ \A x \in ESIs : PuedeBloquearse(x)' => PuedeBloquearse(x)
      /\ pc = "cerrar" => ~PuedeBloquearse(RUNNING_ESI)'
      /\ pedidos' \subseteq interrumpidos'
  BY <1>0 DEF PuedeBloquearse, IInv, Tipos
<1>2. CASE FinishMata
  <2>1. UNCHANGED <<esi, pc>> /\ caido'
    BY <1>2 DEF SinResultado
  <2> QED
    BY <1>0, <1>1, <2>1 DEF IInv, Tipos, EnTurno, Cuentan, PuedeBloquearse, PorRetroceder,
                            DuracionReal, SinSorpresas
<1>3. CASE ~FinishMata
  <2>1. FinishEsi(RUNNING_ESI) /\ pc' = "sin_resultado"
    BY <1>3 DEF SinResultado
  <2> QED
    BY <1>0, <1>1, <2>1, FinishEsiKeeps
<1> QED
  BY <1>2, <1>3

LEMMA TerminaKeeps == ASSUME IInv, Termina PROVE IInv'
BY MuereKeeps, FinishEsiKeeps
   DEF Termina, Despachador, proceso, cuentas, tardios, PuedeBloquearse, IInv, Tipos

LEMMA SigueSinResultadoKeeps == ASSUME IInv, SigueSinResultado PROVE IInv'
<1>1. /\ pc = "sin_resultado" /\ pc' = "adquirir"
      /\ UNCHANGED <<esi, rafaga, RUNNING_ESI, cpu_time, comandos, interrumpidos, pedidos, aDestiempo>>
  BY DEF SigueSinResultado, Despachador, turno, proceso, cuentas, tardios
<1> QED
  BY <1>1 DEF IInv, Tipos, EnTurno, Cuentan, PuedeBloquearse, PorRetroceder, DuracionReal, SinSorpresas

LEMMA TerminaTurnoKeeps == ASSUME IInv, TerminaTurno PROVE IInv'
<1>1. /\ pc = "terminado" /\ pc' = "adquirir" /\ RUNNING_ESI' \in {RUNNING_ESI, Ninguno}
      /\ UNCHANGED <<esi, rafaga, cpu_time, comandos, interrumpidos, pedidos, aDestiempo>>
  BY DEF TerminaTurno, Despachador, proceso, cuentas, tardios
<1> QED
  BY <1>1 DEF IInv, Tipos, EnTurno, Cuentan, PuedeBloquearse, PorRetroceder, DuracionReal, SinSorpresas

LEMMA CierraTurnoKeeps == ASSUME IInv, CierraTurno PROVE IInv'
<1>1. CASE Muere
  BY <1>1, MuereKeeps
<1>2. CASE ~Muere
  <2> DEFINE quedan == [x \in ESIs |-> IF x \in FINISHED_ESI_LIST
                                       THEN [esi[x] EXCEPT !.estado = "borrado"] ELSE esi[x]]
             mapa == IF esi[RUNNING_ESI].estado = "BLOQUEADO"
                     THEN [quedan EXCEPT ![RUNNING_ESI].instruction_pointer = @ - 1] ELSE quedan
  <2>1. /\ pc \in {"cerrar", "fallado"} /\ esi' = mapa /\ cpu_time' = cpu_time + 1
        /\ pc' \in {"adquirir", "terminar"} /\ RUNNING_ESI' \in {RUNNING_ESI, Ninguno}
        /\ UNCHANGED <<rafaga, comandos, interrumpidos, pedidos, aDestiempo>> /\ ~caido
    BY <1>2 DEF CierraTurno, proceso, cuentas, tardios
  <2>2. /\ quedan \in [ESIs -> Esi]
        /\ \A x \in ESIs :
             /\ quedan[x].instruction_pointer = esi[x].instruction_pointer
             /\ quedan[x].anterior_instruction_pointer = esi[x].anterior_instruction_pointer
             /\ quedan[x].estado = "ausente" => esi[x].estado = "ausente"
    BY DEF IInv, Tipos, Esi
  <2> HIDE DEF quedan
  <2>3. mapa \in [ESIs -> Esi]
    <3>1. CASE RUNNING_ESI \in ESIs
      <4>1. [quedan[RUNNING_ESI] EXCEPT !.instruction_pointer = @ - 1] \in Esi
        BY <2>2, <3>1 DEF Esi
      <4> QED
        BY <2>2, <4>1
    <3>2. CASE RUNNING_ESI \notin ESIs
      BY <2>2, <3>2
    <3> QED
      BY <3>1, <3>2
  <2>4. \A x \in ESIs :
          /\ mapa[x].instruction_pointer =
               IF x = RUNNING_ESI /\ esi[x].estado = "BLOQUEADO"
               THEN esi[x].instruction_pointer - 1 ELSE esi[x].instruction_pointer
          /\ mapa[x].anterior_instruction_pointer = esi[x].anterior_instruction_pointer
          /\ mapa[x].estado = "ausente" => esi[x].estado = "ausente"
    BY <2>2 DEF Esi
  <2> HIDE DEF mapa
  <2>5. Tipos'
    BY <2>1, <2>3 DEF IInv, Tipos
  <2>6. ASSUME SinSorpresas' PROVE EnTurno' /\ Cuentan'
    <3>0. EnTurno /\ Cuentan
      BY <2>1, <2>6 DEF IInv, SinSorpresas
    <3>1. EnTurno'
      BY <2>1 DEF EnTurno
    <3>2. ASSUME NEW x \in ESIs
          PROVE  /\ esi'[x].instruction_pointer >= 0
                 /\ esi'[x].estado = "ausente" => esi'[x].instruction_pointer = 0 /\ esi'[x].anterior_instruction_pointer = 0
                 /\ PuedeBloquearse(x)' => rafaga'[x] = DuracionReal(esi'[x])
      <4>1. /\ x = RUNNING_ESI /\ esi[x].estado = "BLOQUEADO" <=> PorRetroceder(x)
            /\ PuedeBloquearse(x)' <=> PuedeBloquearse(x)
            /\ x = RUNNING_ESI => PuedeBloquearse(x)
        BY <2>1, <3>0 DEF EnTurno, PorRetroceder, PuedeBloquearse
      <4>2. esi[x] \in Esi
        BY DEF IInv, Tipos
      <4>3. CASE PorRetroceder(x)
        <5>1. /\ rafaga[x] = 0 /\ esi[x].instruction_pointer > 0
              /\ esi[x].instruction_pointer = esi[x].anterior_instruction_pointer
              /\ esi[x].estado = "BLOQUEADO"
          BY <3>0, <4>3, <4>1 DEF Cuentan, PorRetroceder
        <5> QED
          BY <2>1, <2>4, <4>1, <4>2, <4>3, <5>1 DEF DuracionReal, Esi
      <4>4. CASE ~PorRetroceder(x)
        BY <2>1, <2>4, <3>0, <4>1, <4>2, <4>4 DEF Cuentan, DuracionReal
      <4> QED
        BY <4>3, <4>4
    <3>3. \A x \in ESIs : ~PorRetroceder(x)'
      BY <2>1 DEF PorRetroceder
    <3> QED
      BY <3>1, <3>2, <3>3 DEF Cuentan
  <2> QED
    BY <2>5, <2>6 DEF IInv
<1> QED
  BY <1>1, <1>2

-----------------------------------------------------------------------------
(* The scheduler *)

LEMMA InitIInv == Init => IInv
<1> SUFFICES ASSUME Init PROVE IInv
  OBVIOUS
<1>1. EsiNuevo \in Esi
  BY EsiNuevoKeeps
<1>2. Tipos
  <2>1. aDestiempo \in BOOLEAN
    BY Zenon DEF Init
  <2> QED
    BY <1>1, <2>1 DEF Init, Tipos
<1>3. EnTurno
  BY DEF Init, EnTurno
<1>4. \A e \in ESIs : esi[e] = EsiNuevo /\ rafaga[e] = 0 /\ ~PorRetroceder(e)
  BY DEF Init, PorRetroceder
<1>5. Cuentan
  BY <1>4, EsiNuevoKeeps DEF Cuentan, DuracionReal
<1> QED
  BY <1>2, <1>3, <1>5 DEF IInv

LEMMA NextKeepsIInv == IInv /\ [Next]_vars => IInv'
<1> SUFFICES ASSUME IInv, [Next]_vars PROVE IInv'
  OBVIOUS
<1>1. ASSUME NEW e \in ESIs,
             NewEsi(e) \/ FreeResource(e) \/ PedidoTardio(e) \/ UnblockCmd(e) \/ BlockCmd(e)
      PROVE  IInv'
  BY <1>1, NewEsiKeeps, FreeResourceKeeps, PedidoTardioKeeps, UnblockCmdKeeps, BlockCmdKeeps
<1>2. CASE UNCHANGED vars
  <2>1. UNCHANGED <<esi, rafaga, RUNNING_ESI, cpu_time, comandos, pc, interrumpidos, pedidos,
                    aDestiempo, caido>>
    BY <1>2 DEF vars, turno, proceso, cuentas, tardios
  <2> QED
    BY <2>1 DEF IInv, Tipos, EnTurno, Cuentan, PuedeBloquearse, PorRetroceder, DuracionReal,
                SinSorpresas
<1> QED
  BY <1>1, <1>2, DespachaKeeps, EjecutaKeeps, SeBloqueaKeeps, FallaKeeps, SinResultadoKeeps,
     SigueSinResultadoKeeps, CierraTurnoKeeps, TerminaKeeps, TerminaTurnoKeeps DEF Next

THEOREM RafagasInvariant == Spec => []IInv
BY InitIInv, NextKeepsIInv, PTL DEF Spec

\* An ESI that was interrupted runs at most in the turn in which that is noticed.
NoCorre(e) == e \in interrumpidos /\ esi[e].estado = "CORRIENDO" => pc = "sentencia" /\ e = RUNNING_ESI
NoCorren == ~caido => \A e \in ESIs : NoCorre(e)

LEMMA NextKeepsNoCorren == ASSUME Tipos, NoCorren, [Next]_vars PROVE NoCorren'
<1> SUFFICES ASSUME ~caido', NEW x \in ESIs, x \in interrumpidos', esi'[x].estado = "CORRIENDO"
             PROVE  pc' = "sentencia" /\ x = RUNNING_ESI'
  BY DEF NoCorren, NoCorre
<1>0. CASE UNCHANGED vars
  BY <1>0 DEF NoCorren, NoCorre, vars, tardios, turno
<1>1. CASE ~UNCHANGED vars
  <2>0. ~caido /\ ~Muere /\ Next
    BY <1>1 DEF Muere, Next, NewEsi, FreeResource, PedidoTardio, UnblockCmd, BlockCmd, Comando,
       Despacha, Ejecuta, SeBloquea, Falla, Responde, SinResultado, SigueSinResultado, CierraTurno,
       Termina, TerminaTurno, Despachador
  <2>1. NoCorre(x)
    BY <2>0 DEF NoCorren
  <2>2. ASSUME NEW e \in ESIs, UnblockEsi(e) PROVE esi'[x] = esi[x] /\ UNCHANGED RUNNING_ESI
    BY <2>2, UnblockEsiKeeps
  <2>3. ASSUME NEW e \in ESIs, BlockEsi(e) PROVE esi'[x] = esi[x]
    BY <2>3, BlockEsiKeeps, BloqueadoKeeps DEF Tipos
  <2>4. ASSUME NEW e \in ESIs, NewEsi(e) PROVE pc' = "sentencia" /\ x = RUNNING_ESI'
    <3>1. UNCHANGED <<pc, RUNNING_ESI, interrumpidos>>
      BY <2>4 DEF NewEsi, Muere, turno, tardios
    <3>2. esi'[x] = esi[x]
      BY <2>4, NewEsiEstado DEF Tipos
    <3> QED
      BY <2>1, <3>1, <3>2 DEF NoCorre
  <2>5. ASSUME NEW e \in ESIs, FreeResource(e) PROVE pc' = "sentencia" /\ x = RUNNING_ESI'
    BY <2>1, <2>2, <2>5 DEF FreeResource, Responde, NoCorre
  <2>6. ASSUME NEW e \in ESIs, PedidoTardio(e) PROVE pc' = "sentencia" /\ x = RUNNING_ESI'
    <3>1. UNCHANGED <<pc, interrumpidos>>
      BY <2>6 DEF PedidoTardio
    <3>2. esi'[x] = esi[x] /\ UNCHANGED RUNNING_ESI
      BY <2>2, <2>3, <2>6 DEF PedidoTardio, turno, Muere
    <3> QED
      BY <2>1, <3>1, <3>2 DEF NoCorre
  <2>7. ASSUME NEW e \in ESIs, UnblockCmd(e) \/ BlockCmd(e) PROVE pc' = "sentencia" /\ x = RUNNING_ESI'
    <3>1. UNCHANGED <<pc, RUNNING_ESI, interrumpidos>> /\ esi'[x] = esi[x]
      BY <2>2, <2>3, <2>7 DEF UnblockCmd, BlockCmd, tardios
    <3> QED
      BY <2>1, <3>1 DEF NoCorre
  <2>8. CASE Despacha
    <3>1. PICK e \in ESIs : /\ RUNNING_ESI' = e
                            /\ esi' = [esi EXCEPT ![e].estado = "CORRIENDO", ![e].instruction_pointer = @ + 1]
      BY <2>0, <2>8 DEF Despacha, EnMapa
    <3>2. pc = "adquirir" /\ pc' = "sentencia" /\ UNCHANGED interrumpidos
      BY <2>0, <2>8 DEF Despacha, Despachador, tardios
    <3> QED
      BY <2>1, <3>1, <3>2 DEF NoCorre, Tipos
  <2>9. CASE SeBloquea
    <3>1. BlockEsi(RUNNING_ESI) /\ RUNNING_ESI \notin interrumpidos /\ UNCHANGED <<RUNNING_ESI, interrumpidos>>
      BY <2>0, <2>9 DEF SeBloquea, Responde, tardios
    <3>2. x # RUNNING_ESI /\ esi'[x] = esi[x]
      BY <3>1 DEF BlockEsi, Tipos
    <3> QED
      BY <2>1, <3>1, <3>2 DEF NoCorre
  <2>10. CASE Ejecuta
    BY <2>1, <2>10 DEF Ejecuta, Responde, NoCorre, tardios, turno
  <2>11. CASE Falla \/ SinResultado \/ Termina
    <3>1. FinishEsi(RUNNING_ESI) /\ interrumpidos' \subseteq interrumpidos \cup {RUNNING_ESI}
      BY <2>0, <2>11 DEF Falla, SinResultado, Termina, Interrumpe, tardios
    <3>2. esi' = [esi EXCEPT ![RUNNING_ESI].estado = "FINALIZADO"]
      BY <3>1 DEF FinishEsi
    <3>3. x # RUNNING_ESI /\ esi'[x] = esi[x]
      BY <3>2 DEF Tipos, Esi
    <3> QED
      BY <2>1, <3>1, <3>3 DEF NoCorre
  <2>12. CASE CierraTurno
    <3> DEFINE quedan == [y \in ESIs |-> IF y \in FINISHED_ESI_LIST
                                         THEN [esi[y] EXCEPT !.estado = "borrado"] ELSE esi[y]]
    <3>1. esi'[x].estado = "CORRIENDO" => esi[x].estado = "CORRIENDO"
      <4>1. \/ esi' = quedan
            \/ esi' = [quedan EXCEPT ![RUNNING_ESI].instruction_pointer = @ - 1]
        BY <2>0, <2>12 DEF CierraTurno
      <4>2. quedan[x].estado = "CORRIENDO" => esi[x].estado = "CORRIENDO"
        BY DEF Tipos, Esi
      <4>3. esi'[x].estado = quedan[x].estado
        <5>1. DOMAIN quedan = ESIs /\ quedan[x] \in Esi
          BY DEF Tipos, Esi
        <5> HIDE DEF quedan
        <5> QED
          BY <4>1, <5>1 DEF Esi
      <4> QED
        BY <4>2, <4>3
    <3> QED
      BY <2>0, <2>1, <2>12, <3>1 DEF CierraTurno, NoCorre, tardios
  <2>13. CASE SigueSinResultado \/ TerminaTurno
    BY <2>1, <2>13 DEF SigueSinResultado, TerminaTurno, Despachador, NoCorre, tardios
  <2> QED
    BY <2>0, <2>4, <2>5, <2>6, <2>7, <2>8, <2>9, <2>10, <2>11, <2>12, <2>13 DEF Next
<1> QED
  BY <1>0, <1>1

LEMMA InterrumpidosNoCorren == Spec => []NoCorren
<1>1. Init => NoCorren
  BY DEF Init, NoCorren, NoCorre
<1>2. IInv /\ NoCorren /\ [Next]_vars => NoCorren'
  BY NextKeepsNoCorren DEF IInv
<1> QED
  BY <1>1, <1>2, RafagasInvariant, PTL DEF Spec

\* The burst that an ESI's next estimate is made from is as long as the turns
\* that it had, for every script, and however often it blocks and is unblocked
\* (block_esi, update_instruction_pointer, the dispatcher's loop), with nobody at
\* the console and until a sentence or a resource reaches one that has ended.
THEOREM DuracionDeLaRafaga == Spec => DuracionEsLaRafaga
<1>1. ASSUME IInv, NoCorren, [Next]_vars, NEW e \in ESIs, SinSorpresas,
             esi[e].estado = "CORRIENDO", esi'[e].estado = "BLOQUEADO"
      PROVE  esi'[e].duracion_real_ultima_rafaga = rafaga[e]
  <2>1. Tipos /\ EnTurno /\ Cuentan
    BY <1>1 DEF IInv
  <2>2. esi'[e] # esi[e] /\ ~PorRetroceder(e)
    BY <1>1 DEF PorRetroceder
  <2>3. ASSUME NEW x \in ESIs, BlockEsi(x), PuedeBloquearse(x) PROVE esi'[e].duracion_real_ultima_rafaga = rafaga[e]
    <3>1. x = e
      BY <1>1, <2>1, <2>3, BlockEsiKeeps
    <3>2. esi[e] \in Esi
      BY <2>1 DEF Tipos
    <3>3. esi'[e].duracion_real_ultima_rafaga = DuracionReal(esi[e])
      BY <2>1, <2>3, <3>1, <3>2, BlockEsiKeeps, BloqueadoKeeps
    <3> QED
      BY <2>1, <2>2, <2>3, <3>1, <3>3 DEF Cuentan
  <2>4. ASSUME NEW x \in ESIs, NewEsi(x) \/ FreeResource(x) \/ UnblockCmd(x) PROVE FALSE
    <3>1. CASE NewEsi(x)
      BY <1>1, <2>1, <2>2, <3>1, NewEsiEstado DEF NewEsi, Tipos
    <3>2. CASE FreeResource(x) \/ UnblockCmd(x)
      <4>1. UnblockEsi(x)
        BY <3>2 DEF FreeResource, UnblockCmd
      <4> QED
        BY <1>1, <2>1, <2>2, <4>1, UnblockEsiKeeps
    <3> QED
      BY <2>4, <3>1, <3>2
  <2>5. ASSUME NEW x \in ESIs, BlockCmd(x) \/ PedidoTardio(x)
        PROVE  BlockEsi(x) /\ (x = e => PuedeBloquearse(x))
    <3>1. ASSUME NEW y \in ESIs, UnblockEsi(y) PROVE FALSE
      BY <1>1, <2>1, <2>2, <3>1, UnblockEsiKeeps
    <3>2. ASSUME BlockCmd(x) PROVE BlockEsi(x) /\ (x = e => PuedeBloquearse(x))
      <4>1. BlockEsi(x) /\ (x = e => pc = "adquirir" /\ ~caido)
        BY <1>1, <2>2, <3>2 DEF BlockCmd, Comando
      <4> QED
        BY <1>1, <4>1 DEF NoCorren, NoCorre, PuedeBloquearse
    <3> QED
      BY <2>2, <2>5, <3>1, <3>2 DEF PedidoTardio, PuedeBloquearse
  <2>6. ~(Despacha \/ Falla \/ SinResultado \/ Termina)
    BY <1>1, <2>1, <2>2 DEF Despacha, Falla, SinResultado, Termina, FinishEsi, Muere, Tipos, Esi
  <2>7. ~CierraTurno
    BY <1>1, <2>1, <2>2 DEF CierraTurno, Muere, Tipos, Esi
  <2>8. ASSUME SeBloquea
        PROVE  RUNNING_ESI \in ESIs /\ BlockEsi(RUNNING_ESI) /\ PuedeBloquearse(RUNNING_ESI)
    BY <2>1, <2>2, <2>8 DEF SeBloquea, Muere, EnTurno, Responde, PuedeBloquearse
  <2>9. ASSUME NEW x \in ESIs, BlockEsi(x) PROVE x = e
    BY <1>1, <2>1, <2>9, BlockEsiKeeps
  <2> QED
    BY <1>1, <2>2, <2>3, <2>4, <2>5, <2>6, <2>7, <2>8, <2>9
    DEF Next, Ejecuta, SigueSinResultado, TerminaTurno, vars
<1>2. IInv /\ NoCorren /\ [Next]_vars =>
        [ \A e \in ESIs :
            (/\ esi[e].estado = "CORRIENDO" /\ esi'[e].estado = "BLOQUEADO"
             /\ SinSorpresas)
            => esi'[e].duracion_real_ultima_rafaga = rafaga[e] ]_vars
  BY <1>1
<1> QED
  BY <1>2, RafagasInvariant, InterrumpidosNoCorren, PTL DEF DuracionEsLaRafaga, Spec

-----------------------------------------------------------------------------
(* list_sort *)

\* A non-empty set of naturals has a least element, which Min returns: a loop
\* over a list that looks for a place stops at the first one.
LEMMA MinIsLeast ==
    ASSUME NEW S \in SUBSET Nat, S # {}
    PROVE  /\ Min(S) \in S
           /\ \A y \in S : Min(S) <= y
<1> DEFINE R == {ss \in Nat \X Nat : ss[1] < ss[2]}
<1>1. OpToRel(<, Nat) = R
  BY Zenon DEF OpToRel
<1>2. IsWellFoundedOn(R, Nat)
  BY <1>1, NatLessThanWellFounded, Zenon
<1> HIDE DEF R
<1>3. PICK x \in S : \A y \in S : ~(<<y, x>> \in R)
  BY <1>2, WFMin, Zenon
<1>4. \A y \in S : x <= y
  <2> SUFFICES ASSUME NEW y \in S PROVE x <= y
    OBVIOUS
  <2>1. ~(<<y, x>> \in R)
    BY <1>3
  <2>2. x \in Nat /\ y \in Nat
    OBVIOUS
  <2>3. y < x => <<y, x>> \in R
    BY <2>2 DEF R
  <2>. QED
    BY <2>1, <2>2, <2>3
<1>. QED
  BY <1>4 DEF Min

\* SelectInSeq finds the first place that satisfies a test, where the test is
\* membership in the set of places P.
LEMMA FirstPlace ==
    ASSUME NEW n \in Nat, NEW P \in SUBSET (1 .. n), P # {}
    PROVE  Min(P) \in P /\ Min(P) \in 1 .. n
<1>1. P \in SUBSET Nat
  OBVIOUS
<1>. QED
  BY <1>1, MinIsLeast

\* list_remove_by_condition drops one place and keeps the order of the others.
LEMMA RemoveAtProperties ==
    ASSUME NEW S, NEW s \in Seq(S), NEW i \in 1 .. Len(s)
    PROVE  /\ RemoveAt(s, i) \in Seq(S)
           /\ Len(RemoveAt(s, i)) = Len(s) - 1
           /\ \A j \in 1 .. Len(s) - 1 :
                RemoveAt(s, i)[j] = IF j < i THEN s[j] ELSE s[j + 1]
<1> DEFINE a == SubSeq(s, 1, i - 1)
           b == SubSeq(s, i + 1, Len(s))
<1>0. Len(s) \in Nat /\ \A j \in 1 .. Len(s) : s[j] \in S
  OBVIOUS
<1>1. /\ a \in Seq(S) /\ Len(a) = i - 1
      /\ \A j \in 1 .. i - 1 : a[j] = s[j]
  <2>1. \A j \in 1 .. i - 1 : s[j] \in S
    BY <1>0
  <2>. QED
    BY <1>0, <2>1, SubSeqProperties
<1>2. /\ b \in Seq(S) /\ Len(b) = Len(s) - i
      /\ \A j \in 1 .. Len(s) - i : b[j] = s[j + i]
  <2>1. \A j \in i + 1 .. Len(s) : s[j] \in S
    BY <1>0
  <2>. QED
    BY <1>0, <2>1, SubSeqProperties
<1> HIDE DEF a, b
<1>3. /\ a \o b \in Seq(S) /\ Len(a \o b) = Len(s) - 1
      /\ \A j \in 1 .. Len(s) - 1 :
           (a \o b)[j] = IF j < i THEN s[j] ELSE s[j + 1]
  <2>1. /\ a \o b \in Seq(S) /\ Len(a \o b) = Len(a) + Len(b)
        /\ \A j \in 1 .. Len(a) + Len(b) :
             (a \o b)[j] = IF j <= Len(a) THEN a[j] ELSE b[j - Len(a)]
    BY <1>1, <1>2, ConcatProperties
  <2>2. ASSUME NEW j \in 1 .. Len(s) - 1
        PROVE  (a \o b)[j] = IF j < i THEN s[j] ELSE s[j + 1]
    <3>1. CASE j < i
      BY <1>0, <1>1, <1>2, <2>1, <3>1
    <3>2. CASE j >= i
      <4>0. j \in 1 .. Len(a) + Len(b) /\ Len(a) = i - 1 /\ ~(j <= i - 1)
        BY <1>0, <1>1, <1>2, <3>2
      <4>1. (a \o b)[j] = b[j - (i - 1)]
        <5>1. (a \o b)[j] = IF j <= Len(a) THEN a[j] ELSE b[j - Len(a)]
          BY <2>1, <4>0
        <5>. QED
          BY <4>0, <5>1
      <4>2. j - (i - 1) \in 1 .. Len(s) - i
        BY <1>0, <3>2
      <4>. QED
        BY <1>0, <1>2, <3>2, <4>1, <4>2
    <3>3. j < i \/ j >= i
      BY <1>0
    <3>. QED
      BY <3>1, <3>2, <3>3, Zenon
  <2>3. Len(a) + Len(b) = Len(s) - 1
    BY <1>0, <1>1, <1>2
  <2>4. a \o b \in Seq(S) /\ Len(a \o b) = Len(s) - 1
    BY <2>1, <2>3
  <2>. QED
    BY <2>2, <2>4, Zenon
<1>. QED
  BY <1>3 DEF a, b, RemoveAt

\* Lists of ESIs from which one is taken, or the first ones popped.
LEMMA RemoveFirstTipo ==
  ASSUME NEW lista \in Seq(ESIs), NEW e
  PROVE  RemoveFirst(lista, e) \in Seq(ESIs)
<1> DEFINE P == {i \in 1 .. Len(lista) : lista[i] = e}
<1>1. CASE P = {}
  BY <1>1 DEF RemoveFirst
<1>2. CASE P # {}
  <2>1. Min(P) \in 1 .. Len(lista)
    <3>1. Len(lista) \in Nat /\ P \in SUBSET (1 .. Len(lista))
      OBVIOUS
    <3> HIDE DEF P
    <3> QED
      BY <1>2, <3>1, FirstPlace
  <2>2. RemoveFirst(lista, e) = RemoveAt(lista, Min(P))
    BY <1>2 DEF RemoveFirst, SelectInSeq
  <2> QED
    BY <2>1, <2>2, RemoveAtProperties
<1> QED
  BY <1>1, <1>2

\* What holds of zero and passes from each number to the next, up to n.
LEMMA HastaElUltimo ==
  ASSUME NEW n \in Nat, NEW P, 0 \in P, \A i \in 1 .. n : i - 1 \in P => i \in P
  PROVE  \A i \in 0 .. n : i \in P
<1> DEFINE fuera == {i \in 0 .. n : i \notin P}
<1>1. ASSUME fuera # {} PROVE FALSE
  <2>1. Min(fuera) \in fuera /\ \A y \in fuera : Min(fuera) <= y
    BY <1>1, MinIsLeast
  <2> DEFINE m == Min(fuera)
  <2> HIDE DEF m
  <2>2. m \in 0 .. n /\ m \notin P /\ \A y \in fuera : m <= y
    BY <2>1 DEF m
  <2>3. m \in 1 .. n /\ m - 1 \in 0 .. n /\ m - 1 \notin fuera
    BY <2>2
  <2> QED
    BY <2>2, <2>3
<1> QED
  BY <1>1

\* f says what each of n rounds of a loop leaves, from base: G is what one does.
Rondas(f, n, base, G) == f[0] = base /\ \A i \in 1 .. n : f[i] = G[i][f[i - 1]]

LEMMA Recursion ==
  ASSUME NEW X, NEW n \in Nat, NEW base \in X, NEW G \in [1 .. n -> [X -> X]]
  PROVE  \E f \in [0 .. n -> X] : Rondas(f, n, base, G)
<1> DEFINE P == {m \in 0 .. n : \E f \in [0 .. n -> X] : Rondas(f, m, base, G)}
<1>1. 0 \in P
  <2> DEFINE c == [i \in 0 .. n |-> base]
  <2>1. c \in [0 .. n -> X] /\ c[0] = base /\ \A i \in 1 .. 0 : c[i] = G[i][c[i - 1]]
    OBVIOUS
  <2> HIDE DEF c
  <2> QED
    BY <2>1 DEF Rondas
<1>2. ASSUME NEW m \in 1 .. n, m - 1 \in P PROVE m \in P
  <2>1. PICK f \in [0 .. n -> X] : Rondas(f, m - 1, base, G)
    BY <1>2
  <2> DEFINE g == [f EXCEPT ![m] = G[m][f[m - 1]]]
  <2>2. m - 1 \in 0 .. n /\ G[m][f[m - 1]] \in X
    OBVIOUS
  <2>3. g \in [0 .. n -> X] /\ g[m] = G[m][f[m - 1]] /\ \A i \in 0 .. n : i # m => g[i] = f[i]
    BY <2>2
  <2> HIDE DEF g
  <2>4. ASSUME NEW i \in 1 .. m PROVE g[i] = G[i][g[i - 1]]
    <3>1. i \in 0 .. n /\ i - 1 \in 0 .. n /\ i - 1 # m
      OBVIOUS
    <3>2. CASE i = m
      BY <2>3, <3>1, <3>2
    <3>3. CASE i # m
      <4>1. i \in 1 .. m - 1
        BY <3>3
      <4> QED
        BY <2>1, <2>3, <3>1, <3>3, <4>1 DEF Rondas
    <3> QED
      BY <3>2, <3>3
  <2>5. g[0] = base
    BY <2>1, <2>3 DEF Rondas
  <2> QED
    BY <2>3, <2>4, <2>5 DEF Rondas
<1>3. \A i \in 0 .. n : i \in P
  <2> HIDE DEF P
  <2> QED
    BY <1>1, <1>2, HastaElUltimo
<1> QED
  BY <1>3

\* The state of a sort of n elements of E.
Pasos(E, n) == [lista : [1 .. n -> E], desordenados : 0 .. n]

\* The j-th is not to be before any of those ahead of it.
Tope(lista, j, LE) == \A k \in 1 .. j - 1 : <<lista[k], lista[j]>> \in LE

\* The comparator enOrden agrees with an order LE of the elements: what it lets
\* stand is in order, and what it does not is in order the other way.
Ordena(enOrden, LE, E) == \A a, b \in E :
    /\ <<a, b>> \in enOrden => <<a, b>> \in LE
    /\ <<a, b>> \notin enOrden => <<b, a>> \in LE
    /\ \A c \in E : <<a, b>> \in LE /\ <<b, c>> \in LE => <<a, c>> \in LE

\* Two lists of n with the same elements, as often if there were no repetitions.
Reordena(lista, otra, n) ==
    /\ {otra[i] : i \in 1 .. n} = {lista[i] : i \in 1 .. n}
    /\ (\A i, j \in 1 .. n : lista[i] = lista[j] => i = j)
         => \A i, j \in 1 .. n : otra[i] = otra[j] => i = j

LEMMA ReordenaTrans ==
  ASSUME NEW n, NEW l1, NEW l2, NEW l3, Reordena(l1, l2, n), Reordena(l2, l3, n)
  PROVE  Reordena(l1, l3, n)
BY DEF Reordena

LEMMA ListaLen ==
  ASSUME NEW E, NEW n \in Nat, NEW lista \in [1 .. n -> E]
  PROVE  lista \in Seq(E) /\ Len(lista) = n
OBVIOUS

LEMMA ComparaPaso ==
  ASSUME NEW E, NEW n \in Nat, NEW p \in Pasos(E, n), NEW i \in 1 .. n - 1, NEW R
  PROVE  /\ Compara(p, i, R) \in Pasos(E, n)
         /\ <<p.lista[i], p.lista[i + 1]>> \in R => Compara(p, i, R) = p
         /\ <<p.lista[i], p.lista[i + 1]>> \notin R =>
              /\ Compara(p, i, R).desordenados = i - 1
              /\ \A k \in 1 .. n : Compara(p, i, R).lista[k] =
                   IF k = i THEN p.lista[i + 1] ELSE IF k = i + 1 THEN p.lista[i] ELSE p.lista[k]
<1>1. p.lista \in [1 .. n -> E] /\ i \in 1 .. n /\ i + 1 \in 1 .. n /\ i - 1 \in 0 .. n
  BY DEF Pasos
<1> DEFINE l == [p.lista EXCEPT ![i] = p.lista[i + 1], ![i + 1] = p.lista[i]]
<1>2. /\ l \in [1 .. n -> E]
      /\ \A k \in 1 .. n : l[k] =
           IF k = i THEN p.lista[i + 1] ELSE IF k = i + 1 THEN p.lista[i] ELSE p.lista[k]
  BY <1>1
<1>3. CASE <<p.lista[i], p.lista[i + 1]>> \in R
  BY <1>3 DEF Compara
<1>4. CASE <<p.lista[i], p.lista[i + 1]>> \notin R
  <2>1. Compara(p, i, R) = [lista |-> l, desordenados |-> i - 1]
    BY <1>4 DEF Compara
  <2> HIDE DEF l
  <2> QED
    BY <1>1, <1>2, <1>4, <2>1 DEF Pasos
<1> QED
  BY <1>3, <1>4

\* The comparisons of a pass, one after another.
LEMMA PasadaRondas ==
  ASSUME NEW E, NEW n \in Nat \ {0}, NEW p \in Pasos(E, n), NEW R,
         NEW h, h = IF p.desordenados < n THEN p.desordenados ELSE n - 1
  PROVE  /\ h \in 0 .. n - 1
         /\ \E f \in [0 .. h -> Pasos(E, n)] :
              /\ f[0] = p /\ Pasada(p, R) = f[h]
              /\ \A i \in 1 .. h : f[i] = Compara(f[i - 1], i, R)
<1> DEFINE X == Pasos(E, n)
           G == [i \in 1 .. h |-> [x \in X |-> Compara(x, i, R)]]
           Q(f) == f = [i \in 0 .. h |-> IF i = 0 THEN p ELSE Compara(f[i - 1], i, R)]
<1>1. p.desordenados \in 0 .. n /\ Len(p.lista) = n
  BY ListaLen DEF Pasos
<1>2. h \in 0 .. n - 1 /\ h \in Nat
  BY <1>1
<1>3. Pasada(p, R) = (CHOOSE f : Q(f))[h]
  BY <1>1 DEF Pasada
<1>4. \A x \in X, i \in 1 .. h : Compara(x, i, R) \in X
  <2>1. ASSUME NEW x \in Pasos(E, n), NEW i \in 1 .. n - 1 PROVE Compara(x, i, R) \in Pasos(E, n)
    BY ComparaPaso
  <2> QED
    BY <1>2, <2>1
<1>5. p \in X
  OBVIOUS
<1> HIDE DEF X
<1>6. G \in [1 .. h -> [X -> X]] /\ \A x \in X, i \in 1 .. h : G[i][x] = Compara(x, i, R)
  BY <1>4
<1> HIDE DEF G
<1>7. PICK f \in [0 .. h -> X] : Rondas(f, h, p, G)
  BY <1>2, <1>5, <1>6, Recursion
<1>8. Q(f)
  <2>1. ASSUME NEW i \in 1 .. h PROVE f[i] = Compara(f[i - 1], i, R)
    <3>1. i - 1 \in 0 .. h
      BY <1>2
    <3> QED
      BY <1>6, <1>7, <3>1 DEF Rondas
  <2>2. \A i \in 0 .. h : f[i] = IF i = 0 THEN p ELSE Compara(f[i - 1], i, R)
    BY <1>2, <1>7, <2>1 DEF Rondas
  <2> QED
    BY <2>2
<1>9. Q(CHOOSE g : Q(g))
  BY <1>8, Zenon
<1> DEFINE g == CHOOSE g : Q(g)
<1> HIDE DEF g
<1>10. g = [i \in 0 .. h |-> IF i = 0 THEN p ELSE Compara(g[i - 1], i, R)]
  BY <1>9 DEF g
<1>11. g[0] = p /\ \A i \in 1 .. h : g[i] = Compara(g[i - 1], i, R)
  BY <1>2, <1>10
<1>12. \A i \in 0 .. h : g[i] \in X
  <2> DEFINE P == {i \in 0 .. h : g[i] \in X}
  <2>1. 0 \in P
    BY <1>2, <1>5, <1>11
  <2>2. ASSUME NEW i \in 1 .. h, i - 1 \in P PROVE i \in P
    BY <1>2, <1>4, <1>11, <2>2
  <2> HIDE DEF P
  <2>3. \A i \in 0 .. h : i \in P
    BY <1>2, <2>1, <2>2, HastaElUltimo
  <2> QED
    BY <2>3 DEF P
<1>13. g \in [0 .. h -> X]
  BY <1>10, <1>12
<1>14. Pasada(p, R) = g[h]
  BY <1>3 DEF g
<1> QED
  BY <1>2, <1>11, <1>13, <1>14 DEF X

\* What one comparison does to an order of the elements.
LEMMA ComparaOrdena ==
  ASSUME NEW E, NEW n \in Nat, NEW p \in Pasos(E, n), NEW i \in 1 .. n - 1, NEW R, NEW LE, Ordena(R, LE, E),
         Tope(p.lista, i, LE)
  PROVE  /\ Tope(Compara(p, i, R).lista, i + 1, LE)
         /\ \A j \in i + 2 .. n : Tope(p.lista, j, LE) => Tope(Compara(p, i, R).lista, j, LE)
         /\ \A j \in 1 .. i - 1 : Tope(p.lista, j, LE) => Tope(Compara(p, i, R).lista, j, LE)
         /\ Tope(p.lista, i + 1, LE) => Tope(Compara(p, i, R).lista, i, LE)
<1> DEFINE l == p.lista
           q == Compara(p, i, R)
<1>1. /\ l \in [1 .. n -> E] /\ \A k \in 1 .. n : l[k] \in E
      /\ i \in 1 .. n /\ i + 1 \in 1 .. n
  BY DEF Pasos
<1>2. \A k \in 1 .. i - 1 : <<l[k], l[i]>> \in LE
  BY DEF Tope
<1>3. CASE <<l[i], l[i + 1]>> \in R
  <2>1. q = p
    BY <1>3, ComparaPaso
  <2>0. <<l[i], l[i + 1]>> \in LE
    BY <1>1, <1>3 DEF Ordena
  <2>2. \A k \in 1 .. i - 1 : <<l[k], l[i + 1]>> \in LE
    <3>1. \A k \in 1 .. i - 1 : k \in 1 .. n
      OBVIOUS
    <3> QED
      BY <1>1, <1>2, <2>0, <3>1 DEF Ordena
  <2>3. \A k \in 1 .. i : <<l[k], l[i + 1]>> \in LE
    <3>1. \A k \in 1 .. i : k \in 1 .. i - 1 \/ k = i
      OBVIOUS
    <3> QED
      BY <2>0, <2>2, <3>1
  <2>4. Tope(l, i + 1, LE)
    BY <2>3 DEF Tope
  <2> QED
    BY <2>1, <2>4, <1>2 DEF Tope
<1>4. CASE <<l[i], l[i + 1]>> \notin R
  <2>1. <<l[i + 1], l[i]>> \in LE
    BY <1>1, <1>4 DEF Ordena
  <2>2. \A k \in 1 .. n : q.lista[k] = IF k = i THEN l[i + 1] ELSE IF k = i + 1 THEN l[i] ELSE l[k]
    BY <1>4, ComparaPaso
  <2> HIDE DEF l, q
  <2>3. Tope(q.lista, i + 1, LE)
    <3>1. ASSUME NEW k \in 1 .. i PROVE <<q.lista[k], q.lista[i + 1]>> \in LE
      <4>1. q.lista[i + 1] = l[i]
        BY <1>1, <2>2
      <4>2. CASE k = i
        BY <1>1, <2>1, <2>2, <4>1, <4>2
      <4>3. CASE k # i
        <5>1. k \in 1 .. i - 1 /\ k \in 1 .. n /\ k # i + 1
          BY <4>3
        <5> QED
          BY <1>2, <2>2, <4>1, <4>3, <5>1
      <4> QED
        BY <4>2, <4>3
    <3>2. \A k \in 1 .. (i + 1) - 1 : k \in 1 .. i
      OBVIOUS
    <3> QED
      BY <3>1, <3>2 DEF Tope
  <2>4. ASSUME NEW j \in i + 2 .. n, Tope(l, j, LE) PROVE Tope(q.lista, j, LE)
    <3>1. q.lista[j] = l[j]
      BY <2>2
    <3>2. ASSUME NEW k \in 1 .. j - 1 PROVE <<q.lista[k], l[j]>> \in LE
      <4>1. k \in 1 .. n /\ i \in 1 .. j - 1 /\ i + 1 \in 1 .. j - 1
        OBVIOUS
      <4>2. q.lista[k] \in {l[i], l[i + 1], l[k]}
        BY <2>2, <4>1
      <4>3. <<l[i], l[j]>> \in LE /\ <<l[i + 1], l[j]>> \in LE /\ <<l[k], l[j]>> \in LE
        BY <2>4, <4>1 DEF Tope
      <4> QED
        BY <4>2, <4>3
    <3> QED
      BY <3>1, <3>2 DEF Tope
  <2>5. ASSUME NEW j \in 1 .. i - 1, Tope(l, j, LE) PROVE Tope(q.lista, j, LE)
    <3>1. \A k \in 1 .. i - 1 : q.lista[k] = l[k]
      BY <2>2
    <3>2. \A k \in 1 .. j - 1 : k \in 1 .. i - 1
      OBVIOUS
    <3> QED
      BY <2>5, <3>1, <3>2 DEF Tope
  <2>6. ASSUME Tope(l, i + 1, LE) PROVE Tope(q.lista, i, LE)
    <3>1. q.lista[i] = l[i + 1] /\ \A k \in 1 .. i - 1 : q.lista[k] = l[k] /\ k \in 1 .. (i + 1) - 1
      BY <1>1, <2>2
    <3> QED
      BY <2>6, <3>1 DEF Tope
  <2> QED
    BY <2>3, <2>4, <2>5, <2>6 DEF l, q
<1> QED
  BY <1>3, <1>4

\* What one comparison does to the elements.
LEMMA ComparaReordena ==
  ASSUME NEW E, NEW n \in Nat, NEW p \in Pasos(E, n), NEW i \in 1 .. n - 1, NEW R
  PROVE  Reordena(p.lista, Compara(p, i, R).lista, n)
<1> DEFINE l == p.lista
           m == Compara(p, i, R).lista
<1>1. CASE <<l[i], l[i + 1]>> \in R
  BY <1>1, ComparaPaso DEF Reordena
<1>2. CASE <<l[i], l[i + 1]>> \notin R
  <2>1. \A k \in 1 .. n : m[k] = IF k = i THEN l[i + 1] ELSE IF k = i + 1 THEN l[i] ELSE l[k]
    BY <1>2, ComparaPaso
  <2>2. i \in 1 .. n /\ i + 1 \in 1 .. n /\ i # i + 1
    OBVIOUS
  <2> HIDE DEF l, m
  <2>3. {m[k] : k \in 1 .. n} = {l[k] : k \in 1 .. n}
    <3>1. ASSUME NEW k \in 1 .. n PROVE m[k] \in {l[x] : x \in 1 .. n}
      BY <2>1, <2>2
    <3>2. ASSUME NEW k \in 1 .. n PROVE l[k] \in {m[x] : x \in 1 .. n}
      <4>1. m[i] = l[i + 1] /\ m[i + 1] = l[i] /\ (k \notin {i, i + 1} => m[k] = l[k])
        BY <2>1, <2>2
      <4> QED
        BY <2>2, <4>1
    <3> QED
      BY <3>1, <3>2
  <2>4. ASSUME \A k, x \in 1 .. n : l[k] = l[x] => k = x, NEW k \in 1 .. n, NEW x \in 1 .. n, m[k] = m[x]
        PROVE  k = x
    BY <2>1, <2>2, <2>4
  <2> QED
    BY <2>3, <2>4 DEF Reordena, l, m
<1> QED
  BY <1>1, <1>2

\* What one comparison keeps, a pass keeps.
LEMMA PasadaPaso ==
  ASSUME NEW E, NEW n \in Nat \ {0}, NEW p \in Pasos(E, n), NEW R
  PROVE  Pasada(p, R) \in Pasos(E, n) /\ Reordena(p.lista, Pasada(p, R).lista, n)
<1>0. PICK h : h = IF p.desordenados < n THEN p.desordenados ELSE n - 1
  OBVIOUS
<1>1. h \in 0 .. n - 1 /\ h \in Nat
  BY <1>0, PasadaRondas
<1>2. PICK f \in [0 .. h -> Pasos(E, n)] :
        /\ f[0] = p /\ Pasada(p, R) = f[h]
        /\ \A i \in 1 .. h : f[i] = Compara(f[i - 1], i, R)
  BY <1>0, PasadaRondas
<1> DEFINE P == {i \in 0 .. h : Reordena(p.lista, f[i].lista, n)}
<1>3. 0 \in P
  BY <1>1, <1>2 DEF Reordena
<1>4. ASSUME NEW i \in 1 .. h, i - 1 \in P PROVE i \in P
  <2>1. i - 1 \in 0 .. h /\ i \in 0 .. h /\ i \in 1 .. n - 1 /\ n \in Nat
    BY <1>1
  <2>2. f[i - 1] \in Pasos(E, n) /\ Reordena(p.lista, f[i - 1].lista, n)
    BY <1>4, <2>1
  <2>3. Reordena(f[i - 1].lista, Compara(f[i - 1], i, R).lista, n)
    BY <2>1, <2>2, ComparaReordena
  <2>4. Reordena(p.lista, f[i].lista, n)
    BY <1>2, <2>2, <2>3, ReordenaTrans
  <2> QED
    BY <2>1, <2>4
<1> HIDE DEF P
<1>5. \A i \in 0 .. h : i \in P
  BY <1>1, <1>3, <1>4, HastaElUltimo
<1>6. h \in P /\ f[h] \in Pasos(E, n)
  BY <1>1, <1>5
<1> QED
  BY <1>2, <1>6 DEF P

\* f is what each pass of a sort of n leaves.
SonPasadas(f, lista, n, R) ==
    /\ f[0] = [lista |-> lista, desordenados |-> n] /\ ListSort(lista, R) = f[n].lista
    /\ \A i \in 1 .. n : f[i] = Pasada(f[i - 1], R)

LEMMA ListSortRondas ==
  ASSUME NEW E, NEW n \in Nat \ {0}, NEW lista \in [1 .. n -> E], NEW R
  PROVE  \E f \in [0 .. n -> Pasos(E, n)] : SonPasadas(f, lista, n, R)
<1> DEFINE X == Pasos(E, n)
           p == [lista |-> lista, desordenados |-> n]
           G == [i \in 1 .. n |-> [x \in X |-> Pasada(x, R)]]
           Q(f) == f = [i \in 0 .. n |-> IF i = 0 THEN p ELSE Pasada(f[i - 1], R)]
<1>1. Len(lista) = n
  BY ListaLen
<1>3. ListSort(lista, R) = (CHOOSE f : Q(f))[n].lista
  BY <1>1 DEF ListSort
<1>4. \A x \in X, i \in 1 .. n : Pasada(x, R) \in X
  BY PasadaPaso
<1>5. p \in X
  BY DEF Pasos
<1> HIDE DEF X, p
<1>6. G \in [1 .. n -> [X -> X]] /\ \A x \in X, i \in 1 .. n : G[i][x] = Pasada(x, R)
  BY <1>4
<1> HIDE DEF G
<1>7. PICK f \in [0 .. n -> X] : Rondas(f, n, p, G)
  BY <1>5, <1>6, Recursion
<1>8. Q(f)
  <2>1. ASSUME NEW i \in 1 .. n PROVE f[i] = Pasada(f[i - 1], R)
    <3>1. i - 1 \in 0 .. n
      OBVIOUS
    <3> QED
      BY <1>6, <1>7, <3>1 DEF Rondas
  <2>2. \A i \in 0 .. n : f[i] = IF i = 0 THEN p ELSE Pasada(f[i - 1], R)
    BY <1>7, <2>1 DEF Rondas
  <2> QED
    BY <2>2
<1>9. Q(CHOOSE g : Q(g))
  BY <1>8, Zenon
<1> DEFINE g == CHOOSE g : Q(g)
<1> HIDE DEF g
<1>10. g = [i \in 0 .. n |-> IF i = 0 THEN p ELSE Pasada(g[i - 1], R)]
  BY <1>9 DEF g
<1>11. g[0] = p /\ \A i \in 1 .. n : g[i] = Pasada(g[i - 1], R)
  BY <1>10
<1>12. \A i \in 0 .. n : g[i] \in X
  <2> DEFINE P == {i \in 0 .. n : g[i] \in X}
  <2>1. 0 \in P
    BY <1>5, <1>11
  <2>2. ASSUME NEW i \in 1 .. n, i - 1 \in P PROVE i \in P
    BY <1>4, <1>11, <2>2
  <2> HIDE DEF P
  <2>3. \A i \in 0 .. n : i \in P
    BY <2>1, <2>2, HastaElUltimo
  <2> QED
    BY <2>3 DEF P
<1>13. g \in [0 .. n -> X]
  BY <1>10, <1>12
<1>14. ListSort(lista, R) = g[n].lista
  BY <1>3 DEF g
<1> QED
  BY <1>11, <1>13, <1>14 DEF X, p, SonPasadas

\* A pass leaves the last ones settled, from where its last change was on; one
\* that changes nothing leaves all of them.  A list that was in order stays so.
LEMMA PasadaOrdena ==
  ASSUME NEW E, NEW n \in Nat \ {0}, NEW p \in Pasos(E, n), NEW R, NEW LE, Ordena(R, LE, E),
         \A j \in p.desordenados + 2 .. n : Tope(p.lista, j, LE)
  PROVE  LET q == Pasada(p, R) IN
         /\ \A j \in q.desordenados + 2 .. n : Tope(q.lista, j, LE)
         /\ q.desordenados < p.desordenados \/ \A j \in 1 .. n : Tope(q.lista, j, LE)
         /\ (\A j \in 1 .. n : Tope(p.lista, j, LE)) => \A j \in 1 .. n : Tope(q.lista, j, LE)
<1>0. PICK h : h = IF p.desordenados < n THEN p.desordenados ELSE n - 1
  OBVIOUS
<1>1. /\ h \in 0 .. n - 1 /\ h \in Nat /\ p.desordenados \in 0 .. n
      /\ p.desordenados + 2 >= h + 2 /\ (h + 2 > n \/ h + 2 = p.desordenados + 2)
  BY <1>0, PasadaRondas DEF Pasos
<1>2. PICK f \in [0 .. h -> Pasos(E, n)] :
        /\ f[0] = p /\ Pasada(p, R) = f[h]
        /\ \A i \in 1 .. h : f[i] = Compara(f[i - 1], i, R)
  BY <1>0, PasadaRondas
<1> DEFINE Todo(q) == \A j \in 1 .. n : Tope(q.lista, j, LE)
           Cumple(i, q) ==
             /\ \A j \in h + 2 .. n : Tope(q.lista, j, LE)
             /\ \/ q.desordenados = p.desordenados /\ \A j \in 1 .. i + 1 : Tope(q.lista, j, LE)
                \/ q.desordenados < i /\ \A j \in q.desordenados + 2 .. i + 1 : Tope(q.lista, j, LE)
             /\ Todo(p) => Todo(q)
           P == {i \in 0 .. h : Cumple(i, f[i])}
<1>3. 0 \in P
  <2>1. \A j \in 1 .. 0 + 1 : Tope(p.lista, j, LE)
    BY DEF Tope
  <2>2. \A j \in h + 2 .. n : Tope(p.lista, j, LE)
    BY <1>1
  <2> QED
    BY <1>1, <1>2, <2>1, <2>2
<1>4. ASSUME NEW i \in 1 .. h, i - 1 \in P PROVE i \in P
  <2>1. i - 1 \in 0 .. h /\ i \in 0 .. h /\ i \in 1 .. n - 1 /\ n \in Nat
    BY <1>1
  <2> DEFINE a == f[i - 1]
             b == f[i]
  <2>2. a \in Pasos(E, n) /\ b \in Pasos(E, n) /\ b = Compara(a, i, R) /\ Cumple(i - 1, a)
    BY <1>2, <1>4, <2>1
  <2> HIDE DEF a, b
  <2>3. a.desordenados \in 0 .. n /\ b.desordenados \in 0 .. n
    BY <2>2 DEF Pasos
  <2>4. Tope(a.lista, i, LE)
    <3>1. CASE a.desordenados = p.desordenados /\ \A j \in 1 .. (i - 1) + 1 : Tope(a.lista, j, LE)
      BY <3>1
    <3>2. CASE a.desordenados < i - 1 /\ \A j \in a.desordenados + 2 .. (i - 1) + 1 : Tope(a.lista, j, LE)
      BY <2>3, <3>2
    <3> QED
      BY <2>2, <3>1, <3>2
  <2>5. /\ Tope(b.lista, i + 1, LE)
        /\ \A j \in i + 2 .. n : Tope(a.lista, j, LE) => Tope(b.lista, j, LE)
        /\ \A j \in 1 .. i - 1 : Tope(a.lista, j, LE) => Tope(b.lista, j, LE)
        /\ Tope(a.lista, i + 1, LE) => Tope(b.lista, i, LE)
    BY <2>1, <2>2, <2>4, ComparaOrdena
  <2>6. \A j \in h + 2 .. n : Tope(b.lista, j, LE)
    <3>1. \A j \in h + 2 .. n : j \in i + 2 .. n
      BY <1>1, <2>1
    <3> QED
      BY <2>2, <2>5, <3>1
  <2>7. Todo(a) => Todo(b)
    <3>1. \A j \in 1 .. n : j \in i + 2 .. n \/ j \in 1 .. i - 1 \/ j = i \/ j = i + 1
      BY <2>1
    <3>2. i + 1 \in 1 .. n
      BY <2>1
    <3> QED
      BY <2>5, <3>1, <3>2
  <2>8. \/ b.desordenados = p.desordenados /\ \A j \in 1 .. i + 1 : Tope(b.lista, j, LE)
        \/ b.desordenados < i /\ \A j \in b.desordenados + 2 .. i + 1 : Tope(b.lista, j, LE)
    <3>1. CASE <<a.lista[i], a.lista[i + 1]>> \in R
      <4>1. b = a
        BY <2>1, <2>2, <3>1, ComparaPaso
      <4>2. CASE a.desordenados = p.desordenados /\ \A j \in 1 .. (i - 1) + 1 : Tope(a.lista, j, LE)
        <5>1. \A j \in 1 .. i + 1 : j \in 1 .. (i - 1) + 1 \/ j = i + 1
          BY <2>1
        <5> QED
          BY <2>5, <4>1, <4>2, <5>1
      <4>3. CASE a.desordenados < i - 1 /\ \A j \in a.desordenados + 2 .. (i - 1) + 1 : Tope(a.lista, j, LE)
        <5>1. \A j \in a.desordenados + 2 .. i + 1 : j \in a.desordenados + 2 .. (i - 1) + 1 \/ j = i + 1
          BY <2>1, <2>3
        <5>2. a.desordenados < i
          BY <2>1, <2>3, <4>3
        <5> QED
          BY <2>5, <4>1, <4>3, <5>1, <5>2
      <4> QED
        BY <2>2, <4>2, <4>3
    <3>2. CASE <<a.lista[i], a.lista[i + 1]>> \notin R
      <4>1. b.desordenados = i - 1
        BY <2>1, <2>2, <3>2, ComparaPaso
      <4>2. \A j \in b.desordenados + 2 .. i + 1 : j = i + 1
        BY <4>1
      <4> QED
        BY <2>5, <4>1, <4>2
    <3> QED
      BY <3>1, <3>2
  <2>9. Cumple(i, b)
    BY <2>2, <2>6, <2>7, <2>8
  <2> QED
    BY <2>1, <2>9 DEF b
<1> HIDE DEF P
<1>5. \A i \in 0 .. h : i \in P
  BY <1>1, <1>3, <1>4, HastaElUltimo
<1> DEFINE q == Pasada(p, R)
<1>6. Cumple(h, q) /\ q.desordenados \in 0 .. n
  <2>1. h \in P /\ f[h] \in Pasos(E, n) /\ q = f[h]
    BY <1>1, <1>2, <1>5
  <2> HIDE DEF q
  <2> QED
    BY <2>1 DEF P, Pasos
<1> HIDE DEF q
<1>7. CASE q.desordenados = p.desordenados /\ \A j \in 1 .. h + 1 : Tope(q.lista, j, LE)
  <2>1. \A j \in 1 .. n : j \in 1 .. h + 1 \/ j \in h + 2 .. n
    BY <1>1
  <2>2. Todo(q)
    BY <1>6, <1>7, <2>1
  <2>3. \A j \in q.desordenados + 2 .. n : j \in 1 .. n
    BY <1>6
  <2> QED
    BY <1>6, <2>2, <2>3 DEF q
<1>8. CASE q.desordenados < h /\ \A j \in q.desordenados + 2 .. h + 1 : Tope(q.lista, j, LE)
  <2>1. \A j \in q.desordenados + 2 .. n : j \in q.desordenados + 2 .. h + 1 \/ j \in h + 2 .. n
    BY <1>1, <1>6
  <2>2. h <= p.desordenados
    BY <1>0, <1>1
  <2>3. q.desordenados < p.desordenados
    BY <1>1, <1>6, <1>8, <2>2
  <2>4. \A j \in q.desordenados + 2 .. n : Tope(q.lista, j, LE)
    BY <1>6, <1>8, <2>1
  <2> QED
    BY <1>6, <2>3, <2>4 DEF q
<1> QED
  BY <1>6, <1>7, <1>8

\* list_sort keeps the elements of a list ...
LEMMA ListSortReordena ==
  ASSUME NEW E, NEW n \in Nat \ {0}, NEW lista \in [1 .. n -> E], NEW R
  PROVE  ListSort(lista, R) \in [1 .. n -> E] /\ Reordena(lista, ListSort(lista, R), n)
<1>0. PICK f \in [0 .. n -> Pasos(E, n)] : SonPasadas(f, lista, n, R)
  BY ListSortRondas
<1>1. /\ f[0] = [lista |-> lista, desordenados |-> n] /\ ListSort(lista, R) = f[n].lista
      /\ \A i \in 1 .. n : f[i] = Pasada(f[i - 1], R)
  BY <1>0 DEF SonPasadas
<1> DEFINE P == {i \in 0 .. n : Reordena(lista, f[i].lista, n)}
<1>2. 0 \in P
  BY <1>1 DEF Reordena
<1>3. ASSUME NEW i \in 1 .. n, i - 1 \in P PROVE i \in P
  <2>1. i - 1 \in 0 .. n /\ i \in 0 .. n /\ f[i - 1] \in Pasos(E, n)
    OBVIOUS
  <2>2. Reordena(f[i - 1].lista, Pasada(f[i - 1], R).lista, n)
    BY <2>1, PasadaPaso
  <2>3. Reordena(lista, f[i].lista, n)
    BY <1>1, <1>3, <2>2, ReordenaTrans
  <2> QED
    BY <2>1, <2>3
<1> HIDE DEF P
<1>4. \A i \in 0 .. n : i \in P
  BY <1>2, <1>3, HastaElUltimo
<1>5. n \in P /\ f[n] \in Pasos(E, n)
  BY <1>4
<1> QED
  BY <1>1, <1>5 DEF P, Pasos

\* A sort leaves the elements in the order of its comparator, whatever becomes of
\* those that it tells neither way: each pass, shorter than the last, settles one
\* more at least, so as many passes as elements are enough (list_sort).
THEOREM ListSortOrdena ==
  ASSUME NEW E, NEW n \in Nat \ {0}, NEW lista \in [1 .. n -> E], NEW R, NEW LE, Ordena(R, LE, E)
  PROVE  \A j \in 1 .. n : Tope(ListSort(lista, R), j, LE)
<1>0. PICK f \in [0 .. n -> Pasos(E, n)] : SonPasadas(f, lista, n, R)
  BY ListSortRondas
<1>1. /\ f[0] = [lista |-> lista, desordenados |-> n] /\ ListSort(lista, R) = f[n].lista
      /\ \A i \in 1 .. n : f[i] = Pasada(f[i - 1], R)
  BY <1>0 DEF SonPasadas
<1> DEFINE Todo(p) == \A j \in 1 .. n : Tope(p.lista, j, LE)
           Suelto(p) == \A j \in p.desordenados + 2 .. n : Tope(p.lista, j, LE)
           P == {i \in 0 .. n : Suelto(f[i]) /\ (Todo(f[i]) \/ f[i].desordenados <= n - i)}
<1>2. 0 \in P
  BY <1>1
<1>3. ASSUME NEW i \in 1 .. n, i - 1 \in P PROVE i \in P
  <2> DEFINE a == f[i - 1]
             b == f[i]
  <2>1. /\ i - 1 \in 0 .. n /\ i \in 0 .. n /\ a \in Pasos(E, n) /\ b \in Pasos(E, n)
        /\ b = Pasada(a, R)
    BY <1>1
  <2>2. Suelto(a) /\ (Todo(a) \/ a.desordenados <= n - (i - 1))
    BY <1>3
  <2> HIDE DEF a, b
  <2>3. Suelto(b) /\ (b.desordenados < a.desordenados \/ Todo(b)) /\ (Todo(a) => Todo(b))
    BY <2>1, <2>2, PasadaOrdena
  <2>4. a.desordenados \in Nat /\ b.desordenados \in Nat
    BY <2>1 DEF Pasos
  <2>5. Todo(b) \/ b.desordenados <= n - i
    BY <2>1, <2>2, <2>3, <2>4
  <2> QED
    BY <2>1, <2>3, <2>5 DEF b
<1> HIDE DEF P
<1>4. \A i \in 0 .. n : i \in P
  BY <1>2, <1>3, HastaElUltimo
<1>5. /\ f[n].desordenados \in Nat /\ Suelto(f[n])
      /\ Todo(f[n]) \/ f[n].desordenados <= n - n
  <2>1. n \in P /\ f[n] \in Pasos(E, n)
    BY <1>4
  <2> QED
    BY <2>1 DEF P, Pasos
<1>6. Todo(f[n])
  <2>1. ASSUME f[n].desordenados <= n - n PROVE Todo(f[n])
    <3>1. f[n].desordenados = 0
      BY <1>5, <2>1
    <3>2. \A j \in 1 .. n : j = 1 \/ j \in 0 + 2 .. n
      OBVIOUS
    <3>3. Tope(f[n].lista, 1, LE)
      BY DEF Tope
    <3> QED
      BY <1>5, <3>1, <3>2, <3>3
  <2> QED
    BY <1>5, <2>1
<1> QED
  BY <1>1, <1>6

-----------------------------------------------------------------------------
(* Lists without repetitions *)

\* lista has each member of C once, and nothing else.
En(lista, C) == /\ lista \in Seq(ESIs) /\ ToSet(lista) = C
                /\ \A i, j \in DOMAIN lista : lista[i] = lista[j] => i = j

LEMMA EnVacia == En(<< >>, {})
BY EmptySeq DEF En, ToSet

\* list_add of one that is not there.
LEMMA EnAppend ==
  ASSUME NEW C, NEW lista, En(lista, C), NEW e \in ESIs, e \notin C
  PROVE  En(Append(lista, e), C \cup {e})
<1> DEFINE l == Append(lista, e)
<1>1. lista \in Seq(ESIs) /\ Len(lista) \in Nat /\ DOMAIN lista = 1 .. Len(lista)
  BY DEF En
<1>2. /\ l \in Seq(ESIs) /\ DOMAIN l = 1 .. Len(lista) + 1
      /\ \A i \in DOMAIN lista : l[i] = lista[i]
      /\ l[Len(lista) + 1] = e
  BY <1>1, AppendProperties
<1> HIDE DEF l
<1>3. \A i \in DOMAIN lista : lista[i] # e
  BY DEF En, ToSet
<1>4. DOMAIN l = DOMAIN lista \cup {Len(lista) + 1}
  BY <1>1, <1>2
<1>5. ToSet(l) = C \cup {e}
  BY <1>1, <1>2, <1>4 DEF En, ToSet
<1>6. \A i, j \in DOMAIN l : l[i] = l[j] => i = j
  BY <1>2, <1>3, <1>4 DEF En
<1> QED
  BY <1>2, <1>5, <1>6 DEF En, l

\* list_remove_by_condition of the first that is e.
LEMMA EnRemove ==
  ASSUME NEW C, NEW lista, En(lista, C), NEW e
  PROVE  En(RemoveFirst(lista, e), C \ {e})
<1>1. lista \in Seq(ESIs) /\ Len(lista) \in Nat /\ DOMAIN lista = 1 .. Len(lista)
  BY DEF En
<1> DEFINE P == {i \in 1 .. Len(lista) : lista[i] = e}
           p == Min(P)
           l == RemoveFirst(lista, e)
<1>2. CASE P = {}
  <2>1. l = lista
    BY <1>2 DEF RemoveFirst
  <2>2. e \notin C
    BY <1>1, <1>2 DEF En, ToSet
  <2>3. C \ {e} = C
    BY <2>2
  <2> QED
    BY <2>1, <2>3
<1>3. CASE P # {}
  <2>1. p \in P /\ p \in 1 .. Len(lista)
    BY <1>1, <1>3, FirstPlace
  <2>2. l = RemoveAt(lista, p)
    BY <1>3 DEF RemoveFirst, SelectInSeq
  <2>3. lista[p] = e
    BY <2>1
  <2> HIDE DEF p, l, P
  <2>4. /\ l \in Seq(ESIs) /\ DOMAIN l = 1 .. Len(lista) - 1
        /\ \A j \in 1 .. Len(lista) - 1 : l[j] = IF j < p THEN lista[j] ELSE lista[j + 1]
    BY <1>1, <2>1, <2>2, RemoveAtProperties
  <2>5. \A i, j \in DOMAIN lista : lista[i] = lista[j] => i = j
    BY DEF En
  <2>6. \A j \in DOMAIN l : /\ (IF j < p THEN j ELSE j + 1) \in DOMAIN lista
                            /\ l[j] = lista[IF j < p THEN j ELSE j + 1]
                            /\ (IF j < p THEN j ELSE j + 1) # p
    BY <1>1, <2>1, <2>4
  <2>7. \A i \in DOMAIN lista : i # p => \E j \in DOMAIN l : l[j] = lista[i]
    <3>1. ASSUME NEW i \in DOMAIN lista, i < p PROVE i \in DOMAIN l /\ l[i] = lista[i]
      BY <1>1, <2>1, <2>4, <3>1
    <3>2. ASSUME NEW i \in DOMAIN lista, i > p PROVE i - 1 \in DOMAIN l /\ l[i - 1] = lista[i]
      BY <1>1, <2>1, <2>4, <3>2
    <3> QED
      BY <1>1, <2>1, <3>1, <3>2
  <2>8. ToSet(l) = C \ {e}
    <3>1. C = {lista[i] : i \in DOMAIN lista}
      BY DEF En, ToSet
    <3>2. ASSUME NEW j \in DOMAIN l PROVE l[j] \in C /\ l[j] # e
      BY <1>1, <2>1, <2>3, <2>5, <2>6, <3>1
    <3>3. ASSUME NEW x \in C, x # e PROVE \E j \in DOMAIN l : l[j] = x
      <4>1. PICK i \in DOMAIN lista : lista[i] = x
        BY <3>1
      <4> QED
        BY <2>3, <2>7, <3>3, <4>1
    <3> QED
      BY <3>2, <3>3 DEF ToSet
  <2>9. \A i, j \in DOMAIN l : l[i] = l[j] => i = j
    <3>1. ASSUME NEW i \in DOMAIN l, NEW j \in DOMAIN l, l[i] = l[j] PROVE i = j
      <4>1. (IF i < p THEN i ELSE i + 1) = (IF j < p THEN j ELSE j + 1)
        BY <2>5, <2>6, <3>1
      <4> QED
        BY <1>1, <2>1, <2>4, <4>1
    <3> QED
      BY <3>1
  <2> QED
    BY <2>4, <2>8, <2>9 DEF En, l
<1> QED
  BY <1>2, <1>3

\* What is left when the first is taken.
LEMMA EnTail ==
  ASSUME NEW C, NEW lista, En(lista, C), lista # << >>
  PROVE  Head(lista) \in C /\ Head(lista) \in ESIs /\ En(Tail(lista), C \ {Head(lista)})
<1> DEFINE l == Tail(lista)
           h == Head(lista)
<1>1. lista \in Seq(ESIs) /\ Len(lista) \in Nat \ {0} /\ DOMAIN lista = 1 .. Len(lista)
  BY EmptySeq DEF En
<1>2. h = lista[1] /\ h \in ESIs
  BY <1>1
<1>3. /\ l \in Seq(ESIs) /\ DOMAIN l = 1 .. Len(lista) - 1
      /\ \A i \in 1 .. Len(lista) - 1 : l[i] = lista[i + 1]
  BY <1>1, HeadTailProperties
<1> HIDE DEF l, h
<1>4. \A i, j \in DOMAIN lista : lista[i] = lista[j] => i = j
  BY DEF En
<1>5. C = {lista[i] : i \in DOMAIN lista}
  BY DEF En, ToSet
<1>6. ToSet(l) = C \ {h}
  <2>1. ASSUME NEW j \in DOMAIN l PROVE l[j] \in C /\ l[j] # h
    <3>1. j + 1 \in DOMAIN lista /\ 1 \in DOMAIN lista /\ l[j] = lista[j + 1] /\ j + 1 # 1
      BY <1>1, <1>3
    <3> QED
      BY <1>2, <1>4, <1>5, <3>1
  <2>2. ASSUME NEW x \in C, x # h PROVE \E j \in DOMAIN l : l[j] = x
    <3>1. PICK i \in DOMAIN lista : lista[i] = x
      BY <1>5
    <3>2. i - 1 \in DOMAIN l /\ l[i - 1] = x
      BY <1>1, <1>2, <1>3, <2>2, <3>1
    <3> QED
      BY <3>2
  <2> QED
    BY <2>1, <2>2 DEF ToSet
<1>7. \A i, j \in DOMAIN l : l[i] = l[j] => i = j
  <2>1. ASSUME NEW i \in DOMAIN l, NEW j \in DOMAIN l, l[i] = l[j] PROVE i = j
    <3>1. i + 1 \in DOMAIN lista /\ j + 1 \in DOMAIN lista /\ lista[i + 1] = lista[j + 1]
      BY <1>1, <1>3, <2>1
    <3>2. i + 1 = j + 1
      BY <1>4, <3>1
    <3> QED
      BY <1>1, <1>3, <3>2
  <2> QED
    BY <2>1
<1>8. h \in C
  BY <1>1, <1>2, <1>5
<1> QED
  BY <1>2, <1>3, <1>6, <1>7, <1>8 DEF En, l, h

\* The number of times that the runs count.
LEMMA EnVeces ==
  ASSUME NEW C, NEW lista, En(lista, C), NEW e
  PROVE  Veces(e, lista) = IF e \in C THEN 1 ELSE 0
<1> DEFINE I == {i \in DOMAIN lista : lista[i] = e}
<1>1. CASE e \in C
  <2>1. PICK i \in DOMAIN lista : lista[i] = e
    BY <1>1 DEF En, ToSet
  <2>2. I = {i}
    BY <2>1 DEF En
  <2> QED
    BY <1>1, <2>2, FS_Singleton DEF Veces
<1>2. CASE e \notin C
  <2>1. I = {}
    BY <1>2 DEF En, ToSet
  <2> QED
    BY <1>2, <2>1, FS_EmptySet DEF Veces
<1> QED
  BY <1>1, <1>2

\* list_sort of a list that is not empty.
LEMMA SortTipo ==
  ASSUME NEW lista \in Seq(ESIs), lista # << >>, NEW R
  PROVE  ListSort(lista, R) \in Seq(ESIs) /\ ListSort(lista, R) # << >>
<1>1. PICK n \in Nat \ {0} : n = Len(lista)
  BY EmptySeq
<1>2. lista \in [1 .. n -> ESIs]
  BY <1>1
<1>3. ListSort(lista, R) \in [1 .. n -> ESIs]
  BY <1>2, ListSortReordena
<1> DEFINE l == ListSort(lista, R)
<1> HIDE DEF l
<1>4. l \in [1 .. n -> ESIs]
  BY <1>3 DEF l
<1>5. l \in Seq(ESIs) /\ Len(l) = n
  BY <1>4, ListaLen
<1>6. l # << >>
  BY <1>5
<1> QED
  BY <1>5, <1>6 DEF l

LEMMA EnSort ==
  ASSUME NEW C, NEW lista, En(lista, C), lista # << >>, NEW R
  PROVE  En(ListSort(lista, R), C) /\ ListSort(lista, R) # << >>
<1>1. PICK n \in Nat \ {0} : n = Len(lista)
  BY EmptySeq DEF En
<1>2. lista \in [1 .. n -> ESIs] /\ DOMAIN lista = 1 .. n
  BY <1>1 DEF En
<1> DEFINE l == ListSort(lista, R)
<1>3. l \in [1 .. n -> ESIs] /\ Reordena(lista, l, n)
  BY <1>2, ListSortReordena
<1>4. l \in Seq(ESIs) /\ l # << >>
  BY <1>1, SortTipo DEF En
<1> HIDE DEF l
<1>5. DOMAIN l = 1 .. n
  BY <1>3
<1>6. ToSet(l) = C
  BY <1>2, <1>3, <1>5 DEF En, ToSet, Reordena
<1>7. \A i, j \in DOMAIN l : l[i] = l[j] => i = j
  BY <1>2, <1>3, <1>5 DEF En, Reordena
<1> QED
  BY <1>4, <1>6, <1>7 DEF En, l

\* What the three algorithms would take next, and what they would leave.
LEMMA ReplanTipo ==
  ASSUME NEW lista \in Seq(ESIs)
  PROVE  Replan(lista).next \in ESIs \cup {Ninguno} /\ Replan(lista).listos \in Seq(ESIs)
<1>1. CASE lista = << >>
  BY <1>1, EmptySeq DEF Replan
<1>2. CASE lista # << >>
  <2> DEFINE o == EnElOrdenDelAlgoritmo(lista)
  <2>1. o \in Seq(ESIs) /\ o # << >>
    BY <1>2, SortTipo DEF EnElOrdenDelAlgoritmo
  <2> HIDE DEF o
  <2>2. Replan(lista) = [next |-> Head(o), listos |-> Tail(o)]
    BY <1>2 DEF Replan, o
  <2>3. Head(o) \in ESIs /\ Tail(o) \in Seq(ESIs)
    BY <2>1
  <2> QED
    BY <2>2, <2>3
<1> QED
  BY <1>1, <1>2

LEMMA EnReplan ==
  ASSUME NEW C, NEW lista, En(lista, C)
  PROVE  /\ Replan(lista).next \in C \cup {Ninguno}
         /\ Replan(lista).next \in ESIs \cup {Ninguno}
         /\ En(Replan(lista).listos, C \ {Replan(lista).next})
<1>1. CASE lista = << >>
  <2>1. C = {}
    BY <1>1, EnVacia DEF En, ToSet
  <2> QED
    BY <1>1, <2>1, EnVacia DEF Replan
<1>2. CASE lista # << >>
  <2> DEFINE o == EnElOrdenDelAlgoritmo(lista)
  <2>1. En(o, C) /\ o # << >>
    BY <1>2, EnSort DEF EnElOrdenDelAlgoritmo
  <2> HIDE DEF o
  <2>2. Replan(lista) = [next |-> Head(o), listos |-> Tail(o)]
    BY <1>2 DEF Replan, o
  <2>3. Head(o) \in C /\ Head(o) \in ESIs /\ En(Tail(o), C \ {Head(o)})
    BY <2>1, EnTail
  <2> QED
    BY <2>2, <2>3
<1> QED
  BY <1>1, <1>2
-----------------------------------------------------------------------------
(* Types, pointers and the clock, whatever is typed at the console *)

EsiOK == [estado : {"ausente", "NUEVO", "CORRIENDO", "BLOQUEADO", "DESBLOQUEADO", "FINALIZADO", "borrado"},
          largo : Largos \cup {0}, instruction_pointer : Nat,
          anterior_instruction_pointer : Nat, duracion_real_ultima_rafaga : Nat,
          estimacion_ultima_rafaga : Nat, ultima_entrada_a_ready : 0 .. MaxTiempo]

TipoListas == /\ READY_ESI_LIST \in Seq(ESIs) /\ BLOCKED_ESI_LIST \in Seq(ESIs)
              /\ NEXT_RUNNING_ESI \in ESIs \cup {Ninguno}

\* What is noted for the sentences that come late.
TipoTarde ==
    /\ esperas \in [ESIs -> Nat]
    /\ {FINISHED_ESI_LIST, interrumpidos, pedidos} \subseteq SUBSET ESIs /\ aDestiempo \in BOOLEAN

\* The dispatcher has given the turn and not closed it.
EnMarcha == pc \in {"sentencia", "almacenada", "cerrar", "fallado"}

\* The pointer of an ESI is never more than one behind that of its last burst,
\* and not behind in its turn, so that the length of the next one is counted.
Puntero(e) ==
    /\ esi[e].ultima_entrada_a_ready <= cpu_time
    /\ esi[e].instruction_pointer >= esi[e].anterior_instruction_pointer - 1
    /\ e = RUNNING_ESI /\ EnMarcha =>
         /\ esi[e].instruction_pointer >= esi[e].anterior_instruction_pointer
         /\ esi[e].instruction_pointer > 0

Relojes ==
    /\ EnMarcha => cpu_time < MaxTiempo
    /\ pc # "adquirir" => RUNNING_ESI \in ESIs /\ esi[RUNNING_ESI].estado # "ausente"
    /\ \A e \in ESIs : Puntero(e)

TInv == TypeOK /\ Relojes

LEMMA ListoOK ==
  ASSUME cpu_time \in 0 .. MaxTiempo, NEW s \in EsiOK
  PROVE  /\ Listo(s) \in EsiOK
         /\ Listo(s).ultima_entrada_a_ready \in {cpu_time, s.ultima_entrada_a_ready}
<1>1. EstimateNextCpuBurst(s) \in Nat
  <2>1. alpha \in Nat /\ 100 - alpha \in Nat /\ initial_estimation \in Nat /\ ESCALA \in Nat
    BY ConfiguracionAssumption
  <2>2. s.duracion_real_ultima_rafaga \in Nat /\ s.estimacion_ultima_rafaga \in Nat
    BY DEF EsiOK
  <2> DEFINE a == alpha * s.duracion_real_ultima_rafaga
             b == (100 - alpha) * s.estimacion_ultima_rafaga
             c == initial_estimation * ESCALA
             d == a * ESCALA
  <2>3. a \in Nat /\ b \in Nat /\ c \in Nat
    <3>1. \A x, y \in Nat : x * y \in Nat
      OBVIOUS
    <3> QED
      BY <2>1, <2>2, <3>1
  <2> HIDE DEF a
  <2>4. d \in Nat
    <3>1. \A x, y \in Nat : x * y \in Nat
      OBVIOUS
    <3> QED
      BY <2>1, <2>3, <3>1
  <2>5. EstimateNextCpuBurst(s) = IF s.estado = "NUEVO" THEN c ELSE (d + b) \div 100
    BY DEF EstimateNextCpuBurst, a
  <2> HIDE DEF b, c, d
  <2>6. (d + b) \div 100 \in Nat
    BY <2>3, <2>4
  <2> QED
    BY <2>3, <2>5, <2>6
<1>2. (IF algorithm = "HRRN" THEN cpu_time ELSE s.ultima_entrada_a_ready) \in 0 .. MaxTiempo
  BY DEF EsiOK
<1> QED
  BY <1>1, <1>2 DEF Listo, EsiOK

LEMMA BloqueadoOK ==
  ASSUME NEW s \in EsiOK, s.instruction_pointer >= s.anterior_instruction_pointer - 1
  PROVE  /\ Bloqueado(s) \in EsiOK
         /\ Bloqueado(s).ultima_entrada_a_ready = s.ultima_entrada_a_ready
<1>1. DuracionReal(s) \in Nat
  BY DEF DuracionReal, EsiOK
<1> QED
  BY <1>1 DEF Bloqueado, EsiOK

LEMMA TipoEsi ==
  ASSUME TypeOK
  PROVE  esi \in [ESIs -> EsiOK] /\ TipoListas /\ cpu_time \in 0 .. MaxTiempo /\ cpu_time \in Nat
BY DEF TypeOK, EsiOK, TipoListas

\* A step of no turn, or inside one, that gives nobody another pointer.
LEMMA RelojesStay ==
  ASSUME TypeOK, TypeOK', Relojes, UNCHANGED <<cpu_time, RUNNING_ESI>>, EnMarcha' => EnMarcha,
         pc' # "adquirir" => pc # "adquirir",
         \A x \in ESIs :
            /\ esi'[x].ultima_entrada_a_ready <= cpu_time
            /\ esi'[x].estado = "ausente" => esi[x].estado = "ausente"
            /\ \/ /\ esi'[x].instruction_pointer = esi[x].instruction_pointer
                  /\ esi'[x].anterior_instruction_pointer
                       \in {esi[x].instruction_pointer, esi[x].anterior_instruction_pointer}
               \/ /\ esi[x].estado = "ausente"
                  /\ esi'[x].instruction_pointer = 0 /\ esi'[x].anterior_instruction_pointer = 0
  PROVE  Relojes'
<1>1. \A x \in ESIs : /\ esi[x].instruction_pointer \in Nat /\ esi'[x].instruction_pointer \in Nat
                      /\ esi[x].anterior_instruction_pointer \in Nat
  BY TipoEsi DEF TypeOK, EsiOK
<1>2. EnMarcha => pc # "adquirir"
  BY DEF EnMarcha
<1>3. ASSUME NEW x \in ESIs PROVE Puntero(x)'
  <2>1. esi[x].estado = "ausente" => ~(x = RUNNING_ESI /\ EnMarcha)
    BY <1>2 DEF Relojes
  <2>2. Puntero(x)
    BY DEF Relojes
  <2> QED
    BY <1>1, <2>1, <2>2 DEF Puntero
<1>4. EnMarcha' => cpu_time' < MaxTiempo
  BY DEF Relojes
<1>5. pc' # "adquirir" => RUNNING_ESI' \in ESIs /\ esi'[RUNNING_ESI'].estado # "ausente"
  BY DEF Relojes
<1> QED
  BY <1>3, <1>4, <1>5 DEF Relojes

\* A step that keeps the esis.
LEMMA TInvStay ==
  ASSUME TInv, TypeOK', UNCHANGED <<cpu_time, RUNNING_ESI, esi>>, EnMarcha' => EnMarcha,
         pc' # "adquirir" => pc # "adquirir"
  PROVE  TInv'
<1>1. \A x \in ESIs : esi[x].ultima_entrada_a_ready <= cpu_time
  BY DEF TInv, Relojes, Puntero
<1> QED
  BY <1>1, RelojesStay DEF TInv

LEMMA MuereTInv == ASSUME TInv, TipoTarde', Muere PROVE TInv'
<1>1. TypeOK'
  BY DEF TInv, TypeOK, TipoTarde, Muere, listas, turno, proceso, cuentas
<1> QED
  BY <1>1, TInvStay DEF Muere, turno, EnMarcha

\* add_esi_by_algorithm.
LEMMA AddTipo ==
  ASSUME TypeOK, NEW e \in ESIs, NEW s \in EsiOK, AddEsiByAlgorithm(e, s)
  PROVE  /\ esi' = [esi EXCEPT ![e] = Listo(s)]
         /\ READY_ESI_LIST' \in Seq(ESIs) /\ NEXT_RUNNING_ESI' \in ESIs \cup {Ninguno}
<1>1. esi' = [esi EXCEPT ![e] = Listo(s)]
  BY DEF AddEsiByAlgorithm
<1> DEFINE l == Append(READY_ESI_LIST, e)
           mapa == [esi EXCEPT ![e] = Listo(s)]
<1>2. l \in Seq(ESIs) /\ l # << >>
  <2>1. READY_ESI_LIST \in Seq(ESIs)
    BY DEF TypeOK
  <2>2. l \in Seq(ESIs) /\ Len(l) = Len(READY_ESI_LIST) + 1 /\ Len(READY_ESI_LIST) \in Nat
    BY <2>1, AppendProperties
  <2> HIDE DEF l
  <2> QED
    BY <2>2
<1>3. CASE algorithm = "SJF_DESALOJO" /\ RUNNING_ESI # Ninguno
  <2> DEFINE o == ListSort(l, PorRafaga(mapa, l))
  <2>1. o \in Seq(ESIs) /\ o # << >>
    BY <1>2, SortTipo
  <2>2. ReplanForNewEsi(mapa, l)
    BY <1>3 DEF AddEsiByAlgorithm
  <2>3. \/ NEXT_RUNNING_ESI' = Head(o) /\ READY_ESI_LIST' = Append(Tail(o), RUNNING_ESI)
        \/ READY_ESI_LIST' = o /\ UNCHANGED NEXT_RUNNING_ESI
    BY <2>2 DEF ReplanForNewEsi
  <2> HIDE DEF o
  <2>4. Head(o) \in ESIs /\ Tail(o) \in Seq(ESIs)
    BY <2>1
  <2>6. RUNNING_ESI \in ESIs
    BY <1>3 DEF TypeOK
  <2>5. Append(Tail(o), RUNNING_ESI) \in Seq(ESIs)
    BY <2>4, <2>6
  <2> QED
    BY <1>1, <2>1, <2>3, <2>4, <2>5 DEF TypeOK
<1>4. CASE ~(algorithm = "SJF_DESALOJO" /\ RUNNING_ESI # Ninguno)
  BY <1>1, <1>2, <1>4 DEF AddEsiByAlgorithm, TypeOK
<1> QED
  BY <1>3, <1>4

LEMMA NotifyTipo == ASSUME TypeOK, NotifyDispatcher PROVE dispatcher_manager' \in {"libre", "tomado"}
BY DEF TypeOK, NotifyDispatcher

LEMMA NewEsiTInv == ASSUME TInv, TipoTarde', NEW e \in ESIs, NewEsi(e) PROVE TInv'
<1>1. CASE Muere
  BY <1>1, MuereTInv
<1>2. CASE ~Muere
  <2>1. PICK n \in Largos : AddEsiByAlgorithm(e, [EsiNuevo EXCEPT !.estado = "NUEVO", !.largo = n])
    BY <1>2 DEF NewEsi
  <2>2. /\ esi[e].estado = "ausente" /\ NotifyDispatcher
        /\ UNCHANGED <<algorithm, BLOCKED_ESI_LIST, RUNNING_ESI, cpu_time, pc, proceso, cuentas, caido>>
    BY <1>2 DEF NewEsi
  <2> DEFINE s == [EsiNuevo EXCEPT !.estado = "NUEVO", !.largo = n]
  <2>3. s \in EsiOK /\ s.instruction_pointer = 0 /\ s.anterior_instruction_pointer = 0
        /\ s.ultima_entrada_a_ready = 0 /\ s.estado = "NUEVO"
    <3>1. initial_estimation * ESCALA \in Nat /\ 0 \in 0 .. MaxTiempo
      BY ConfiguracionAssumption
    <3> QED
      BY <3>1 DEF EsiNuevo, EsiOK
  <2> HIDE DEF s
  <2>4. /\ esi' = [esi EXCEPT ![e] = Listo(s)]
        /\ READY_ESI_LIST' \in Seq(ESIs) /\ NEXT_RUNNING_ESI' \in ESIs \cup {Ninguno}
    BY <2>1, <2>3, AddTipo DEF TInv, s
  <2>5. cpu_time \in 0 .. MaxTiempo /\ cpu_time \in Nat
    BY DEF TInv, TypeOK
  <2>6. /\ Listo(s) \in EsiOK /\ Listo(s).ultima_entrada_a_ready \in {cpu_time, 0}
    BY <2>3, <2>5, ListoOK
  <2>7. /\ Listo(s).instruction_pointer = 0 /\ Listo(s).anterior_instruction_pointer = 0
        /\ Listo(s).estado = "NUEVO"
    BY <2>3 DEF Listo, EsiOK
  <2>8. esi \in [ESIs -> EsiOK] /\ \A x \in ESIs : Puntero(x)
    BY TipoEsi DEF TInv, Relojes
  <2>9. esi' \in [ESIs -> EsiOK] /\ \A x \in ESIs : esi'[x] = IF x = e THEN Listo(s) ELSE esi[x]
    BY <2>4, <2>6, <2>8
  <2>10. TypeOK'
    <3>1. dispatcher_manager' \in {"libre", "tomado"}
      BY <2>2, NotifyTipo DEF TInv
    <3> QED
      BY <2>2, <2>4, <2>9, <3>1 DEF TInv, TypeOK, TipoTarde, EsiOK, proceso, cuentas
  <2>11. \A x \in ESIs :
            /\ esi'[x].ultima_entrada_a_ready <= cpu_time
            /\ esi'[x].estado = "ausente" => esi[x].estado = "ausente"
            /\ \/ /\ esi'[x].instruction_pointer = esi[x].instruction_pointer
                  /\ esi'[x].anterior_instruction_pointer
                       \in {esi[x].instruction_pointer, esi[x].anterior_instruction_pointer}
               \/ /\ esi[x].estado = "ausente"
                  /\ esi'[x].instruction_pointer = 0 /\ esi'[x].anterior_instruction_pointer = 0
    BY <2>2, <2>5, <2>6, <2>7, <2>8, <2>9 DEF Puntero
  <2> QED
    BY <2>2, <2>10, <2>11, RelojesStay DEF TInv, EnMarcha
<1> QED
  BY <1>1, <1>2

\* What unblock_esi leaves, whether or not the process dies of it.
LEMMA UnblockTInv ==
  ASSUME TInv, TipoTarde', NEW e \in ESIs, UnblockEsi(e), comandos' \in 0 .. MaxComandos,
         pc' = pc \/ (pc = "sentencia" /\ pc' = "almacenada")
  PROVE  TInv'
<1> DEFINE s == [esi[e] EXCEPT !.estado = "DESBLOQUEADO"]
<1>1. /\ TypeOK /\ esi \in [ESIs -> EsiOK] /\ cpu_time \in 0 .. MaxTiempo /\ cpu_time \in Nat
      /\ \A x \in ESIs : Puntero(x)
  BY TipoEsi DEF TInv, Relojes
<1>2. /\ s \in EsiOK /\ s.ultima_entrada_a_ready = esi[e].ultima_entrada_a_ready
      /\ s.instruction_pointer = esi[e].instruction_pointer
      /\ s.anterior_instruction_pointer = esi[e].anterior_instruction_pointer
      /\ s.estado = "DESBLOQUEADO"
  BY <1>1 DEF EsiOK
<1>3. pc' \in {"adquirir", "sentencia", "almacenada", "fallado", "sin_resultado", "cerrar", "terminar", "terminado"}
  BY <1>1 DEF TypeOK
<1>4. CASE AddMata \/ ~EnMapa(e)
  <2>1. TypeOK'
    BY <1>1, <1>3, <1>4 DEF UnblockEsi, TypeOK, TipoTarde, listas, turno, proceso
  <2> QED
    BY <1>4, <2>1, TInvStay DEF UnblockEsi, turno, EnMarcha
<1>5. CASE ~(AddMata \/ ~EnMapa(e))
  <2>1. /\ BLOCKED_ESI_LIST' = RemoveFirst(BLOCKED_ESI_LIST, e) /\ AddEsiByAlgorithm(e, s)
        /\ NotifyDispatcher
        /\ UNCHANGED <<algorithm, RUNNING_ESI, cpu_time, proceso, bloqueos, caido>>
    BY <1>5 DEF UnblockEsi
  <2> HIDE DEF s
  <2>2. /\ esi' = [esi EXCEPT ![e] = Listo(s)]
        /\ READY_ESI_LIST' \in Seq(ESIs) /\ NEXT_RUNNING_ESI' \in ESIs \cup {Ninguno}
    BY <1>1, <1>2, <2>1, AddTipo
  <2>3. /\ Listo(s) \in EsiOK /\ Listo(s).ultima_entrada_a_ready \in {cpu_time, esi[e].ultima_entrada_a_ready}
    BY <1>1, <1>2, ListoOK
  <2>4. /\ Listo(s).instruction_pointer = esi[e].instruction_pointer
        /\ Listo(s).anterior_instruction_pointer = esi[e].anterior_instruction_pointer
        /\ Listo(s).estado = "DESBLOQUEADO"
    BY <1>2 DEF Listo, EsiOK
  <2>5. esi' \in [ESIs -> EsiOK] /\ \A x \in ESIs : esi'[x] = IF x = e THEN Listo(s) ELSE esi[x]
    BY <1>1, <2>2, <2>3
  <2>6. TypeOK'
    <3>1. BLOCKED_ESI_LIST' \in Seq(ESIs)
      BY <1>1, <2>1, RemoveFirstTipo DEF TypeOK
    <3>2. dispatcher_manager' \in {"libre", "tomado"}
      BY <1>1, <2>1, NotifyTipo
    <3> QED
      BY <1>1, <1>3, <2>1, <2>2, <2>5, <3>1, <3>2 DEF TypeOK, TipoTarde, EsiOK, proceso
  <2>7. \A x \in ESIs :
            /\ esi'[x].ultima_entrada_a_ready <= cpu_time
            /\ esi'[x].estado = "ausente" => esi[x].estado = "ausente"
            /\ esi'[x].instruction_pointer = esi[x].instruction_pointer
            /\ esi'[x].anterior_instruction_pointer = esi[x].anterior_instruction_pointer
    BY <1>1, <2>3, <2>4, <2>5 DEF Puntero
  <2> QED
    BY <1>1, <2>1, <2>6, <2>7, RelojesStay DEF TInv, EnMarcha
<1> QED
  BY <1>4, <1>5

LEMMA FreeResourceTInv == ASSUME TInv, TipoTarde', NEW e \in ESIs, FreeResource(e) PROVE TInv'
<1>1. comandos' \in 0 .. MaxComandos
  BY DEF TInv, TypeOK, FreeResource
<1> QED
  BY <1>1, UnblockTInv DEF FreeResource

LEMMA UnblockCmdTInv == ASSUME TInv, TipoTarde', NEW e \in ESIs, UnblockCmd(e) PROVE TInv'
<1>1. comandos' \in 0 .. MaxComandos
  BY ConfiguracionAssumption DEF TInv, TypeOK, UnblockCmd, Comando, QuedanSucesos
<1> QED
  BY <1>1, UnblockTInv DEF UnblockCmd

\* block_esi, in the turn of e or from the console.
LEMMA BlockTInv ==
  ASSUME TInv, TipoTarde', NEW e \in ESIs, BlockEsi(e), comandos' \in 0 .. MaxComandos, bloqueos' \in 0 .. MaxBloqueos,
         UNCHANGED <<algorithm, RUNNING_ESI, cpu_time, dispatcher_manager, ejecutadas, caido>>,
         pc' = pc \/ (pc = "sentencia" /\ pc' = "cerrar")
  PROVE  TInv'
<1>1. TypeOK /\ esi \in [ESIs -> EsiOK] /\ cpu_time \in Nat /\ \A x \in ESIs : Puntero(x)
  BY TipoEsi DEF TInv, Relojes
<1>2. /\ Bloqueado(esi[e]) \in EsiOK
      /\ Bloqueado(esi[e]).ultima_entrada_a_ready = esi[e].ultima_entrada_a_ready
  BY <1>1, BloqueadoOK DEF Puntero
<1>3. /\ Bloqueado(esi[e]).estado = "BLOQUEADO"
      /\ Bloqueado(esi[e]).instruction_pointer = esi[e].instruction_pointer
      /\ Bloqueado(esi[e]).anterior_instruction_pointer = esi[e].instruction_pointer
  BY <1>1 DEF Bloqueado, EsiOK
<1>4. esi' \in [ESIs -> EsiOK] /\ \A x \in ESIs : esi'[x] = IF x = e THEN Bloqueado(esi[e]) ELSE esi[x]
  BY <1>1, <1>2 DEF BlockEsi
<1>5. READY_ESI_LIST' \in Seq(ESIs) /\ NEXT_RUNNING_ESI' \in ESIs \cup {Ninguno}
  <2>1. READY_ESI_LIST \in Seq(ESIs) /\ NEXT_RUNNING_ESI \in ESIs \cup {Ninguno}
    BY <1>1 DEF TypeOK
  <2>2. CASE RUNNING_ESI = e
    <3>1. /\ NEXT_RUNNING_ESI' = Replan(READY_ESI_LIST).next
          /\ READY_ESI_LIST' = Replan(READY_ESI_LIST).listos
      BY <2>2 DEF BlockEsi, Replanifica
    <3> QED
      BY <2>1, <3>1, ReplanTipo
  <2>3. CASE RUNNING_ESI # e
    <3>1. /\ READY_ESI_LIST' \in {READY_ESI_LIST, RemoveFirst(READY_ESI_LIST, e)}
          /\ NEXT_RUNNING_ESI' = NEXT_RUNNING_ESI
      BY <2>3 DEF BlockEsi
    <3> QED
      BY <2>1, <3>1, RemoveFirstTipo
  <2> QED
    BY <2>2, <2>3
<1>6. BLOCKED_ESI_LIST' \in Seq(ESIs) /\ rafaga' \in [ESIs -> Nat]
  BY <1>1 DEF BlockEsi, TypeOK
<1>7. TypeOK'
  BY <1>1, <1>4, <1>5, <1>6 DEF TypeOK, TipoTarde, EsiOK
<1>8. \A x \in ESIs :
          /\ esi'[x].ultima_entrada_a_ready <= cpu_time
          /\ esi'[x].estado = "ausente" => esi[x].estado = "ausente"
          /\ esi'[x].instruction_pointer = esi[x].instruction_pointer
          /\ esi'[x].anterior_instruction_pointer
               \in {esi[x].instruction_pointer, esi[x].anterior_instruction_pointer}
  BY <1>1, <1>2, <1>3, <1>4 DEF Puntero
<1> QED
  BY <1>1, <1>7, <1>8, RelojesStay DEF TInv, EnMarcha

LEMMA BlockCmdTInv == ASSUME TInv, TipoTarde', NEW e \in ESIs, BlockCmd(e) PROVE TInv'
<1>1. comandos' \in 0 .. MaxComandos /\ bloqueos' \in 0 .. MaxBloqueos
  BY ConfiguracionAssumption DEF TInv, TypeOK, BlockCmd, Comando, QuedanSucesos
<1>2. CASE UNCHANGED caido
  <2>1. BlockEsi(e) \/ UNCHANGED <<esi, rafaga, listas, NEXT_RUNNING_ESI>>
    BY DEF BlockCmd
  <2>2. CASE BlockEsi(e)
    BY <1>1, <1>2, <2>2, BlockTInv DEF BlockCmd
  <2>3. CASE UNCHANGED <<esi, rafaga, listas, NEXT_RUNNING_ESI>>
    <3>1. TypeOK'
      BY <1>1, <1>2, <2>3 DEF TInv, TypeOK, TipoTarde, BlockCmd, listas
    <3> QED
      BY <2>3, <3>1, TInvStay DEF BlockCmd, EnMarcha
  <2> QED
    BY <2>1, <2>2, <2>3
<1>3. CASE caido' = TRUE /\ UNCHANGED <<esi, rafaga, listas, NEXT_RUNNING_ESI>>
  <2>1. TypeOK'
    BY <1>1, <1>3 DEF TInv, TypeOK, TipoTarde, BlockCmd, listas
  <2> QED
    BY <1>3, <2>1, TInvStay DEF BlockCmd, EnMarcha
<1> QED
  BY <1>2, <1>3 DEF BlockCmd

\* A late sentence, whatever it does.
LEMMA PedidoTardioTInv == ASSUME TInv, TipoTarde', NEW e \in ESIs, PedidoTardio(e) PROVE TInv'
<1>1. comandos' = comandos /\ pc' = pc /\ comandos' \in 0 .. MaxComandos
  BY DEF PedidoTardio, TInv, TypeOK
<1>2. CASE BlockEsi(e) /\ UNCHANGED <<algorithm, RUNNING_ESI, cpu_time, dispatcher_manager,
                                       ejecutadas, bloqueos, caido>>
  BY <1>1, <1>2, BlockTInv DEF TInv, TypeOK
<1>3. CASE \E x \in ESIs : UnblockEsi(x)
  BY <1>1, <1>3, UnblockTInv
<1>4. CASE UNCHANGED <<algorithm, esi, listas, turno, cpu_time, dispatcher_manager, proceso, bloqueos>>
           /\ caido' \in BOOLEAN
  <2>1. TypeOK'
    BY <1>1, <1>4 DEF TInv, TypeOK, TipoTarde, listas, turno, proceso
  <2> QED
    BY <1>1, <1>4, <2>1, TInvStay DEF EnMarcha, turno
<1>5. caido \in BOOLEAN
  BY DEF TInv, TypeOK
<1> QED
  BY <1>2, <1>3, <1>4, <1>5 DEF PedidoTardio, listas, turno, proceso

LEMMA DespachaTInv == ASSUME TInv, TipoTarde', Despacha PROVE TInv'
<1>1. CASE Muere
  BY <1>1, MuereTInv
<1>2. CASE ~Muere
  <2>0. /\ TypeOK /\ esi \in [ESIs -> EsiOK] /\ cpu_time \in Nat /\ TipoListas
        /\ \A x \in ESIs : Puntero(x)
    BY TipoEsi DEF TInv, Relojes
  <2> DEFINE plan == IF RUNNING_ESI = Ninguno THEN Replan(READY_ESI_LIST)
                     ELSE [next |-> NEXT_RUNNING_ESI, listos |-> READY_ESI_LIST]
  <2>1. /\ plan.next \in ESIs /\ esi[plan.next].estado # "ausente"
        /\ esi' = [esi EXCEPT ![plan.next].estado = "CORRIENDO", ![plan.next].instruction_pointer = @ + 1]
        /\ rafaga' = [rafaga EXCEPT ![plan.next] = @ + 1]
        /\ RUNNING_ESI' = plan.next /\ NEXT_RUNNING_ESI' = plan.next
        /\ READY_ESI_LIST' = plan.listos
    BY <1>2 DEF Despacha, EnMapa
  <2>2. /\ pc' = "sentencia" /\ dispatcher_manager' = "tomado" /\ cpu_time < MaxTiempo
        /\ UNCHANGED <<algorithm, BLOCKED_ESI_LIST, cpu_time, ejecutadas, cuentas, caido>>
    BY <1>2 DEF Despacha
  <2>3. plan.listos \in Seq(ESIs)
    BY <2>0, ReplanTipo DEF TipoListas
  <2> HIDE DEF plan
  <2>4. PICK e \in ESIs : e = plan.next
    BY <2>1
  <2> DEFINE s == [esi[e] EXCEPT !.estado = "CORRIENDO", !.instruction_pointer = @ + 1]
  <2>5. /\ s \in EsiOK /\ s.instruction_pointer = esi[e].instruction_pointer + 1
        /\ s.anterior_instruction_pointer = esi[e].anterior_instruction_pointer
        /\ s.ultima_entrada_a_ready = esi[e].ultima_entrada_a_ready /\ s.estado = "CORRIENDO"
        /\ esi[e].instruction_pointer \in Nat /\ esi[e].anterior_instruction_pointer \in Nat
    <3>1. esi[e] \in EsiOK /\ esi[e].instruction_pointer + 1 \in Nat
      BY <2>0 DEF EsiOK
    <3> QED
      BY <3>1 DEF EsiOK
  <2>6. esi' = [esi EXCEPT ![e] = s]
    <3>1. esi' = [esi EXCEPT ![e].estado = "CORRIENDO", ![e].instruction_pointer = @ + 1]
      BY <2>1, <2>4
    <3>2. esi' \in [ESIs -> EsiOK]
      BY <2>0, <2>5, <3>1 DEF EsiOK
    <3> QED
      BY <2>0, <2>5, <3>1
  <2> HIDE DEF s
  <2>7. esi' \in [ESIs -> EsiOK] /\ \A x \in ESIs : esi'[x] = IF x = e THEN s ELSE esi[x]
    BY <2>0, <2>5, <2>6
  <2>8. rafaga' \in [ESIs -> Nat]
    <3>1. rafaga \in [ESIs -> Nat] /\ rafaga' = [rafaga EXCEPT ![e] = @ + 1]
      BY <2>0, <2>1, <2>4 DEF TypeOK
    <3> QED
      BY <3>1
  <2>9. TypeOK'
    BY <2>0, <2>1, <2>2, <2>3, <2>4, <2>7, <2>8 DEF TypeOK, TipoTarde, EsiOK, cuentas
  <2>10. ASSUME NEW x \in ESIs PROVE Puntero(x)'
    <3>1. Puntero(x) /\ cpu_time' = cpu_time /\ RUNNING_ESI' = e
      BY <2>0, <2>1, <2>2, <2>4
    <3>2. CASE x = e
      BY <2>5, <2>7, <3>1, <3>2 DEF Puntero
    <3>3. CASE x # e
      BY <2>7, <3>1, <3>3 DEF Puntero
    <3> QED
      BY <3>2, <3>3
  <2> QED
    BY <2>1, <2>2, <2>4, <2>5, <2>7, <2>9, <2>10 DEF TInv, Relojes
<1> QED
  BY <1>1, <1>2

LEMMA EjecutaTInv == ASSUME TInv, TipoTarde', Ejecuta PROVE TInv'
<1>1. TypeOK'
  <2>1. ejecutadas' \in [ESIs -> Nat]
    <3>1. ejecutadas \in [ESIs -> Nat] /\ ejecutadas' = [ejecutadas EXCEPT ![RUNNING_ESI] = @ + 1]
      BY DEF TInv, TypeOK, Ejecuta
    <3>2. [ejecutadas EXCEPT ![RUNNING_ESI] = @ + 1] \in [ESIs -> Nat]
      <4>1. CASE RUNNING_ESI \in ESIs
        BY <3>1, <4>1
      <4>2. CASE RUNNING_ESI \notin ESIs
        BY <3>1, <4>2
      <4> QED
        BY <4>1, <4>2
    <3> QED
      BY <3>1, <3>2
  <2> QED
    BY <2>1 DEF TInv, TypeOK, TipoTarde, Ejecuta, Responde, listas, turno, cuentas
<1> QED
  BY <1>1, TInvStay DEF Ejecuta, Responde, turno, EnMarcha

LEMMA SeBloqueaTInv == ASSUME TInv, TipoTarde', SeBloquea PROVE TInv'
<1>1. CASE Muere
  BY <1>1, MuereTInv
<1>2. CASE ~Muere
  <2>1. /\ pc = "sentencia" /\ pc' = "cerrar" /\ BlockEsi(RUNNING_ESI) /\ bloqueos < MaxBloqueos
        /\ bloqueos' = bloqueos + 1
        /\ UNCHANGED <<algorithm, RUNNING_ESI, cpu_time, dispatcher_manager, ejecutadas, comandos, caido>>
    BY <1>2 DEF SeBloquea
  <2>2. RUNNING_ESI \in ESIs
    BY <2>1 DEF TInv, Relojes
  <2>3. comandos' \in 0 .. MaxComandos /\ bloqueos' \in 0 .. MaxBloqueos
    BY <2>1, ConfiguracionAssumption DEF TInv, TypeOK
  <2> QED
    BY <2>1, <2>2, <2>3, BlockTInv
<1> QED
  BY <1>1, <1>2

LEMMA FinishTipo ==
  ASSUME TypeOK, NEW e \in ESIs, FinishEsi(e)
  PROVE  /\ esi' = [esi EXCEPT ![e].estado = "FINALIZADO"]
         /\ TipoListas'
<1>1. esi' = [esi EXCEPT ![e].estado = "FINALIZADO"]
  BY DEF FinishEsi
<1>2. TipoListas
  BY TipoEsi
<1>3. CASE esi[e].estado = "BLOQUEADO"
  BY <1>2, <1>3, RemoveFirstTipo DEF FinishEsi, TipoListas
<1>4. CASE esi[e].estado = "CORRIENDO"
  BY <1>2, <1>4, ReplanTipo DEF FinishEsi, Replanifica, TipoListas
<1>5. CASE esi[e].estado \notin {"BLOQUEADO", "CORRIENDO"}
  BY <1>2, <1>5, RemoveFirstTipo DEF FinishEsi, TipoListas
<1> QED
  BY <1>1, <1>3, <1>4, <1>5

LEMMA FinishTInv ==
  ASSUME TInv, TipoTarde', FinishEsi(RUNNING_ESI), pc # "adquirir",
         UNCHANGED <<algorithm, RUNNING_ESI, cpu_time, proceso, cuentas, caido>>,
         dispatcher_manager' \in {"libre", "tomado"},
         pc' \in {"sin_resultado", "terminado"} \/ (pc' = "fallado" /\ EnMarcha)
  PROVE  TInv'
<1>1. RUNNING_ESI \in ESIs /\ TypeOK /\ esi \in [ESIs -> EsiOK] /\ \A x \in ESIs : Puntero(x)
  BY TipoEsi DEF TInv, Relojes
<1>2. esi' = [esi EXCEPT ![RUNNING_ESI].estado = "FINALIZADO"] /\ TipoListas'
  BY <1>1, FinishTipo
<1> DEFINE s == [esi[RUNNING_ESI] EXCEPT !.estado = "FINALIZADO"]
<1>3. /\ s \in EsiOK /\ s.instruction_pointer = esi[RUNNING_ESI].instruction_pointer
      /\ s.anterior_instruction_pointer = esi[RUNNING_ESI].anterior_instruction_pointer
      /\ s.ultima_entrada_a_ready = esi[RUNNING_ESI].ultima_entrada_a_ready /\ s.estado = "FINALIZADO"
  BY <1>1 DEF EsiOK
<1>4. esi' \in [ESIs -> EsiOK] /\ \A x \in ESIs : esi'[x] = IF x = RUNNING_ESI THEN s ELSE esi[x]
  <2>1. esi' = [esi EXCEPT ![RUNNING_ESI] = s]
    BY <1>1, <1>2
  <2> HIDE DEF s
  <2> QED
    BY <1>1, <1>3, <2>1
<1> HIDE DEF s
<1>5. TypeOK'
  BY <1>1, <1>2, <1>4 DEF TypeOK, TipoTarde, EsiOK, TipoListas, proceso, cuentas
<1>6. \A x \in ESIs :
          /\ esi'[x].ultima_entrada_a_ready <= cpu_time
          /\ esi'[x].estado = "ausente" => esi[x].estado = "ausente"
          /\ esi'[x].instruction_pointer = esi[x].instruction_pointer
          /\ esi'[x].anterior_instruction_pointer = esi[x].anterior_instruction_pointer
  BY <1>1, <1>3, <1>4 DEF Puntero
<1> QED
  BY <1>1, <1>5, <1>6, RelojesStay DEF TInv, EnMarcha

LEMMA FallaTInv == ASSUME TInv, TipoTarde', Falla PROVE TInv'
<1>1. CASE ~Muere
  <2>1. /\ FinishEsi(RUNNING_ESI) /\ pc \in {"sentencia", "almacenada"} /\ pc' = "fallado"
        /\ UNCHANGED <<algorithm, RUNNING_ESI, cpu_time, dispatcher_manager, proceso, cuentas, caido>>
    BY <1>1 DEF Falla, Responde
  <2>2. dispatcher_manager' \in {"libre", "tomado"} /\ EnMarcha /\ pc # "adquirir"
    BY <2>1 DEF TInv, TypeOK, EnMarcha
  <2> QED
    BY <2>1, <2>2, FinishTInv
<1> QED
  BY <1>1, MuereTInv

LEMMA SinResultadoTInv == ASSUME TInv, TipoTarde', SinResultado PROVE TInv'
<1>1. pc # "adquirir" /\ UNCHANGED <<algorithm, RUNNING_ESI, cpu_time, proceso, cuentas>>
  BY DEF SinResultado, Interrumpe
<1>2. CASE ~FinishMata
  <2>1. FinishEsi(RUNNING_ESI) /\ pc' = "sin_resultado" /\ dispatcher_manager' = "libre" /\ UNCHANGED caido
    BY <1>2 DEF SinResultado
  <2> QED
    BY <1>1, <2>1, FinishTInv
<1>3. CASE FinishMata
  <2>1. UNCHANGED <<esi, listas, NEXT_RUNNING_ESI, dispatcher_manager, pc>> /\ caido' = TRUE
    BY <1>3 DEF SinResultado
  <2>2. TypeOK'
    BY <1>1, <2>1 DEF TInv, TypeOK, TipoTarde, listas, proceso, cuentas
  <2> QED
    BY <1>1, <2>1, <2>2, TInvStay DEF EnMarcha
<1> QED
  BY <1>2, <1>3

LEMMA TerminaTInv == ASSUME TInv, TipoTarde', Termina PROVE TInv'
<1>1. CASE ~Muere
  <2>1. /\ FinishEsi(RUNNING_ESI) /\ pc = "terminar" /\ pc' = "terminado"
        /\ UNCHANGED <<algorithm, RUNNING_ESI, cpu_time, dispatcher_manager, proceso, cuentas, caido>>
    BY <1>1 DEF Termina, Despachador
  <2>2. dispatcher_manager' \in {"libre", "tomado"}
    BY <2>1 DEF TInv, TypeOK
  <2> QED
    BY <2>1, <2>2, FinishTInv
<1> QED
  BY <1>1, MuereTInv

LEMMA SigueSinResultadoTInv == ASSUME TInv, TipoTarde', SigueSinResultado PROVE TInv'
<1>1. TypeOK'
  BY DEF TInv, TypeOK, TipoTarde, SigueSinResultado, Despachador, listas, turno, proceso, cuentas
<1> QED
  BY <1>1, TInvStay DEF SigueSinResultado, turno, EnMarcha

LEMMA TerminaTurnoTInv == ASSUME TInv, TipoTarde', TerminaTurno PROVE TInv'
<1>1. /\ pc' = "adquirir" /\ RUNNING_ESI' \in {RUNNING_ESI, Ninguno}
      /\ dispatcher_manager' \in {"libre", dispatcher_manager}
      /\ UNCHANGED <<algorithm, esi, listas, NEXT_RUNNING_ESI, cpu_time, proceso, cuentas, caido>>
  BY DEF TerminaTurno
<1>2. TypeOK'
  BY <1>1 DEF TInv, TypeOK, TipoTarde, listas, proceso, cuentas
<1> QED
  BY <1>1, <1>2 DEF TInv, Relojes, Puntero, EnMarcha

LEMMA CierraTurnoTInv == ASSUME TInv, TipoTarde', CierraTurno PROVE TInv'
<1>1. CASE Muere
  BY <1>1, MuereTInv
<1>2. CASE ~Muere
  <2> DEFINE quedan == [x \in ESIs |-> IF x \in FINISHED_ESI_LIST
                                       THEN [esi[x] EXCEPT !.estado = "borrado"] ELSE esi[x]]
             mapa == IF esi[RUNNING_ESI].estado = "BLOQUEADO"
                     THEN [quedan EXCEPT ![RUNNING_ESI].instruction_pointer = @ - 1] ELSE quedan
  <2>1. /\ pc \in {"cerrar", "fallado"} /\ esi' = mapa /\ cpu_time' = cpu_time + 1
        /\ pc' \in {"adquirir", "terminar"} /\ RUNNING_ESI' \in {RUNNING_ESI, Ninguno}
        /\ pc' = "terminar" => RUNNING_ESI' = RUNNING_ESI
        /\ dispatcher_manager' \in {"libre", dispatcher_manager}
        /\ UNCHANGED <<algorithm, listas, NEXT_RUNNING_ESI, proceso, cuentas, caido>>
    BY <1>2 DEF CierraTurno
  <2>2. /\ TypeOK /\ esi \in [ESIs -> EsiOK] /\ cpu_time \in 0 .. MaxTiempo /\ cpu_time \in Nat
        /\ RUNNING_ESI \in ESIs /\ cpu_time < MaxTiempo /\ \A x \in ESIs : Puntero(x)
        /\ esi[RUNNING_ESI].instruction_pointer > 0
        /\ esi[RUNNING_ESI].instruction_pointer >= esi[RUNNING_ESI].anterior_instruction_pointer
        /\ esi[RUNNING_ESI].estado # "ausente"
    <3>1. /\ TypeOK /\ esi \in [ESIs -> EsiOK] /\ cpu_time \in 0 .. MaxTiempo /\ cpu_time \in Nat
          /\ RUNNING_ESI \in ESIs /\ cpu_time < MaxTiempo /\ \A x \in ESIs : Puntero(x)
          /\ esi[RUNNING_ESI].estado # "ausente"
      BY <2>1, TipoEsi DEF TInv, Relojes, EnMarcha
    <3> QED
      BY <2>1, <3>1 DEF Puntero, EnMarcha
  <2>3. /\ quedan \in [ESIs -> EsiOK]
        /\ \A x \in ESIs :
             /\ quedan[x].instruction_pointer = esi[x].instruction_pointer
             /\ quedan[x].anterior_instruction_pointer = esi[x].anterior_instruction_pointer
             /\ quedan[x].ultima_entrada_a_ready = esi[x].ultima_entrada_a_ready
             /\ quedan[x].estado = "ausente" => esi[x].estado = "ausente"
    BY <2>2 DEF EsiOK
  <2> HIDE DEF quedan
  <2>4. [quedan[RUNNING_ESI] EXCEPT !.instruction_pointer = @ - 1] \in EsiOK
    BY <2>2, <2>3 DEF EsiOK
  <2>5. mapa \in [ESIs -> EsiOK]
    BY <2>2, <2>3, <2>4
  <2>6. \A x \in ESIs :
          /\ mapa[x].instruction_pointer =
               IF x = RUNNING_ESI /\ esi[x].estado = "BLOQUEADO"
               THEN esi[x].instruction_pointer - 1 ELSE esi[x].instruction_pointer
          /\ mapa[x].anterior_instruction_pointer = esi[x].anterior_instruction_pointer
          /\ mapa[x].ultima_entrada_a_ready = esi[x].ultima_entrada_a_ready
          /\ mapa[x].estado = "ausente" => esi[x].estado = "ausente"
    BY <2>3 DEF EsiOK
  <2> HIDE DEF mapa
  <2>7. cpu_time' \in 0 .. MaxTiempo
    BY <2>1, <2>2, ConfiguracionAssumption
  <2>8. TypeOK'
    BY <2>1, <2>2, <2>5, <2>7 DEF TypeOK, TipoTarde, EsiOK, listas, proceso, cuentas
  <2>9. ASSUME NEW x \in ESIs PROVE Puntero(x)'
    <3>1. Puntero(x) /\ ~EnMarcha'
      BY <2>1, <2>2 DEF EnMarcha
    <3>2. /\ esi[x].instruction_pointer \in Nat /\ esi[x].anterior_instruction_pointer \in Nat
          /\ esi[x].ultima_entrada_a_ready \in Nat
      BY <2>2 DEF EsiOK
    <3> QED
      BY <2>1, <2>2, <2>6, <3>1, <3>2 DEF Puntero
  <2>10. pc' # "adquirir" => RUNNING_ESI' \in ESIs /\ esi'[RUNNING_ESI'].estado # "ausente"
    BY <2>1, <2>2, <2>6
  <2> QED
    BY <2>1, <2>8, <2>9, <2>10 DEF TInv, Relojes, EnMarcha
<1> QED
  BY <1>1, <1>2

LEMMA InitTInv == Init => TInv
<1> SUFFICES ASSUME Init PROVE TInv
  OBVIOUS
<1>1. EsiNuevo \in EsiOK
  <2>1. initial_estimation * ESCALA \in Nat /\ 0 \in 0 .. MaxTiempo
    BY ConfiguracionAssumption
  <2> QED
    BY <2>1 DEF EsiNuevo, EsiOK
<1>2. TypeOK
  <2>1. /\ esi \in [ESIs -> EsiOK] /\ rafaga \in [ESIs -> Nat] /\ ejecutadas \in [ESIs -> Nat]
    BY <1>1 DEF Init
  <2>2. cpu_time \in 0 .. MaxTiempo /\ comandos \in 0 .. MaxComandos /\ bloqueos \in 0 .. MaxBloqueos
    BY ConfiguracionAssumption DEF Init
  <2>3. aDestiempo \in BOOLEAN
    BY Zenon DEF Init
  <2> QED
    BY <1>1, <2>1, <2>2, <2>3, EmptySeq DEF Init, TypeOK, EsiOK
<1>3. \A e \in ESIs : Puntero(e)
  BY DEF Init, EsiNuevo, Puntero, EnMarcha
<1> QED
  BY <1>2, <1>3 DEF Init, TInv, Relojes, EnMarcha

\* The notes that the actions of each kind make.
LEMMA NextKeepsTipoTarde == ASSUME TInv, [Next]_vars PROVE TipoTarde'
<1>0. TipoTarde
  BY DEF TInv, TypeOK, TipoTarde
<1>1. ASSUME UNCHANGED <<FINISHED_ESI_LIST, esperas, interrumpidos, pedidos, aDestiempo>> PROVE TipoTarde'
  BY <1>0, <1>1 DEF TipoTarde
<1>2. ASSUME NEW x \in ESIs, UnblockEsi(x) PROVE esperas' \in [ESIs -> Nat] /\ UNCHANGED FINISHED_ESI_LIST
  <2>1. esperas' = [esperas EXCEPT ![x] = @ - 1] /\ esperas[x] > 0 /\ UNCHANGED FINISHED_ESI_LIST
    BY <1>2 DEF UnblockEsi
  <2> QED
    BY <1>0, <2>1 DEF TipoTarde
<1>3. ASSUME NEW x, BlockEsi(x) PROVE esperas' \in [ESIs -> Nat]
  <2>1. esperas \in [ESIs -> Nat] /\ esperas' = [esperas EXCEPT ![x] = @ + 1]
    BY <1>0, <1>3 DEF TipoTarde, BlockEsi
  <2>2. CASE x \in ESIs
    BY <2>1, <2>2
  <2>3. CASE x \notin ESIs
    BY <2>1, <2>3
  <2> QED
    BY <2>2, <2>3
<1>4. ASSUME FinishEsi(RUNNING_ESI), RUNNING_ESI \in ESIs PROVE FINISHED_ESI_LIST' \in SUBSET ESIs
  BY <1>0, <1>4 DEF TipoTarde, FinishEsi
<1>5. pc # "adquirir" => RUNNING_ESI \in ESIs
  BY DEF TInv, Relojes
<1>6. ASSUME NEW e \in ESIs, NewEsi(e) \/ FreeResource(e) \/ PedidoTardio(e) \/ UnblockCmd(e) \/ BlockCmd(e)
      PROVE  TipoTarde'
  <2>1. CASE NewEsi(e)
    BY <1>1, <2>1 DEF NewEsi, Muere, tardios
  <2>2. CASE FreeResource(e)
    <3>1. UnblockEsi(e) /\ UNCHANGED <<interrumpidos, pedidos>>
      BY <2>2 DEF FreeResource
    <3>2. aDestiempo' \in BOOLEAN
      BY <1>0, <2>2, Zenon DEF FreeResource, TipoTarde
    <3> QED
      BY <1>0, <1>2, <3>1, <3>2 DEF TipoTarde
  <2>3. CASE PedidoTardio(e)
    <3>1. interrumpidos' = interrumpidos /\ pedidos' \in SUBSET ESIs /\ UNCHANGED FINISHED_ESI_LIST
      BY <1>0, <1>2, <2>3 DEF PedidoTardio, TipoTarde
    <3>2. aDestiempo' = TRUE \/ UNCHANGED aDestiempo
      BY <2>3 DEF PedidoTardio
    <3>3. esperas' \in [ESIs -> Nat]
      BY <1>0, <1>2, <1>3, <2>3 DEF PedidoTardio, TipoTarde
    <3> QED
      BY <1>0, <3>1, <3>2, <3>3 DEF TipoTarde
  <2>4. CASE UnblockCmd(e)
    BY <1>0, <1>2, <2>4 DEF UnblockCmd, tardios, TipoTarde
  <2>5. CASE BlockCmd(e)
    <3>1. UNCHANGED <<FINISHED_ESI_LIST, interrumpidos, pedidos, aDestiempo>> /\ (BlockEsi(e) \/ UNCHANGED esperas)
      BY <2>5 DEF BlockCmd, tardios
    <3> QED
      BY <1>0, <1>3, <3>1 DEF TipoTarde
  <2> QED
    BY <1>6, <2>1, <2>2, <2>3, <2>4, <2>5
<1>7. CASE SeBloquea
  <2>1. UNCHANGED <<FINISHED_ESI_LIST, interrumpidos, pedidos, aDestiempo>>
        /\ (BlockEsi(RUNNING_ESI) \/ UNCHANGED esperas)
    BY <1>7 DEF SeBloquea, Muere, tardios
  <2> QED
    BY <1>0, <1>3, <2>1 DEF TipoTarde
<1>8. CASE Falla \/ SinResultado \/ Termina
  <2>1. pc # "adquirir" /\ UNCHANGED <<esperas, aDestiempo>>
    BY <1>8 DEF Falla, SinResultado, Termina, Responde, Interrumpe, Despachador, Muere, tardios
  <2>2. FinishEsi(RUNNING_ESI) \/ UNCHANGED FINISHED_ESI_LIST
    BY <1>8 DEF Falla, SinResultado, Termina, Muere
  <2>3. /\ interrumpidos' \subseteq interrumpidos \cup {RUNNING_ESI}
        /\ pedidos' \subseteq pedidos \cup {RUNNING_ESI}
    BY <1>8 DEF Falla, SinResultado, Termina, Interrumpe, Muere, tardios
  <2> QED
    BY <1>0, <1>4, <1>5, <2>1, <2>2, <2>3 DEF TipoTarde
<1>9. CASE CierraTurno
  <2>1. /\ FINISHED_ESI_LIST' \in {FINISHED_ESI_LIST, {}}
        /\ UNCHANGED <<esperas, interrumpidos, pedidos, aDestiempo>>
    BY <1>9 DEF CierraTurno, Muere, tardios
  <2> QED
    BY <1>0, <2>1 DEF TipoTarde
<1>10. CASE Despacha \/ Ejecuta \/ SigueSinResultado \/ TerminaTurno
  BY <1>1, <1>10 DEF Despacha, Ejecuta, SigueSinResultado, TerminaTurno, Muere, tardios
<1>11. CASE UNCHANGED vars
  BY <1>1, <1>11 DEF vars, tardios
<1> QED
  BY <1>6, <1>7, <1>8, <1>9, <1>10, <1>11 DEF Next

LEMMA NextKeepsTInv == TInv /\ [Next]_vars => TInv'
<1> SUFFICES ASSUME TInv, [Next]_vars PROVE TInv'
  OBVIOUS
<1>0. TipoTarde'
  BY NextKeepsTipoTarde
<1>1. ASSUME NEW e \in ESIs,
             NewEsi(e) \/ FreeResource(e) \/ PedidoTardio(e) \/ UnblockCmd(e) \/ BlockCmd(e)
      PROVE  TInv'
  BY <1>0, <1>1, NewEsiTInv, FreeResourceTInv, PedidoTardioTInv, UnblockCmdTInv, BlockCmdTInv
<1>2. CASE UNCHANGED vars
  <2>1. TypeOK'
    BY <1>0, <1>2 DEF TInv, TypeOK, TipoTarde, vars, listas, turno, proceso, cuentas
  <2> QED
    BY <1>2, <2>1, TInvStay DEF vars, turno, EnMarcha
<1> QED
  BY <1>0, <1>1, <1>2, DespachaTInv, EjecutaTInv, SeBloqueaTInv, FallaTInv, SinResultadoTInv,
     SigueSinResultadoTInv, CierraTurnoTInv, TerminaTInv, TerminaTurnoTInv DEF Next

\* The variables keep their types, an ESI that has the turn is never more than
\* one sentence behind its last burst, and no ESI became ready later than the
\* clock says (update_instruction_pointer, block_esi, the dispatcher's loop).
THEOREM TypesOfRafagas == Spec => []TInv
BY InitTInv, NextKeepsTInv, PTL DEF Spec
-----------------------------------------------------------------------------
(* The places of the ESIs, without preemption, a console or surprises *)

SinDesalojo == algorithm # "SJF_DESALOJO" /\ SinSorpresas

Listos == {e \in ESIs : esi[e].estado \in {"NUEVO", "DESBLOQUEADO"} /\ NEXT_RUNNING_ESI # e}
Bloqueados == {e \in ESIs : esi[e].estado = "BLOQUEADO"}

Listas ==
    /\ En(READY_ESI_LIST, Listos) /\ En(BLOCKED_ESI_LIST, Bloqueados)
    /\ NEXT_RUNNING_ESI # Ninguno =>
         esi[NEXT_RUNNING_ESI].estado \in {"NUEVO", "DESBLOQUEADO", "CORRIENDO"}

\* Who runs is next too, until it blocks or ends and another is chosen.
Siguiente ==
    /\ RUNNING_ESI = Ninguno => NEXT_RUNNING_ESI = Ninguno
    /\ pc \in {"sentencia", "almacenada", "terminar"} =>
         esi[RUNNING_ESI].estado = "CORRIENDO" /\ NEXT_RUNNING_ESI = RUNNING_ESI
    /\ pc = "cerrar" =>
         \/ esi[RUNNING_ESI].estado = "BLOQUEADO"
         \/ esi[RUNNING_ESI].estado = "CORRIENDO" /\ NEXT_RUNNING_ESI = RUNNING_ESI
    /\ pc \in {"fallado", "sin_resultado", "terminado"} => esi[RUNNING_ESI].estado = "FINALIZADO"

\* A queue gives the blocked ones, each once, and then those that have ended; and
\* the list of the finished ones has those that are still to be freed.
Cola(e) ==
    /\ esi[e].estado \in {"ausente", "NUEVO", "DESBLOQUEADO", "CORRIENDO"} => esperas[e] = 0
    /\ esi[e].estado = "BLOQUEADO" => esperas[e] = 1
    /\ e \in FINISHED_ESI_LIST <=> esi[e].estado = "FINALIZADO"
Colas == \A e \in ESIs : Cola(e)

LInv == TInv /\ (SinDesalojo => Listas /\ Siguiente /\ Colas)

LEMMA ListasStay ==
  ASSUME Listas, NEXT_RUNNING_ESI \in ESIs \cup {Ninguno}, UNCHANGED <<listas, NEXT_RUNNING_ESI>>,
         \A x \in ESIs : \/ esi'[x].estado = esi[x].estado
                         \/ esi[x].estado = "FINALIZADO" /\ esi'[x].estado = "borrado"
  PROVE  Listas'
<1>1. Listos' = Listos /\ Bloqueados' = Bloqueados
  BY DEF Listos, Bloqueados
<1>2. READY_ESI_LIST' = READY_ESI_LIST /\ BLOCKED_ESI_LIST' = BLOCKED_ESI_LIST
  BY DEF listas
<1>3. NEXT_RUNNING_ESI' # Ninguno =>
         esi'[NEXT_RUNNING_ESI'].estado \in {"NUEVO", "DESBLOQUEADO", "CORRIENDO"}
  BY DEF Listas
<1>4. En(READY_ESI_LIST', Listos') /\ En(BLOCKED_ESI_LIST', Bloqueados')
  BY <1>1, <1>2 DEF Listas
<1> QED
  BY <1>3, <1>4 DEF Listas

LEMMA ColasStay ==
  ASSUME Colas, UNCHANGED <<esperas, FINISHED_ESI_LIST>>, \A x \in ESIs : esi'[x].estado = esi[x].estado
  PROVE  Colas'
BY DEF Colas, Cola

\* add_esi_by_algorithm of one that was not ready and is not next.
LEMMA AddLugar ==
  ASSUME TInv, Listas, SinDesalojo, NEW e \in ESIs, NEW s \in EsiOK, AddEsiByAlgorithm(e, s),
         s.estado \in {"NUEVO", "DESBLOQUEADO"}, esi[e].estado \in {"ausente", "BLOQUEADO"},
         \/ BLOCKED_ESI_LIST' = BLOCKED_ESI_LIST /\ esi[e].estado = "ausente"
         \/ BLOCKED_ESI_LIST' = RemoveFirst(BLOCKED_ESI_LIST, e)
  PROVE  /\ Listas' /\ UNCHANGED NEXT_RUNNING_ESI
         /\ esi'[e].estado = s.estado /\ \A x \in ESIs \ {e} : esi'[x] = esi[x]
<1>1. /\ esi' = [esi EXCEPT ![e] = Listo(s)] /\ UNCHANGED NEXT_RUNNING_ESI
      /\ READY_ESI_LIST' = Append(READY_ESI_LIST, e)
  BY DEF AddEsiByAlgorithm, SinDesalojo
<1>2. esi \in [ESIs -> EsiOK] /\ TipoListas
  BY TipoEsi DEF TInv
<1>3. Listo(s).estado = s.estado
  BY DEF Listo, EsiOK
<1>4. \A x \in ESIs : esi'[x].estado = IF x = e THEN s.estado ELSE esi[x].estado
  BY <1>1, <1>2, <1>3
<1>5. NEXT_RUNNING_ESI # e
  BY ConfiguracionAssumption DEF Listas
<1>6. Listos' = Listos \cup {e} /\ e \notin Listos
  BY <1>1, <1>4, <1>5 DEF Listos
<1>7. En(READY_ESI_LIST', Listos')
  BY <1>1, <1>6, EnAppend DEF Listas
<1>8. En(BLOCKED_ESI_LIST', Bloqueados')
  <2>1. Bloqueados' = Bloqueados \ {e}
    BY <1>4 DEF Bloqueados
  <2>2. CASE BLOCKED_ESI_LIST' = RemoveFirst(BLOCKED_ESI_LIST, e)
    BY <2>1, <2>2, EnRemove DEF Listas
  <2>3. CASE BLOCKED_ESI_LIST' = BLOCKED_ESI_LIST /\ esi[e].estado = "ausente"
    <3>1. Bloqueados' = Bloqueados
      BY <2>1, <2>3 DEF Bloqueados
    <3> QED
      BY <2>3, <3>1 DEF Listas
  <2> QED
    BY <2>2, <2>3
<1>9. NEXT_RUNNING_ESI' # Ninguno =>
         esi'[NEXT_RUNNING_ESI'].estado \in {"NUEVO", "DESBLOQUEADO", "CORRIENDO"}
  BY <1>1, <1>2, <1>4, <1>5 DEF Listas, TipoListas
<1>10. \A x \in ESIs \ {e} : esi'[x] = esi[x]
  BY <1>1, <1>2
<1> QED
  BY <1>1, <1>4, <1>7, <1>8, <1>9, <1>10 DEF Listas

\* The replan of the turn in which e, which ran, blocks or ends.
LEMMA ReplanLugar ==
  ASSUME TInv, Listas, NEW e \in ESIs, Replanifica, NEXT_RUNNING_ESI = e, esi[e].estado = "CORRIENDO",
         NEW s, s \in {"BLOQUEADO", "FINALIZADO"},
         \A x \in ESIs : esi'[x].estado = IF x = e THEN s ELSE esi[x].estado,
         BLOCKED_ESI_LIST' = IF s = "BLOQUEADO" THEN Append(BLOCKED_ESI_LIST, e) ELSE BLOCKED_ESI_LIST
  PROVE  Listas'
<1> DEFINE n == Replan(READY_ESI_LIST).next
           l == Replan(READY_ESI_LIST).listos
<1>1. NEXT_RUNNING_ESI' = n /\ READY_ESI_LIST' = l
  BY DEF Replanifica
<1>2. /\ n \in Listos \cup {Ninguno} /\ n \in ESIs \cup {Ninguno} /\ En(l, Listos \ {n})
  BY EnReplan DEF Listas
<1> HIDE DEF n, l
<1>3. Listos' = Listos \ {n}
  BY <1>1 DEF Listos
<1>4. n # Ninguno => esi'[n].estado \in {"NUEVO", "DESBLOQUEADO", "CORRIENDO"}
  BY <1>2 DEF Listos
<1>5. En(BLOCKED_ESI_LIST', Bloqueados')
  <2>1. CASE s = "BLOQUEADO"
    <3>1. Bloqueados' = Bloqueados \cup {e} /\ e \notin Bloqueados
      BY <2>1 DEF Bloqueados
    <3> QED
      BY <2>1, <3>1, EnAppend DEF Listas
  <2>2. CASE s # "BLOQUEADO"
    <3>1. Bloqueados' = Bloqueados
      BY <2>2 DEF Bloqueados
    <3> QED
      BY <2>2, <3>1 DEF Listas
  <2> QED
    BY <2>1, <2>2
<1> QED
  BY <1>1, <1>2, <1>3, <1>4, <1>5 DEF Listas

LEMMA MuereLugar == ASSUME TInv, Listas, Siguiente, Colas, Muere PROVE Listas' /\ Siguiente' /\ Colas'
<1>1. UNCHANGED <<listas, NEXT_RUNNING_ESI, RUNNING_ESI, esi, pc, esperas, FINISHED_ESI_LIST>>
  BY DEF Muere, turno
<1>2. NEXT_RUNNING_ESI \in ESIs \cup {Ninguno}
  BY DEF TInv, TypeOK
<1> QED
  BY <1>1, <1>2, ListasStay, ColasStay DEF Siguiente

LEMMA NewEsiLugar ==
  ASSUME TInv, SinDesalojo, Listas, Siguiente, Colas, NEW e \in ESIs, NewEsi(e) PROVE Listas' /\ Siguiente' /\ Colas'
<1>1. CASE Muere
  BY <1>1, MuereLugar
<1>2. CASE ~Muere
  <2>1. PICK n \in Largos : AddEsiByAlgorithm(e, [EsiNuevo EXCEPT !.estado = "NUEVO", !.largo = n])
    BY <1>2 DEF NewEsi
  <2>2. esi[e].estado = "ausente" /\ UNCHANGED <<BLOCKED_ESI_LIST, RUNNING_ESI, pc, esperas, FINISHED_ESI_LIST>>
    BY <1>2 DEF NewEsi
  <2> DEFINE s == [EsiNuevo EXCEPT !.estado = "NUEVO", !.largo = n]
  <2>3. s \in EsiOK /\ s.estado = "NUEVO"
    <3>1. initial_estimation * ESCALA \in Nat /\ 0 \in 0 .. MaxTiempo
      BY ConfiguracionAssumption
    <3> QED
      BY <3>1 DEF EsiNuevo, EsiOK
  <2>4. AddEsiByAlgorithm(e, s)
    BY <2>1
  <2> HIDE DEF s
  <2>5. /\ Listas' /\ UNCHANGED NEXT_RUNNING_ESI
        /\ esi'[e].estado = "NUEVO" /\ \A x \in ESIs \ {e} : esi'[x] = esi[x]
    BY <2>2, <2>3, <2>4, AddLugar
  <2>6. pc # "adquirir" => RUNNING_ESI \in ESIs \ {e}
    BY <2>2 DEF TInv, Relojes
  <2>7. Siguiente'
    BY <2>2, <2>5, <2>6 DEF Siguiente
  <2>8. Colas'
    BY <2>2, <2>5 DEF Colas, Cola
  <2> QED
    BY <2>5, <2>7, <2>8
<1> QED
  BY <1>1, <1>2

\* Whom a queue gives waits for it, or has been freed and takes the process down.
LEMMA FreeResourceLugar ==
  ASSUME TInv, SinDesalojo, Listas, Siguiente, Colas, NEW e \in ESIs, FreeResource(e), ~aDestiempo'
  PROVE  Listas' /\ Siguiente' /\ Colas'
<1>1. /\ UnblockEsi(e) /\ ~AddMata /\ esi[e].estado # "FINALIZADO" /\ pc # "adquirir"
      /\ pc' = pc \/ (pc = "sentencia" /\ pc' = "almacenada")
      /\ pc \in {"sentencia", "almacenada", "fallado", "sin_resultado", "terminado"}
  BY DEF FreeResource, Responde, SinDesalojo, AddMata
<1>2. /\ esperas[e] > 0 /\ esperas \in [ESIs -> Nat] /\ esperas' = [esperas EXCEPT ![e] = @ - 1]
      /\ UNCHANGED <<FINISHED_ESI_LIST, RUNNING_ESI>>
  BY <1>1 DEF UnblockEsi, TInv, TypeOK, turno
<1>3. esi[e].estado \in {"BLOQUEADO", "borrado"}
  <2>1. esi \in [ESIs -> EsiOK] /\ Cola(e)
    BY TipoEsi DEF Colas, TInv
  <2>2. esi[e].estado \in {"ausente", "NUEVO", "CORRIENDO", "BLOQUEADO", "DESBLOQUEADO", "FINALIZADO", "borrado"}
    BY <2>1 DEF EsiOK
  <2> QED
    BY <1>1, <1>2, <2>1, <2>2 DEF Cola
<1>4. CASE ~EnMapa(e)
  <2>1. esi[e].estado = "borrado" /\ UNCHANGED <<esi, listas, NEXT_RUNNING_ESI>>
    BY <1>1, <1>3, <1>4 DEF EnMapa, UnblockEsi, turno
  <2>2. Colas'
    BY <1>2, <2>1 DEF Colas, Cola
  <2>3. NEXT_RUNNING_ESI \in ESIs \cup {Ninguno}
    BY DEF TInv, TypeOK
  <2> QED
    BY <1>1, <1>2, <2>1, <2>2, <2>3, ListasStay DEF Siguiente
<1>5. CASE EnMapa(e)
  <2> DEFINE s == [esi[e] EXCEPT !.estado = "DESBLOQUEADO"]
  <2>1. s \in EsiOK /\ s.estado = "DESBLOQUEADO"
    BY TipoEsi DEF TInv, EsiOK
  <2>2. /\ esi[e].estado = "BLOQUEADO" /\ AddEsiByAlgorithm(e, s)
        /\ BLOCKED_ESI_LIST' = RemoveFirst(BLOCKED_ESI_LIST, e)
    BY <1>1, <1>3, <1>5 DEF UnblockEsi, EnMapa
  <2> HIDE DEF s
  <2>3. /\ Listas' /\ UNCHANGED NEXT_RUNNING_ESI
        /\ esi'[e].estado = "DESBLOQUEADO" /\ \A x \in ESIs \ {e} : esi'[x] = esi[x]
    BY <2>1, <2>2, AddLugar
  <2>4. RUNNING_ESI \in ESIs \ {e}
    BY <1>1, <2>2 DEF TInv, Relojes, Siguiente
  <2>5. Siguiente'
    BY <1>1, <1>2, <2>3, <2>4 DEF Siguiente
  <2>6. Colas'
    BY <1>2, <2>2, <2>3 DEF Colas, Cola
  <2> QED
    BY <2>3, <2>5, <2>6
<1> QED
  BY <1>4, <1>5

\* A late sentence that reaches nobody.
LEMMA PedidoTardioLugar ==
  ASSUME TInv, Listas, Siguiente, Colas, NEW e \in ESIs, PedidoTardio(e), ~aDestiempo'
  PROVE  Listas' /\ Siguiente' /\ Colas'
<1>1. UNCHANGED <<esi, listas, NEXT_RUNNING_ESI, RUNNING_ESI, pc, esperas, FINISHED_ESI_LIST>>
  BY DEF PedidoTardio, turno
<1>2. NEXT_RUNNING_ESI \in ESIs \cup {Ninguno}
  BY DEF TInv, TypeOK
<1> QED
  BY <1>1, <1>2, ListasStay, ColasStay DEF Siguiente

LEMMA DespachaLugar == ASSUME TInv, Listas, Siguiente, Colas, Despacha PROVE Listas' /\ Siguiente' /\ Colas'
<1>1. CASE Muere
  BY <1>1, MuereLugar
<1>2. CASE ~Muere
  <2> DEFINE plan == IF RUNNING_ESI = Ninguno THEN Replan(READY_ESI_LIST)
                     ELSE [next |-> NEXT_RUNNING_ESI, listos |-> READY_ESI_LIST]
  <2>1. /\ plan.next \in ESIs
        /\ esi' = [esi EXCEPT ![plan.next].estado = "CORRIENDO", ![plan.next].instruction_pointer = @ + 1]
        /\ RUNNING_ESI' = plan.next /\ NEXT_RUNNING_ESI' = plan.next /\ READY_ESI_LIST' = plan.listos
        /\ pc' = "sentencia" /\ BLOCKED_ESI_LIST' = BLOCKED_ESI_LIST
        /\ UNCHANGED <<esperas, FINISHED_ESI_LIST>>
    BY <1>2 DEF Despacha, EnMapa
  <2>2. PICK e \in ESIs : e = plan.next
    BY <2>1
  <2>3. \A x \in ESIs : esi'[x].estado = IF x = e THEN "CORRIENDO" ELSE esi[x].estado
    <3>1. esi \in [ESIs -> EsiOK] /\ esi[e] \in EsiOK
      BY TipoEsi DEF TInv
    <3>2. esi' = [esi EXCEPT ![e].estado = "CORRIENDO", ![e].instruction_pointer = @ + 1]
      BY <2>1, <2>2
    <3> QED
      BY <3>1, <3>2 DEF EsiOK
  <2>4. esi[e].estado \in {"NUEVO", "DESBLOQUEADO", "CORRIENDO"} /\ En(plan.listos, Listos \ {e})
    <3>1. CASE RUNNING_ESI = Ninguno
      <4>1. plan = Replan(READY_ESI_LIST)
        BY <3>1
      <4>2. e \in Listos \cup {Ninguno} /\ En(Replan(READY_ESI_LIST).listos, Listos \ {e})
        BY <2>2, <4>1, EnReplan DEF Listas
      <4> QED
        BY <4>1, <4>2, ConfiguracionAssumption DEF Listos
    <3>2. CASE RUNNING_ESI # Ninguno
      <4>1. e = NEXT_RUNNING_ESI /\ plan.listos = READY_ESI_LIST
        BY <2>2, <3>2
      <4>2. Listos \ {e} = Listos
        BY <4>1 DEF Listos
      <4> QED
        BY <4>1, <4>2, ConfiguracionAssumption DEF Listas
    <3> QED
      BY <3>1, <3>2
  <2>5. RUNNING_ESI = Ninguno \/ NEXT_RUNNING_ESI = e
    BY <2>2
  <2> HIDE DEF plan
  <2>6. Listos' = Listos \ {e}
    <3>1. NEXT_RUNNING_ESI' = e
      BY <2>1, <2>2
    <3>2. \A x \in ESIs : x # e => NEXT_RUNNING_ESI # x
      BY <2>5, ConfiguracionAssumption DEF Siguiente
    <3>3. \A x \in ESIs : x # e => esi'[x].estado = esi[x].estado
      BY <2>3
    <3>4. \A x \in Listos' : x \in Listos \ {e}
      BY <3>1, <3>2, <3>3 DEF Listos
    <3>5. \A x \in Listos \ {e} : x \in Listos'
      BY <3>1, <3>3 DEF Listos
    <3> QED
      BY <3>4, <3>5
  <2>7. Bloqueados' = Bloqueados
    BY <2>3, <2>4 DEF Bloqueados
  <2>8. Listas'
    BY <2>1, <2>2, <2>3, <2>4, <2>6, <2>7 DEF Listas
  <2>9. Siguiente'
    BY <2>1, <2>2, <2>3, ConfiguracionAssumption DEF Siguiente
  <2>10. ASSUME NEW x \in ESIs PROVE Cola(x)'
    <3>1. Cola(x) /\ UNCHANGED <<esperas, FINISHED_ESI_LIST>>
      BY <2>1 DEF Colas
    <3>2. CASE x = e
      BY <2>3, <2>4, <3>1, <3>2 DEF Cola
    <3>3. CASE x # e
      BY <2>3, <3>1, <3>3 DEF Cola
    <3> QED
      BY <3>2, <3>3
  <2> QED
    BY <2>8, <2>9, <2>10 DEF Colas
<1> QED
  BY <1>1, <1>2

LEMMA EjecutaLugar == ASSUME TInv, Listas, Siguiente, Colas, Ejecuta PROVE Listas' /\ Siguiente' /\ Colas'
<1>1. /\ pc \in {"sentencia", "almacenada"} /\ pc' = "cerrar"
      /\ UNCHANGED <<listas, NEXT_RUNNING_ESI, RUNNING_ESI, esi, esperas, FINISHED_ESI_LIST>>
  BY DEF Ejecuta, Responde, turno
<1>2. NEXT_RUNNING_ESI \in ESIs \cup {Ninguno}
  BY DEF TInv, TypeOK
<1> QED
  BY <1>1, <1>2, ListasStay, ColasStay DEF Siguiente

LEMMA SeBloqueaLugar == ASSUME TInv, Listas, Siguiente, Colas, SeBloquea PROVE Listas' /\ Siguiente' /\ Colas'
<1>1. CASE Muere
  BY <1>1, MuereLugar
<1>2. CASE ~Muere
  <2>1. pc = "sentencia" /\ pc' = "cerrar" /\ BlockEsi(RUNNING_ESI) /\ UNCHANGED <<RUNNING_ESI, FINISHED_ESI_LIST>>
    BY <1>2 DEF SeBloquea
  <2>2. /\ RUNNING_ESI \in ESIs /\ esi[RUNNING_ESI].estado = "CORRIENDO" /\ NEXT_RUNNING_ESI = RUNNING_ESI
        /\ esi \in [ESIs -> EsiOK]
    BY <2>1, TipoEsi DEF TInv, Relojes, Siguiente
  <2>3. /\ esi' = [esi EXCEPT ![RUNNING_ESI] = Bloqueado(@)] /\ Replanifica
        /\ BLOCKED_ESI_LIST' = Append(BLOCKED_ESI_LIST, RUNNING_ESI)
        /\ esperas' = [esperas EXCEPT ![RUNNING_ESI] = @ + 1] /\ esperas \in [ESIs -> Nat]
    BY <2>1 DEF BlockEsi, TInv, TypeOK
  <2>4. Bloqueado(esi[RUNNING_ESI]).estado = "BLOQUEADO"
    BY <2>2 DEF Bloqueado, EsiOK
  <2>5. \A x \in ESIs : esi'[x].estado = IF x = RUNNING_ESI THEN "BLOQUEADO" ELSE esi[x].estado
    BY <2>2, <2>3, <2>4
  <2>6. PICK s : s = "BLOQUEADO"
    OBVIOUS
  <2>7. Listas'
    BY <2>2, <2>3, <2>5, <2>6, ReplanLugar
  <2>8. Siguiente'
    BY <2>1, <2>2, <2>5, ConfiguracionAssumption DEF Siguiente
  <2>9. Colas'
    BY <2>1, <2>2, <2>3, <2>5 DEF Colas, Cola
  <2> QED
    BY <2>7, <2>8, <2>9
<1> QED
  BY <1>1, <1>2

\* The running ESI ends where it runs, or where it has blocked.
LEMMA FinishLugar ==
  ASSUME TInv, Listas, Siguiente, Colas, FinishEsi(RUNNING_ESI), UNCHANGED <<RUNNING_ESI, esperas>>,
         pc \in {"sentencia", "almacenada", "cerrar", "terminar"},
         pc' \in {"fallado", "sin_resultado", "terminado"}
  PROVE  Listas' /\ Siguiente' /\ Colas'
<1>1. /\ RUNNING_ESI \in ESIs /\ esi \in [ESIs -> EsiOK]
      /\ \/ esi[RUNNING_ESI].estado = "BLOQUEADO"
         \/ esi[RUNNING_ESI].estado = "CORRIENDO" /\ NEXT_RUNNING_ESI = RUNNING_ESI
  BY TipoEsi DEF TInv, Relojes, Siguiente
<1>2. /\ esi' = [esi EXCEPT ![RUNNING_ESI].estado = "FINALIZADO"]
      /\ FINISHED_ESI_LIST' = FINISHED_ESI_LIST \cup {RUNNING_ESI}
  BY DEF FinishEsi
<1>3. \A x \in ESIs : esi'[x].estado = IF x = RUNNING_ESI THEN "FINALIZADO" ELSE esi[x].estado
  BY <1>1, <1>2 DEF EsiOK
<1>4. CASE esi[RUNNING_ESI].estado = "CORRIENDO" /\ NEXT_RUNNING_ESI = RUNNING_ESI
  <2>1. Replanifica /\ BLOCKED_ESI_LIST' = BLOCKED_ESI_LIST
    BY <1>4 DEF FinishEsi
  <2>2. PICK s : s = "FINALIZADO"
    OBVIOUS
  <2>3. Listas'
    BY <1>1, <1>3, <1>4, <2>1, <2>2, ReplanLugar
  <2> QED
    BY <1>1, <1>2, <1>3, <2>3, ConfiguracionAssumption DEF Siguiente, Colas, Cola
<1>5. CASE esi[RUNNING_ESI].estado = "BLOQUEADO"
  <2>1. /\ BLOCKED_ESI_LIST' = RemoveFirst(BLOCKED_ESI_LIST, RUNNING_ESI)
        /\ UNCHANGED <<READY_ESI_LIST, NEXT_RUNNING_ESI>>
    BY <1>5 DEF FinishEsi
  <2>2. Bloqueados' = Bloqueados \ {RUNNING_ESI} /\ Listos' = Listos
    BY <1>3, <1>5, <2>1 DEF Bloqueados, Listos
  <2>3. En(BLOCKED_ESI_LIST', Bloqueados')
    BY <2>1, <2>2, EnRemove DEF Listas
  <2>4. NEXT_RUNNING_ESI \in ESIs \cup {Ninguno}
    BY DEF TInv, TypeOK
  <2>5. Listas'
    BY <1>3, <1>5, <2>1, <2>2, <2>3, <2>4 DEF Listas
  <2> QED
    BY <1>1, <1>2, <1>3, <2>5, ConfiguracionAssumption DEF Siguiente, Colas, Cola
<1> QED
  BY <1>1, <1>4, <1>5

LEMMA FallaLugar == ASSUME TInv, Listas, Siguiente, Colas, Falla PROVE Listas' /\ Siguiente' /\ Colas'
BY MuereLugar, FinishLugar DEF Falla, Responde

LEMMA SinResultadoLugar == ASSUME TInv, Listas, Siguiente, Colas, SinResultado PROVE Listas' /\ Siguiente' /\ Colas'
<1>1. UNCHANGED <<RUNNING_ESI, esperas>> /\ pc \in {"sentencia", "almacenada", "cerrar"}
  BY DEF SinResultado, Interrumpe
<1>2. CASE ~FinishMata
  BY <1>1, <1>2, FinishLugar DEF SinResultado
<1>3. CASE FinishMata
  <2>1. UNCHANGED <<esi, listas, NEXT_RUNNING_ESI, pc, FINISHED_ESI_LIST>>
    BY <1>3 DEF SinResultado
  <2>2. NEXT_RUNNING_ESI \in ESIs \cup {Ninguno}
    BY DEF TInv, TypeOK
  <2> QED
    BY <1>1, <2>1, <2>2, ListasStay, ColasStay DEF Siguiente
<1> QED
  BY <1>2, <1>3

LEMMA TerminaLugar == ASSUME TInv, Listas, Siguiente, Colas, Termina PROVE Listas' /\ Siguiente' /\ Colas'
BY MuereLugar, FinishLugar DEF Termina, Despachador

LEMMA SigueSinResultadoLugar == ASSUME TInv, Listas, Siguiente, Colas, SigueSinResultado PROVE Listas' /\ Siguiente' /\ Colas'
<1>1. pc' = "adquirir" /\ UNCHANGED <<listas, NEXT_RUNNING_ESI, RUNNING_ESI, esi, esperas, FINISHED_ESI_LIST>>
  BY DEF SigueSinResultado, turno
<1>2. NEXT_RUNNING_ESI \in ESIs \cup {Ninguno}
  BY DEF TInv, TypeOK
<1> QED
  BY <1>1, <1>2, ListasStay, ColasStay DEF Siguiente

LEMMA TerminaTurnoLugar == ASSUME TInv, Listas, Siguiente, Colas, TerminaTurno PROVE Listas' /\ Siguiente' /\ Colas'
<1>1. /\ pc' = "adquirir" /\ UNCHANGED <<listas, NEXT_RUNNING_ESI, esi, esperas, FINISHED_ESI_LIST>>
      /\ IF NEXT_RUNNING_ESI = Ninguno THEN RUNNING_ESI' = Ninguno ELSE UNCHANGED RUNNING_ESI
  BY DEF TerminaTurno
<1>2. NEXT_RUNNING_ESI \in ESIs \cup {Ninguno}
  BY DEF TInv, TypeOK
<1> QED
  BY <1>1, <1>2, ListasStay, ColasStay DEF Siguiente

LEMMA CierraTurnoLugar == ASSUME TInv, Listas, Siguiente, Colas, CierraTurno PROVE Listas' /\ Siguiente' /\ Colas'
<1>1. CASE Muere
  BY <1>1, MuereLugar
<1>2. CASE ~Muere
  <2> DEFINE quedan == [x \in ESIs |-> IF x \in FINISHED_ESI_LIST
                                       THEN [esi[x] EXCEPT !.estado = "borrado"] ELSE esi[x]]
             mapa == IF esi[RUNNING_ESI].estado = "BLOQUEADO"
                     THEN [quedan EXCEPT ![RUNNING_ESI].instruction_pointer = @ - 1] ELSE quedan
  <2>1. /\ pc \in {"cerrar", "fallado"} /\ esi' = mapa /\ UNCHANGED <<listas, NEXT_RUNNING_ESI, esperas>>
        /\ FINISHED_ESI_LIST' = {}
        /\ \/ NEXT_RUNNING_ESI = Ninguno /\ RUNNING_ESI' = Ninguno /\ pc' = "adquirir"
           \/ /\ NEXT_RUNNING_ESI # Ninguno /\ RUNNING_ESI \notin FINISHED_ESI_LIST
              /\ esi[RUNNING_ESI].estado # "BLOQUEADO" \/ NEXT_RUNNING_ESI = RUNNING_ESI
              /\ pc' = "terminar" /\ UNCHANGED RUNNING_ESI
           \/ NEXT_RUNNING_ESI # Ninguno /\ pc' = "adquirir" /\ UNCHANGED RUNNING_ESI
    BY <1>2 DEF CierraTurno
  <2>2. esi \in [ESIs -> EsiOK] /\ RUNNING_ESI \in ESIs /\ TipoListas
    BY <2>1, TipoEsi DEF TInv, Relojes
  <2>3. quedan \in [ESIs -> EsiOK] /\
        \A x \in ESIs : quedan[x].estado = IF esi[x].estado = "FINALIZADO" THEN "borrado" ELSE esi[x].estado
    BY <2>2 DEF EsiOK, Colas, Cola
  <2> HIDE DEF quedan
  <2>4. \A x \in ESIs : mapa[x].estado = IF esi[x].estado = "FINALIZADO" THEN "borrado" ELSE esi[x].estado
    BY <2>2, <2>3 DEF EsiOK
  <2> HIDE DEF mapa
  <2>5. Listas'
    BY <2>1, <2>2, <2>4, ListasStay DEF TipoListas
  <2>6. Siguiente'
    BY <2>1, <2>2, <2>4 DEF Siguiente, Listas, Colas, Cola
  <2>7. Colas'
    BY <2>1, <2>4 DEF Colas, Cola
  <2> QED
    BY <2>5, <2>6, <2>7
<1> QED
  BY <1>1, <1>2

LEMMA InitLInv == Init => LInv
<1> SUFFICES ASSUME Init PROVE LInv
  OBVIOUS
<1>1. TInv
  BY InitTInv
<1>2. Listos = {} /\ Bloqueados = {}
  BY DEF Init, Listos, Bloqueados, EsiNuevo
<1>3. Listas
  BY <1>2, EnVacia DEF Init, Listas
<1>4. Colas
  BY DEF Init, Colas, Cola, EsiNuevo
<1> QED
  BY <1>1, <1>3, <1>4 DEF Init, LInv, Siguiente

\* What has once surprised the dispatcher is noted for ever.
LEMMA SinDesalojoAntes ==
  ASSUME TInv, [Next]_vars, SinDesalojo'
  PROVE  SinDesalojo /\ comandos' = comandos
<1>1. algorithm' = algorithm /\ (comandos' = comandos \/ comandos' = comandos + 1)
  BY DEF Next, vars, cuentas, proceso, NewEsi, FreeResource, PedidoTardio, UnblockCmd, BlockCmd, Comando,
     UnblockEsi, Muere, Despacha, Ejecuta, Responde, SeBloquea, Falla, SinResultado, SigueSinResultado,
     CierraTurno, Termina, TerminaTurno
<1>2. comandos' = comandos
  BY <1>1 DEF TInv, TypeOK, SinDesalojo, SinSorpresas
<1>3. aDestiempo => aDestiempo'
  BY Zenon DEF Next, vars, tardios, NewEsi, FreeResource, PedidoTardio, UnblockCmd, BlockCmd,
     Muere, Despacha, Ejecuta, SeBloquea, Falla, SinResultado, SigueSinResultado,
     CierraTurno, Termina, TerminaTurno
<1> QED
  BY <1>1, <1>2, <1>3 DEF SinDesalojo, SinSorpresas

LEMMA NextKeepsLInv == LInv /\ [Next]_vars => LInv'
<1> SUFFICES ASSUME LInv, [Next]_vars PROVE LInv'
  OBVIOUS
<1>1. TInv'
  BY NextKeepsTInv DEF LInv
<1>2. ASSUME SinDesalojo' PROVE Listas' /\ Siguiente' /\ Colas'
  <2>1. SinDesalojo /\ comandos' = comandos /\ ~aDestiempo'
    BY <1>2, SinDesalojoAntes DEF LInv, SinDesalojo, SinSorpresas
  <2>2. Listas /\ Siguiente /\ Colas /\ TInv
    BY <2>1 DEF LInv
  <2>3. \A e \in ESIs : ~UnblockCmd(e) /\ ~BlockCmd(e)
    BY <2>1, <2>2 DEF UnblockCmd, BlockCmd, Comando, TInv, TypeOK
  <2>4. ASSUME NEW e \in ESIs, NewEsi(e) \/ FreeResource(e) \/ PedidoTardio(e)
        PROVE  Listas' /\ Siguiente' /\ Colas'
    BY <2>1, <2>2, <2>4, NewEsiLugar, FreeResourceLugar, PedidoTardioLugar
  <2>5. CASE UNCHANGED vars
    <3>1. UNCHANGED <<listas, NEXT_RUNNING_ESI, RUNNING_ESI, esi, pc, esperas, FINISHED_ESI_LIST>>
      BY <2>5 DEF vars, turno
    <3>2. NEXT_RUNNING_ESI \in ESIs \cup {Ninguno}
      BY <2>2 DEF TInv, TypeOK
    <3> QED
      BY <2>2, <3>1, <3>2, ListasStay, ColasStay DEF Siguiente
  <2> QED
    BY <2>2, <2>3, <2>4, <2>5, DespachaLugar, EjecutaLugar, SeBloqueaLugar, FallaLugar, SinResultadoLugar,
       SigueSinResultadoLugar, CierraTurnoLugar, TerminaLugar, TerminaTurnoLugar DEF Next
<1> QED
  BY <1>1, <1>2 DEF LInv

\* Without preemption or a console, and until a sentence or a resource reaches one
\* that has ended, each ESI of the map is where its state says, once, for any
\* number of ESIs, scripts, blocks, turns and interruptions; and the pointers and
\* the clock keep their types under every algorithm and command and in every
\* case (add_esi_by_algorithm, block_esi, unblock_esi, finish_esi, the replans).
THEOREM EverybodyInPlace == Spec => []CadaUnoEnSuLugar
<1>1. ASSUME LInv PROVE CadaUnoEnSuLugar
  <2>1. ASSUME SinDesalojo, NEW e \in ESIs
        PROVE  /\ Veces(e, READY_ESI_LIST) =
                    IF esi[e].estado \in {"NUEVO", "DESBLOQUEADO"} /\ NEXT_RUNNING_ESI # e THEN 1 ELSE 0
               /\ Veces(e, BLOCKED_ESI_LIST) = IF esi[e].estado = "BLOQUEADO" THEN 1 ELSE 0
               /\ NEXT_RUNNING_ESI = e => esi[e].estado \in {"NUEVO", "DESBLOQUEADO", "CORRIENDO"}
    <3>1. En(READY_ESI_LIST, Listos) /\ En(BLOCKED_ESI_LIST, Bloqueados)
      BY <1>1, <2>1 DEF LInv, Listas
    <3>2. /\ Veces(e, READY_ESI_LIST) = IF e \in Listos THEN 1 ELSE 0
          /\ Veces(e, BLOCKED_ESI_LIST) = IF e \in Bloqueados THEN 1 ELSE 0
      BY <3>1, EnVeces
    <3>3. NEXT_RUNNING_ESI = e => esi[e].estado \in {"NUEVO", "DESBLOQUEADO", "CORRIENDO"}
      BY <1>1, <2>1, ConfiguracionAssumption DEF LInv, Listas
    <3> QED
      BY <3>2, <3>3 DEF Listos, Bloqueados
  <2> QED
    BY <1>1, <2>1 DEF CadaUnoEnSuLugar, LInv, TInv, SinDesalojo
<1> QED
  BY <1>1, InitLInv, NextKeepsLInv, PTL DEF Spec
-----------------------------------------------------------------------------
(* Who is chosen *)

\* Those that e may keep waiting, as PuedeEsperar says.
Mejor(e, lista) == e # Ninguno => \A i \in DOMAIN lista : PuedeEsperar(e, lista[i])

PorEstimacion(mapa) == {p \in ESIs \X ESIs : Estimacion(mapa, p[1]) <= Estimacion(mapa, p[2])}
PorEspera == {p \in ESIs \X ESIs : HigherResponseRatio(p[1], p[2])}

\* The comparators are total orders up to ties.
LEMMA OrdenRafaga ==
  ASSUME NEW mapa \in [ESIs -> EsiOK], NEW lista \in Seq(ESIs)
  PROVE  Ordena(PorRafaga(mapa, lista), PorEstimacion(mapa), ToSet(lista))
<1>1. \A a \in ESIs : Estimacion(mapa, a) \in Int
  <2>1. \A a \in ESIs : mapa[a].estimacion_ultima_rafaga \in Nat
    BY DEF EsiOK
  <2>2. ESCALA \in Nat \ {0}
    BY ConfiguracionAssumption
  <2> QED
    BY <2>1, <2>2 DEF Estimacion
<1>2. ToSet(lista) \subseteq ESIs /\ \A a, b \in ToSet(lista) : <<a, b>> \in Pares(lista)
  BY DEF ToSet, Pares
<1>3. \A a, b \in ToSet(lista) :
        <<a, b>> \in PorRafaga(mapa, lista) <=> ShortestJob(mapa, a, b)
  BY <1>2 DEF PorRafaga
<1>4. \A a, b \in ToSet(lista) :
        <<a, b>> \in PorEstimacion(mapa) <=> Estimacion(mapa, a) <= Estimacion(mapa, b)
  BY <1>2 DEF PorEstimacion
<1>5. ASSUME NEW a \in ToSet(lista), NEW b \in ToSet(lista)
      PROVE  /\ ShortestJob(mapa, a, b) => Estimacion(mapa, a) <= Estimacion(mapa, b)
             /\ ~ShortestJob(mapa, a, b) => Estimacion(mapa, b) <= Estimacion(mapa, a)
             /\ \A c \in ToSet(lista) :
                  Estimacion(mapa, a) <= Estimacion(mapa, b) /\ Estimacion(mapa, b) <= Estimacion(mapa, c)
                    => Estimacion(mapa, a) <= Estimacion(mapa, c)
  BY <1>1, <1>2 DEF ShortestJob
<1> QED
  BY <1>3, <1>4, <1>5 DEF Ordena

LEMMA RespuestaTrans ==
  ASSUME NEW wa \in Nat, NEW wb \in Nat \ {0}, NEW wc \in Nat, NEW sa \in Nat, NEW sb \in Nat,
         NEW sc \in Nat, wb * sa <= wa * sb, wc * sb <= wb * sc
  PROVE  wc * sa <= wa * sc
<1>1. wc * (wb * sa) <= wc * (wa * sb)
  <2>1. \A k, x, y \in Nat : x <= y => k * x <= k * y
    OBVIOUS
  <2>2. wb * sa \in Nat /\ wa * sb \in Nat
    OBVIOUS
  <2> QED
    BY <2>1, <2>2
<1>2. wa * (wc * sb) <= wa * (wb * sc)
  <2>1. \A k, x, y \in Nat : x <= y => k * x <= k * y
    OBVIOUS
  <2>2. wc * sb \in Nat /\ wb * sc \in Nat
    OBVIOUS
  <2> QED
    BY <2>1, <2>2
<1>3. /\ wc * (wb * sa) = wb * (wc * sa) /\ wc * (wa * sb) = wa * (wc * sb)
      /\ wa * (wb * sc) = wb * (wa * sc)
  OBVIOUS
<1>4. wb * (wc * sa) <= wb * (wa * sc)
  <2>1. wc * (wa * sb) \in Nat /\ wb * (wc * sa) \in Nat /\ wb * (wa * sc) \in Nat
    OBVIOUS
  <2> QED
    BY <1>1, <1>2, <1>3, <2>1
<1> DEFINE x == wc * sa
           y == wa * sc
<1>5. x \in Nat /\ y \in Nat /\ wb * x <= wb * y
  BY <1>4
<1> HIDE DEF x, y
<1>6. x <= y
  BY <1>5
<1> QED
  BY <1>6 DEF x, y

LEMMA OrdenRespuesta ==
  ASSUME TInv, NEW lista \in Seq(ESIs)
  PROVE  Ordena(PorRespuesta(lista), PorEspera, ToSet(lista))
<1>1. \A a \in ESIs : TiempoEsperando(a) \in Nat \ {0} /\ esi[a].estimacion_ultima_rafaga \in Nat
  <2>1. esi \in [ESIs -> EsiOK] /\ cpu_time \in Nat
    BY TipoEsi DEF TInv
  <2>2. ASSUME NEW a \in ESIs
        PROVE esi[a].ultima_entrada_a_ready \in Nat /\ esi[a].ultima_entrada_a_ready <= cpu_time
    <3>1. MaxTiempo \in Nat /\ esi[a].ultima_entrada_a_ready \in 0 .. MaxTiempo
      BY <2>1, ConfiguracionAssumption DEF EsiOK
    <3> QED
      BY <3>1 DEF TInv, Relojes, Puntero
  <2>3. \A a \in ESIs : esi[a].estimacion_ultima_rafaga \in Nat
    BY <2>1 DEF EsiOK
  <2> QED
    BY <2>1, <2>2, <2>3 DEF TiempoEsperando
<1>2. ToSet(lista) \subseteq ESIs /\ \A a, b \in ToSet(lista) : <<a, b>> \in Pares(lista)
  BY DEF ToSet, Pares
<1>3. \A a, b \in ToSet(lista) : <<a, b>> \in PorRespuesta(lista) <=> HigherResponseRatio(a, b)
  BY <1>2 DEF PorRespuesta
<1>4. \A a, b \in ToSet(lista) : <<a, b>> \in PorEspera <=> HigherResponseRatio(a, b)
  BY <1>2 DEF PorEspera
<1>5. ASSUME NEW a \in ToSet(lista), NEW b \in ToSet(lista), ~HigherResponseRatio(a, b)
      PROVE  HigherResponseRatio(b, a)
  <2> DEFINE p == TiempoEsperando(b) * esi[a].estimacion_ultima_rafaga
             q == TiempoEsperando(a) * esi[b].estimacion_ultima_rafaga
  <2>1. p \in Nat /\ q \in Nat
    <3>1. \A x, y \in Nat : x * y \in Nat
      OBVIOUS
    <3> QED
      BY <1>1, <1>2, <3>1
  <2>2. ~(p <= q)
    BY <1>5 DEF HigherResponseRatio
  <2> HIDE DEF p, q
  <2>3. q <= p
    BY <2>1, <2>2
  <2> QED
    BY <2>3 DEF HigherResponseRatio, p, q
<1>6. ASSUME NEW a \in ToSet(lista), NEW b \in ToSet(lista), NEW c \in ToSet(lista),
             HigherResponseRatio(a, b), HigherResponseRatio(b, c)
      PROVE  HigherResponseRatio(a, c)
  BY <1>1, <1>2, <1>6, RespuestaTrans DEF HigherResponseRatio
<1> QED
  BY <1>3, <1>4, <1>5, <1>6 DEF Ordena

\* The first of a sorted list.
LEMMA PrimeroOrdenado ==
  ASSUME NEW lista \in Seq(ESIs), lista # << >>, NEW R, NEW LE, Ordena(R, LE, ToSet(lista)),
         NEW o, o = ListSort(lista, R)
  PROVE  /\ o \in Seq(ESIs) /\ o # << >>
         /\ \A i \in DOMAIN Tail(o) : Tail(o)[i] \in ESIs /\ <<Head(o), Tail(o)[i]>> \in LE
<1>1. PICK n \in Nat \ {0} : n = Len(lista)
  BY EmptySeq
<1> DEFINE E == ToSet(lista)
<1>2. lista \in [1 .. n -> E]
  BY <1>1 DEF ToSet
<1> HIDE DEF E
<1>3. \A j \in 1 .. n : Tope(o, j, LE)
  BY <1>2, ListSortOrdena DEF E
<1>4. o \in [1 .. n -> E]
  BY <1>2, ListSortReordena
<1>5. o \in Seq(ESIs) /\ o # << >>
  BY SortTipo
<1>6. Len(o) = n
  BY <1>4, ListaLen
<1>7. ASSUME NEW i \in DOMAIN Tail(o)
      PROVE  Tail(o)[i] \in ESIs /\ <<Head(o), Tail(o)[i]>> \in LE
  <2>1. i \in 1 .. n - 1 /\ Tail(o)[i] = o[i + 1] /\ Head(o) = o[1] /\ o[i + 1] \in ESIs
    BY <1>5, <1>6
  <2>2. i + 1 \in 1 .. n /\ 1 \in 1 .. (i + 1) - 1
    BY <1>1, <2>1
  <2>3. <<o[1], o[i + 1]>> \in LE
    BY <1>3, <2>2 DEF Tope
  <2> QED
    BY <2>1, <2>3
<1> QED
  BY <1>5, <1>7

\* ... is better than those that stay, under each algorithm.
LEMMA ReplanMejor ==
  ASSUME TInv, \A x \in ESIs : esi'[x].estimacion_ultima_rafaga = esi[x].estimacion_ultima_rafaga
  PROVE  Mejor(Replan(READY_ESI_LIST).next, Replan(READY_ESI_LIST).listos)
<1> DEFINE lista == READY_ESI_LIST
           o == EnElOrdenDelAlgoritmo(lista)
<1>1. lista \in Seq(ESIs) /\ esi \in [ESIs -> EsiOK]
  BY TipoEsi DEF TInv, TipoListas
<1>2. \A x \in ESIs : Estimacion(esi', x) = Estimacion(esi, x)
  BY DEF Estimacion
<1>3. CASE lista = << >>
  BY <1>3 DEF Replan, Mejor
<1>4. CASE lista # << >> /\ algorithm = "HRRN"
  <2>1. o = ListSort(lista, PorRespuesta(lista))
    BY <1>4 DEF EnElOrdenDelAlgoritmo
  <2>2. /\ o \in Seq(ESIs) /\ o # << >>
        /\ \A i \in DOMAIN Tail(o) : Tail(o)[i] \in ESIs /\ <<Head(o), Tail(o)[i]>> \in PorEspera
    <3>1. Ordena(PorRespuesta(lista), PorEspera, ToSet(lista))
      BY <1>1, OrdenRespuesta
    <3> HIDE DEF o, lista
    <3> QED
      BY <1>1, <1>4, <2>1, <3>1, PrimeroOrdenado
  <2> HIDE DEF o
  <2>3. \A i \in DOMAIN Tail(o) : HigherResponseRatio(Head(o), Tail(o)[i])
    BY <2>2 DEF PorEspera
  <2>4. ASSUME NEW i \in DOMAIN Tail(o) PROVE PuedeEsperar(Head(o), Tail(o)[i])
    <3> DEFINE a == Head(o)
               b == Tail(o)[i]
    <3>1. HigherResponseRatio(a, b) /\ a \in ESIs /\ b \in ESIs
      BY <2>2, <2>3
    <3> HIDE DEF a, b
    <3>2. PuedeEsperar(a, b)
      BY <1>4, <3>1 DEF PuedeEsperar, HigherResponseRatio, TiempoEsperando
    <3> QED
      BY <3>2 DEF a, b
  <2>5. Replan(lista) = [next |-> Head(o), listos |-> Tail(o)]
    BY <1>4 DEF Replan, o
  <2> QED
    BY <2>4, <2>5 DEF Mejor
<1>5. CASE lista # << >> /\ algorithm # "HRRN"
  <2>1. /\ o \in Seq(ESIs) /\ o # << >>
        /\ \A i \in DOMAIN Tail(o) : Estimacion(esi, Head(o)) <= Estimacion(esi, Tail(o)[i])
    <3>1. CASE algorithm = "SJF" /\ AllSameEstimation(lista)
      <4>1. o = lista
        BY <1>5, <3>1 DEF EnElOrdenDelAlgoritmo
      <4>2. \A i \in DOMAIN lista : esi[lista[i]].estimacion_ultima_rafaga = esi[lista[1]].estimacion_ultima_rafaga
        BY <3>1 DEF AllSameEstimation
      <4>3. \A i \in DOMAIN Tail(lista) : Tail(lista)[i] = lista[i + 1] /\ i + 1 \in DOMAIN lista
        BY <1>1, <1>5
      <4>4. Head(lista) = lista[1] /\ lista[1] \in ESIs
        BY <1>1, <1>5
      <4>5. \A i \in DOMAIN Tail(lista) : Estimacion(esi, lista[i + 1]) = Estimacion(esi, lista[1])
        BY <4>2, <4>3 DEF Estimacion
      <4>6. Estimacion(esi, lista[1]) \in Int
        <5>1. esi[lista[1]].estimacion_ultima_rafaga \in Nat /\ ESCALA \in Nat \ {0}
          BY <1>1, <4>4, ConfiguracionAssumption DEF EsiOK
        <5> QED
          BY <5>1 DEF Estimacion
      <4> HIDE DEF o, lista
      <4>7. \A x \in Int : x <= x
        OBVIOUS
      <4> QED
        BY <1>1, <1>5, <4>1, <4>3, <4>4, <4>5, <4>6, <4>7
    <3>2. CASE ~(algorithm = "SJF" /\ AllSameEstimation(lista))
      <4>1. o = ListSort(lista, PorRafaga(esi, lista))
        BY <1>5, <3>2 DEF EnElOrdenDelAlgoritmo
      <4>2. Ordena(PorRafaga(esi, lista), PorEstimacion(esi), ToSet(lista))
        BY <1>1, OrdenRafaga
      <4> HIDE DEF o, lista
      <4>3. /\ o \in Seq(ESIs) /\ o # << >>
            /\ \A i \in DOMAIN Tail(o) : <<Head(o), Tail(o)[i]>> \in PorEstimacion(esi)
        BY <1>1, <1>5, <4>1, <4>2, PrimeroOrdenado
      <4> QED
        BY <4>3 DEF PorEstimacion
    <3> QED
      BY <3>1, <3>2
  <2> HIDE DEF o
  <2>2. Head(o) \in ESIs /\ \A i \in DOMAIN Tail(o) : Tail(o)[i] \in ESIs
    BY <2>1
  <2>3. \A i \in DOMAIN Tail(o) : PuedeEsperar(Head(o), Tail(o)[i])
    BY <1>2, <1>5, <2>1, <2>2 DEF PuedeEsperar
  <2>4. Replan(lista) = [next |-> Head(o), listos |-> Tail(o)]
    BY <1>5 DEF Replan, o
  <2> QED
    BY <2>3, <2>4 DEF Mejor
<1> QED
  BY <1>3, <1>4, <1>5

LEMMA AddMejor ==
  ASSUME TInv, NEW e \in ESIs, NEW s \in EsiOK, AddEsiByAlgorithm(e, s), NEXT_RUNNING_ESI' # NEXT_RUNNING_ESI
  PROVE  Mejor(NEXT_RUNNING_ESI', READY_ESI_LIST')
<1> DEFINE l == Append(READY_ESI_LIST, e)
           mapa == [esi EXCEPT ![e] = Listo(s)]
<1>1. /\ algorithm = "SJF_DESALOJO" /\ RUNNING_ESI # Ninguno
      /\ esi' = mapa /\ ReplanForNewEsi(mapa, l)
  BY DEF AddEsiByAlgorithm
<1>2. mapa \in [ESIs -> EsiOK] /\ RUNNING_ESI \in ESIs /\ l \in Seq(ESIs) /\ l # << >>
  <2>1. esi \in [ESIs -> EsiOK] /\ READY_ESI_LIST \in Seq(ESIs) /\ Listo(s) \in EsiOK
    BY TipoEsi, ListoOK DEF TInv, TipoListas
  <2>2. l \in Seq(ESIs) /\ Len(l) = Len(READY_ESI_LIST) + 1 /\ Len(READY_ESI_LIST) \in Nat
    BY <2>1, AppendProperties
  <2>3. l # << >>
    <3> HIDE DEF l
    <3> QED
      BY <2>2
  <2> QED
    BY <1>1, <2>1, <2>2, <2>3 DEF TInv, TypeOK
<1> HIDE DEF l, mapa
<1>3. PICK o : o = ListSort(l, PorRafaga(mapa, l))
  OBVIOUS
<1>4. Ordena(PorRafaga(mapa, l), PorEstimacion(mapa), ToSet(l))
  BY <1>2, OrdenRafaga
<1>5. /\ o \in Seq(ESIs) /\ o # << >>
      /\ \A i \in DOMAIN Tail(o) : Tail(o)[i] \in ESIs /\ <<Head(o), Tail(o)[i]>> \in PorEstimacion(mapa)
  BY <1>2, <1>3, <1>4, PrimeroOrdenado
<1>6. /\ NEXT_RUNNING_ESI' = Head(o) /\ READY_ESI_LIST' = Append(Tail(o), RUNNING_ESI)
      /\ ShortestJob(mapa, Head(o), RUNNING_ESI)
  BY <1>1, <1>3 DEF ReplanForNewEsi
<1>7. Estimacion(mapa, Head(o)) <= Estimacion(mapa, RUNNING_ESI)
  <2>1. Head(o) \in ESIs
    BY <1>5
  <2>2. Estimacion(mapa, Head(o)) \in Nat /\ Estimacion(mapa, RUNNING_ESI) \in Nat
    BY <1>1, <1>2, <2>1 DEF Estimacion, EsiOK
  <2> QED
    BY <1>6, <2>2 DEF ShortestJob
<1>8. ASSUME NEW i \in DOMAIN READY_ESI_LIST'
      PROVE Estimacion(mapa, Head(o)) <= Estimacion(mapa, READY_ESI_LIST'[i])
  <2>1. Tail(o) \in Seq(ESIs)
    BY <1>5
  <2>2. (i \in DOMAIN Tail(o) /\ READY_ESI_LIST'[i] = Tail(o)[i]) \/ READY_ESI_LIST'[i] = RUNNING_ESI
    <3> DEFINE t == Tail(o)
    <3> HIDE DEF t
    <3>1. t \in Seq(ESIs) /\ READY_ESI_LIST' = Append(t, RUNNING_ESI)
      BY <1>6, <2>1 DEF t
    <3>2. (i \in DOMAIN t /\ READY_ESI_LIST'[i] = t[i]) \/ READY_ESI_LIST'[i] = RUNNING_ESI
      BY <1>2, <3>1
    <3> QED
      BY <3>2 DEF t
  <2> QED
    BY <1>5, <1>7, <2>2 DEF PorEstimacion
<1> QED
  BY <1>1, <1>6, <1>8 DEF Mejor, PuedeEsperar

\* Who is chosen is the best of those that wait, whatever the order the list
\* had: SJF and HRRN when the turn is free or who has it blocks or ends,
\* SJF_DESALOJO also when an ESI comes in (list_sort by shortest_job and by
\* higher_response_ratio, the replans, replan_for_new_esi).
THEOREM TheBestIsChosen == Spec => EligeElMejor
<1> DEFINE A == NEXT_RUNNING_ESI' \notin {NEXT_RUNNING_ESI, Ninguno} =>
                   \A i \in DOMAIN READY_ESI_LIST' :
                       PuedeEsperar(NEXT_RUNNING_ESI', READY_ESI_LIST'[i])
<1>1. ASSUME TInv, [Next]_vars PROVE [A]_vars
  <2>1. SUFFICES ASSUME NEXT_RUNNING_ESI' # NEXT_RUNNING_ESI PROVE Mejor(NEXT_RUNNING_ESI', READY_ESI_LIST')
    BY DEF Mejor
  <2>2. ASSUME Replanifica,
               \A x \in ESIs : esi'[x].estimacion_ultima_rafaga = esi[x].estimacion_ultima_rafaga
        PROVE Mejor(NEXT_RUNNING_ESI', READY_ESI_LIST')
    BY <1>1, <2>2, ReplanMejor DEF Replanifica
  <2>3. esi \in [ESIs -> EsiOK]
    BY <1>1, TipoEsi DEF TInv
  <2>4. ~UNCHANGED vars
    BY <2>1 DEF vars, turno
  <2>5. ~Muere
    BY <2>1 DEF Muere, turno
  <2>6. ASSUME NEW e \in ESIs, NewEsi(e) PROVE Mejor(NEXT_RUNNING_ESI', READY_ESI_LIST')
    <3>1. PICK n \in Largos : AddEsiByAlgorithm(e, [EsiNuevo EXCEPT !.estado = "NUEVO", !.largo = n])
      BY <2>5, <2>6 DEF NewEsi
    <3>2. [EsiNuevo EXCEPT !.estado = "NUEVO", !.largo = n] \in EsiOK
      <4>1. initial_estimation * ESCALA \in Nat /\ 0 \in 0 .. MaxTiempo
        BY ConfiguracionAssumption
      <4> QED
        BY <4>1 DEF EsiNuevo, EsiOK
    <3> QED
      BY <1>1, <2>1, <3>1, <3>2, AddMejor
  <2>7. ASSUME NEW e \in ESIs, UnblockEsi(e) PROVE Mejor(NEXT_RUNNING_ESI', READY_ESI_LIST')
    <3>1. AddEsiByAlgorithm(e, [esi[e] EXCEPT !.estado = "DESBLOQUEADO"])
      BY <2>1, <2>7 DEF UnblockEsi, turno
    <3>2. [esi[e] EXCEPT !.estado = "DESBLOQUEADO"] \in EsiOK
      BY <2>3 DEF EsiOK
    <3> QED
      BY <1>1, <2>1, <3>1, <3>2, AddMejor
  <2>8. ASSUME NEW e \in ESIs, BlockEsi(e) PROVE Mejor(NEXT_RUNNING_ESI', READY_ESI_LIST')
    <3>1. Replanifica /\ esi' = [esi EXCEPT ![e] = Bloqueado(@)]
      BY <2>1, <2>8 DEF BlockEsi
    <3>2. Bloqueado(esi[e]).estimacion_ultima_rafaga = esi[e].estimacion_ultima_rafaga
      BY <2>3 DEF Bloqueado, EsiOK
    <3>3. \A x \in ESIs : esi'[x].estimacion_ultima_rafaga = esi[x].estimacion_ultima_rafaga
      BY <2>3, <3>1, <3>2
    <3> QED
      BY <2>2, <3>1, <3>3
  <2>9. ASSUME FinishEsi(RUNNING_ESI), RUNNING_ESI \in ESIs
        PROVE Mejor(NEXT_RUNNING_ESI', READY_ESI_LIST')
    <3>1. Replanifica /\ esi' = [esi EXCEPT ![RUNNING_ESI].estado = "FINALIZADO"]
      BY <2>1, <2>9 DEF FinishEsi
    <3>2. \A x \in ESIs : esi'[x].estimacion_ultima_rafaga = esi[x].estimacion_ultima_rafaga
      BY <2>3, <3>1 DEF EsiOK
    <3> QED
      BY <2>2, <3>1, <3>2
  <2>10. pc # "adquirir" => RUNNING_ESI \in ESIs
    BY <1>1 DEF TInv, Relojes
  <2>11. CASE Despacha
    <3> DEFINE e == Replan(READY_ESI_LIST).next
    <3>1. /\ RUNNING_ESI = Ninguno /\ e \in ESIs
          /\ esi' = [esi EXCEPT ![e].estado = "CORRIENDO", ![e].instruction_pointer = @ + 1]
          /\ Replanifica
      BY <2>1, <2>5, <2>11 DEF Despacha, EnMapa, Replanifica
    <3> HIDE DEF e
    <3>2. \A x \in ESIs : esi'[x].estimacion_ultima_rafaga = esi[x].estimacion_ultima_rafaga
      BY <2>3, <3>1 DEF EsiOK
    <3> QED
      BY <2>2, <3>1, <3>2
  <2>12. CASE \E e \in ESIs : FreeResource(e) \/ UnblockCmd(e) \/ PedidoTardio(e)
    BY <2>1, <2>7, <2>8, <2>12 DEF FreeResource, UnblockCmd, PedidoTardio, turno
  <2>13. CASE \E e \in ESIs : BlockCmd(e)
    BY <2>1, <2>8, <2>13 DEF BlockCmd
  <2>14. CASE SeBloquea
    BY <2>5, <2>8, <2>10, <2>14 DEF SeBloquea, Responde
  <2>15. CASE Falla \/ SinResultado \/ Termina
    <3>1. pc # "adquirir" /\ (FinishEsi(RUNNING_ESI) \/ UNCHANGED NEXT_RUNNING_ESI)
      BY <2>5, <2>15 DEF Falla, SinResultado, Interrumpe, Termina, Responde, Despachador
    <3> QED
      BY <2>1, <2>9, <2>10, <3>1
  <2>16. ~Ejecuta /\ ~SigueSinResultado /\ ~CierraTurno /\ ~TerminaTurno
    BY <2>1, <2>5 DEF Ejecuta, SigueSinResultado, CierraTurno, TerminaTurno, turno
  <2> QED
    BY <1>1, <2>4, <2>6, <2>11, <2>12, <2>13, <2>14, <2>15, <2>16 DEF Next
<1> QED
  BY <1>1, TypesOfRafagas, PTL DEF Spec, EligeElMejor
=============================================================================
