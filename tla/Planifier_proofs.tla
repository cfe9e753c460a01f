-------------------------- MODULE Planifier_proofs ---------------------------
(***************************************************************************)
(* The scheduler of Planifier, for any ESIs, resources and scripts.  The   *)
(* types, what is said of a turn and the deadlock search hold whatever     *)
(* users do; the lists, the pointers and the waits are proved for ESIs     *)
(* that nobody interrupts and a console that nobody uses.                  *)
(***************************************************************************)
EXTENDS Planifier, TLAPS, WellFoundedInduction, SequenceTheorems, FiniteSetTheorems

D == pc["despachador"]

\* The instruction of the turn is counted until the dispatcher closes the turn.
PorCerrar == \/ D \in {"resultado", "cerrar"}
             \/ /\ D \in {"finish", "liberar", "quitar", "replanificar", "notificar"}
                /\ marco["despachador"].vuelve = "cerrar"

EnTurno ==
    /\ \A e \in ESIs :
         /\ ise[e] # "terminado" => linea[e] <= Len(guion[e])
         /\ pedido[e].op # "ninguna" => pedido[e].recurso \in Recursos
         /\ ise[e] \in {"ejecuta", "pregunta"} => resultado[e] = "nada"
         /\ ise[e] \in {"ejecuta", "pregunta"} \/ resultado[e] # "nada" =>
              RUNNING_ESI = e /\ D = "resultado"
         /\ PorCerrar /\ e = RUNNING_ESI => instruction_pointer[e] > 0

TInv == TypeOK /\ EnTurno

-----------------------------------------------------------------------------
(* Types and turns, whatever users do *)

\* The turn stays as it was when nobody asks or answers.
LEMMA EnTurnoStay ==
  ASSUME EnTurno, UNCHANGED <<clientes, RUNNING_ESI, instruction_pointer>>,
         D = "resultado" => D' = "resultado", PorCerrar' => PorCerrar
  PROVE  EnTurno'
BY DEF EnTurno, clientes

LEMMA MuereKeeps == ASSUME TInv, Muere PROVE TInv'
<1>1. TipoMapa' /\ TipoListas' /\ TipoRecursos'
  BY DEF TInv, TypeOK, TipoMapa, TipoListas, TipoRecursos, Muere, mapa, listas, turno, recursos
<1>2. TipoHilos' /\ TipoClientes' /\ comandos' \in 0 .. MaxComandos /\ caido' \in BOOLEAN
  BY DEF TInv, TypeOK, TipoHilos, TipoClientes, Muere, hilos, clientes
<1>3. EnTurno'
  BY EnTurnoStay DEF TInv, PorCerrar, D, Muere, mapa, turno, hilos
<1> QED
  BY <1>1, <1>2, <1>3 DEF TInv, TypeOK

\* Where a thread goes on, and its locals when it calls finish_esi.
LEMMA Lugar ==
  ASSUME TypeOK, NEW t \in Hilos,
         NEW l \in {"libre", "adquirir", "elegir", "resultado", "cerrar", "terminar",
                    "finish", "liberar", "quitar", "replanificar", "notificar"},
         pc' = [pc EXCEPT ![t] = l]
  PROVE  /\ pc' \in [Hilos -> {"libre", "adquirir", "elegir", "resultado", "cerrar", "terminar",
                               "finish", "liberar", "quitar", "replanificar",
                               "notificar"}]
         /\ pc'[t] = l /\ \A u \in Hilos : u # t => pc'[u] = pc[u]
BY DEF TypeOK, TipoHilos

Marco == [esi : ESIs \cup {Ninguno}, recursos : SUBSET Recursos,
          recurso : Recursos \cup {SinRecurso},
          vuelve : {"libre", "adquirir", "cerrar", "terminar"}]

LEMMA SinMarcoTipo == SinMarco \in Marco
BY DEF SinMarco, Marco

LEMMA CambiaMarco ==
  ASSUME TypeOK, NEW t \in Hilos, NEW m \in Marco, marco' = [marco EXCEPT ![t] = m]
  PROVE  /\ marco' \in [Hilos -> Marco]
         /\ marco'[t] = m /\ \A u \in Hilos : u # t => marco'[u] = marco[u]
<1>1. marco \in [Hilos -> Marco]
  BY DEF TypeOK, TipoHilos, Marco
<1> QED
  BY <1>1

LEMMA LlamaFinishKeeps ==
  ASSUME TypeOK, NEW t \in Hilos, NEW e \in ESIs \cup {Ninguno},
         NEW v \in {"libre", "adquirir", "cerrar", "terminar"}, LlamaFinish(t, e, v)
  PROVE  /\ pc' = [pc EXCEPT ![t] = "finish"] /\ marco' \in [Hilos -> Marco]
         /\ marco'[t].esi = e /\ marco'[t].vuelve = v
         /\ \A u \in Hilos : u # t => marco'[u] = marco[u]
<1> DEFINE m == [SinMarco EXCEPT !.esi = e, !.vuelve = v]
<1>1. m \in Marco /\ m.esi = e /\ m.vuelve = v
  BY SinMarcoTipo DEF SinMarco, Marco
<1>2. marco' = [marco EXCEPT ![t] = m] /\ pc' = [pc EXCEPT ![t] = "finish"]
  BY DEF LlamaFinish
<1> HIDE DEF m
<1> QED
  BY <1>1, <1>2, CambiaMarco

\* The process of an ESI gets the result of its sentence.
LEMMA RecibeResultadoKeeps ==
  ASSUME TInv, NEW e \in ESIs, NEW res \in Resultados, ise[e] \in {"ejecuta", "pregunta"},
         RecibeResultado(e, res)
  PROVE  /\ ise' \in [ESIs -> {"sin_id", "espera", "ejecuta", "pregunta", "terminado"}]
         /\ ise'[e] \in {"espera", "terminado"}
         /\ ise'[e] # "terminado" => linea'[e] <= Len(guion[e])
         /\ linea' \in [ESIs -> Nat \ {0}]
         /\ resultado' \in [ESIs -> Resultados \cup {"nada"}]
         /\ \A x \in ESIs : x # e =>
              ise'[x] = ise[x] /\ linea'[x] = linea[x] /\ resultado'[x] = resultado[x]
<1>1. /\ ise \in [ESIs -> {"sin_id", "espera", "ejecuta", "pregunta", "terminado"}]
      /\ linea \in [ESIs -> Nat \ {0}] /\ resultado \in [ESIs -> Resultados \cup {"nada"}]
      /\ guion[e] \in Guiones
  BY DEF TInv, TypeOK, TipoClientes
<1>2. Len(guion[e]) \in Nat
  BY <1>1, GuionAssumption
<1>3. linea[e] <= Len(guion[e])
  BY DEF TInv, EnTurno
<1>4. linea'[e] \in {linea[e], linea[e] + 1} /\ (linea'[e] = linea[e] + 1 => res # "KEY_BLOCKED")
  BY <1>1 DEF RecibeResultado
<1>5. /\ ise'[e] \in {"espera", "terminado"}
      /\ res # "KEY_BLOCKED" /\ linea[e] = Len(guion[e]) => ise'[e] = "terminado"
  BY <1>1 DEF RecibeResultado
<1>6. ise'[e] # "terminado" => linea'[e] <= Len(guion[e])
  BY <1>1, <1>2, <1>3, <1>4, <1>5
<1>7. /\ ise' \in [ESIs -> {"sin_id", "espera", "ejecuta", "pregunta", "terminado"}]
      /\ linea' \in [ESIs -> Nat \ {0}]
      /\ resultado' \in [ESIs -> Resultados \cup {"nada"}]
      /\ \A x \in ESIs : x # e =>
           ise'[x] = ise[x] /\ linea'[x] = linea[x] /\ resultado'[x] = resultado[x]
  BY <1>1 DEF RecibeResultado
<1> QED
  BY <1>5, <1>6, <1>7

\* The answer to a sentence.
LEMMA RespondeKeeps ==
  ASSUME TInv, NEW e \in ESIs, NEW res \in Resultados, Responde(e, res),
         UNCHANGED <<RUNNING_ESI, instruction_pointer>>,
         D' = D, marco'["despachador"] = marco["despachador"]
  PROVE  TipoClientes' /\ EnTurno'
<1> DEFINE P == [op : {"GET", "SET", "STORE", "STORE_EN_CURSO", "ninguna"},
                 recurso : Recursos \cup {SinRecurso}]
<1>1. /\ pedido \in [ESIs -> P] /\ guion \in [ESIs -> Guiones]
      /\ pedido' = [pedido EXCEPT ![e] = NoPedido] /\ guion' = guion
  BY DEF TInv, TypeOK, TipoClientes, Responde
<1>2. NoPedido \in P /\ NoPedido.op = "ninguna"
  BY DEF NoPedido
<1> HIDE DEF P
<1>3. pedido' \in [ESIs -> P] /\ \A x \in ESIs : pedido'[x] \in {pedido[x], NoPedido}
  BY <1>1, <1>2
<1>4. guion' \in [ESIs -> Guiones]
  BY <1>1
<1>5. PorCerrar' = PorCerrar
  BY DEF PorCerrar
<1>6. CASE ise[e] = "pregunta"
  <2>1. RecibeResultado(e, res) /\ ise[e] \in {"ejecuta", "pregunta"}
    BY <1>6 DEF Responde
  <2>2. RUNNING_ESI = e /\ D = "resultado"
    BY <1>6 DEF TInv, EnTurno
  <2>3. TipoClientes'
    BY <1>3, <1>4, <2>1, RecibeResultadoKeeps DEF TipoClientes, P
  <2> QED
    BY <1>1, <1>2, <1>3, <1>5, <2>1, <2>2, <2>3, RecibeResultadoKeeps DEF TInv, EnTurno
<1>7. CASE ise[e] # "pregunta"
  <2>1. UNCHANGED <<ise, linea, resultado>>
    BY <1>7 DEF Responde
  <2>2. TipoClientes'
    BY <1>3, <1>4, <2>1 DEF TInv, TypeOK, TipoClientes, P
  <2> QED
    BY <1>1, <1>2, <1>3, <1>5, <2>1, <2>2 DEF TInv, EnTurno
<1> QED
  BY <1>6, <1>7

\* A non-empty set of naturals has a least element, which Min returns: a loop
\* over a list that looks for a place stops at the first one.
LEMMA MinIsLeast ==
    ASSUME NEW S \in SUBSET Nat, S # {}
    PROVE  /\ Min(S) \in S
           /\ \A y \in S : Min(S) <= y
<1> DEFINE R == {ss \in Nat \X Nat : ss[1] < ss[2]}
<1>1. OpToRel(<, Nat) = R
  BY Zenon DEF OpToRel
<1>2. IsWellFoundedOn(R, Nat)
  BY <1>1, NatLessThanWellFounded, Zenon
<1> HIDE DEF R
<1>3. PICK x \in S : \A y \in S : ~(<<y, x>> \in R)
  BY <1>2, WFMin, Zenon
<1>4. \A y \in S : x <= y
  <2> SUFFICES ASSUME NEW y \in S PROVE x <= y
    OBVIOUS
  <2>1. ~(<<y, x>> \in R)
    BY <1>3
  <2>2. x \in Nat /\ y \in Nat
    OBVIOUS
  <2>3. y < x => <<y, x>> \in R
    BY <2>2 DEF R
  <2>. QED
    BY <2>1, <2>2, <2>3
<1>. QED
  BY <1>4 DEF Min

\* SelectInSeq finds the first place that satisfies a test, where the test is
\* membership in the set of places P.
LEMMA FirstPlace ==
    ASSUME NEW n \in Nat, NEW P \in SUBSET (1 .. n), P # {}
    PROVE  Min(P) \in P /\ Min(P) \in 1 .. n
<1>1. P \in SUBSET Nat
  OBVIOUS
<1>. QED
  BY <1>1, MinIsLeast

\* list_remove_by_condition drops one place and keeps the order of the others.
LEMMA RemoveAtProperties ==
    ASSUME NEW S, NEW s \in Seq(S), NEW i \in 1 .. Len(s)
    PROVE  /\ RemoveAt(s, i) \in Seq(S)
           /\ Len(RemoveAt(s, i)) = Len(s) - 1
           /\ \A j \in 1 .. Len(s) - 1 :
                RemoveAt(s, i)[j] = IF j < i THEN s[j] ELSE s[j + 1]
<1> DEFINE a == SubSeq(s, 1, i - 1)
           b == SubSeq(s, i + 1, Len(s))
<1>0. Len(s) \in Nat /\ \A j \in 1 .. Len(s) : s[j] \in S
  OBVIOUS
<1>1. /\ a \in Seq(S) /\ Len(a) = i - 1
      /\ \A j \in 1 .. i - 1 : a[j] = s[j]
  <2>1. \A j \in 1 .. i - 1 : s[j] \in S
    BY <1>0
  <2>. QED
    BY <1>0, <2>1, SubSeqProperties
<1>2. /\ b \in Seq(S) /\ Len(b) = Len(s) - i
      /\ \A j \in 1 .. Len(s) - i : b[j] = s[j + i]
  <2>1. \A j \in i + 1 .. Len(s) : s[j] \in S
    BY <1>0
  <2>. QED
    BY <1>0, <2>1, SubSeqProperties
<1> HIDE DEF a, b
<1>3. /\ a \o b \in Seq(S) /\ Len(a \o b) = Len(s) - 1
      /\ \A j \in 1 .. Len(s) - 1 :
           (a \o b)[j] = IF j < i THEN s[j] ELSE s[j + 1]
  <2>1. /\ a \o b \in Seq(S) /\ Len(a \o b) = Len(a) + Len(b)
        /\ \A j \in 1 .. Len(a) + Len(b) :
             (a \o b)[j] = IF j <= Len(a) THEN a[j] ELSE b[j - Len(a)]
    BY <1>1, <1>2, ConcatProperties
  <2>2. ASSUME NEW j \in 1 .. Len(s) - 1
        PROVE  (a \o b)[j] = IF j < i THEN s[j] ELSE s[j + 1]
    <3>1. CASE j < i
      BY <1>0, <1>1, <1>2, <2>1, <3>1
    <3>2. CASE j >= i
      <4>0. j \in 1 .. Len(a) + Len(b) /\ Len(a) = i - 1 /\ ~(j <= i - 1)
        BY <1>0, <1>1, <1>2, <3>2
      <4>1. (a \o b)[j] = b[j - (i - 1)]
        <5>1. (a \o b)[j] = IF j <= Len(a) THEN a[j] ELSE b[j - Len(a)]
          BY <2>1, <4>0
        <5>. QED
          BY <4>0, <5>1
      <4>2. j - (i - 1) \in 1 .. Len(s) - i
        BY <1>0, <3>2
      <4>. QED
        BY <1>0, <1>2, <3>2, <4>1, <4>2
    <3>3. j < i \/ j >= i
      BY <1>0
    <3>. QED
      BY <3>1, <3>2, <3>3, Zenon
  <2>. QED
    BY <1>0, <1>1, <1>2, <2>1, <2>2
<1>. QED
  BY <1>3 DEF a, b, RemoveAt

\* Lists of ESIs from which one is taken, or the first ones popped.
LEMMA RemoveFirstTipo ==
  ASSUME NEW lista \in Seq(ESIs), NEW e
  PROVE  RemoveFirst(lista, e) \in Seq(ESIs)
<1> DEFINE P == {i \in 1 .. Len(lista) : lista[i] = e}
<1>1. CASE P = {}
  BY <1>1 DEF RemoveFirst
<1>2. CASE P # {}
  <2>1. Min(P) \in 1 .. Len(lista)
    <3>1. Len(lista) \in Nat /\ P \in SUBSET (1 .. Len(lista))
      OBVIOUS
    <3> HIDE DEF P
    <3> QED
      BY <1>2, <3>1, FirstPlace
  <2>2. RemoveFirst(lista, e) = RemoveAt(lista, Min(P))
    BY <1>2 DEF RemoveFirst, SelectInSeq
  <2> QED
    BY <2>1, <2>2, RemoveAtProperties
<1> QED
  BY <1>1, <1>2

LEMMA DesdeElPrimeroValidoTipo ==
  ASSUME NEW cola \in Seq(ESIs)
  PROVE  DesdeElPrimeroValido(cola) \in Seq(ESIs)
<1> DEFINE P == {i \in 1 .. Len(cola) : EnMapa(cola[i])}
<1>1. CASE P = {}
  BY <1>1 DEF DesdeElPrimeroValido, SelectInSeq
<1>2. CASE P # {}
  <2>1. Min(P) \in 1 .. Len(cola)
    <3>1. Len(cola) \in Nat /\ P \in SUBSET (1 .. Len(cola))
      OBVIOUS
    <3> HIDE DEF P
    <3> QED
      BY <1>2, <3>1, FirstPlace
  <2> DEFINE p == Min(P)
  <2>2. p # 0
    BY <2>1
  <2>3. DesdeElPrimeroValido(cola) = SubSeq(cola, p, Len(cola))
    BY <1>2, <2>2, Zenon DEF DesdeElPrimeroValido, SelectInSeq
  <2> HIDE DEF p
  <2>4. \A i \in p .. Len(cola) : cola[i] \in ESIs
    BY <2>1 DEF p
  <2> QED
    BY <2>1, <2>3, <2>4, SubSeqProperties DEF p
<1> QED
  BY <1>1, <1>2

LEMMA ReplanTipo ==
  ASSUME NEW lista \in Seq(ESIs)
  PROVE  Replan(lista).next \in ESIs \cup {Ninguno} /\ Replan(lista).listos \in Seq(ESIs)
BY DEF Replan

-----------------------------------------------------------------------------
(* The dispatcher *)

LEMMA AcquireDispatcherTipos == ASSUME TInv, AcquireDispatcher PROVE TInv'
<1>1. TipoMapa' /\ TipoListas' /\ TipoRecursos'
  BY DEF TInv, TypeOK, TipoMapa, TipoListas, TipoRecursos, AcquireDispatcher, mapa, listas, turno, recursos
<1>2. pc' = [pc EXCEPT !["despachador"] = "elegir"] /\ marco' = marco
  BY DEF AcquireDispatcher, DespachadorVa
<1>3. TipoHilos'
  BY <1>2, Lugar DEF TInv, TypeOK, TipoHilos, AcquireDispatcher, Hilos
<1>4. TipoClientes' /\ comandos' \in 0 .. MaxComandos /\ caido' \in BOOLEAN
  BY DEF TInv, TypeOK, TipoClientes, AcquireDispatcher, clientes
<1>5. D = "adquirir" /\ D' = "elegir"
  BY <1>2, Lugar DEF TInv, D, Hilos, AcquireDispatcher, Despachador
<1>6. EnTurno'
  BY <1>5, EnTurnoStay DEF TInv, PorCerrar, AcquireDispatcher, mapa, turno
<1> QED
  BY <1>1, <1>3, <1>4, <1>6 DEF TInv, TypeOK

LEMMA DespachaTipos == ASSUME TInv, Despacha PROVE TInv'
<1> DEFINE plan == IF RUNNING_ESI = Ninguno THEN Replan(READY_ESI_LIST)
                   ELSE [next |-> NEXT_RUNNING_ESI, listos |-> READY_ESI_LIST]
           e == plan.next
<1>1. CASE ~EnMapa(e)
  BY <1>1, MuereKeeps DEF Despacha
<1>2. CASE EnMapa(e)
  <2>1. e \in ESIs /\ plan.listos \in Seq(ESIs)
    BY <1>2 DEF TInv, TypeOK, TipoListas, EnMapa, Replan
  <2> HIDE DEF plan
  <2>2. /\ NEXT_RUNNING_ESI' = e /\ RUNNING_ESI' = e /\ READY_ESI_LIST' = plan.listos
        /\ estado' = [estado EXCEPT ![e] = "CORRIENDO"]
        /\ instruction_pointer' = [instruction_pointer EXCEPT ![e] = @ + 1]
        /\ IseExecute(e) /\ DespachadorVa("resultado") /\ D = "elegir"
        /\ UNCHANGED <<blocking_resource, BLOCKED_ESI_LIST, FINISHED_ESI_LIST, recursos,
                       dispatcher_manager, conexion, guion, linea, pedido, resultado,
                       comandos, caido>>
    BY <1>2 DEF Despacha, Despachador, D, plan
  <2>3. TipoMapa' /\ instruction_pointer'[e] > 0
    BY <2>1, <2>2 DEF TInv, TypeOK, TipoMapa
  <2>4. TipoListas' /\ TipoRecursos'
    BY <2>1, <2>2 DEF TInv, TypeOK, TipoListas, TipoRecursos, recursos
  <2>5. TipoHilos' /\ D' = "resultado"
    BY <2>2, Lugar DEF TInv, TypeOK, TipoHilos, DespachadorVa, D, Hilos
  <2>6. /\ ise' \in [ESIs -> {"sin_id", "espera", "ejecuta", "pregunta", "terminado"}]
        /\ \A x \in ESIs : x # e => ise'[x] = ise[x]
        /\ ise[e] = "terminado" => ise'[e] = "terminado"
    BY <2>1, <2>2 DEF TInv, TypeOK, TipoClientes, IseExecute
  <2>7. TipoClientes' /\ comandos' \in 0 .. MaxComandos /\ caido' \in BOOLEAN
    BY <2>2, <2>6 DEF TInv, TypeOK, TipoClientes
  <2>8. \A x \in ESIs : ise[x] \notin {"ejecuta", "pregunta"} /\ resultado[x] = "nada"
    BY <2>2 DEF TInv, EnTurno
  <2>9. EnTurno'
    BY <2>1, <2>2, <2>3, <2>5, <2>6, <2>8 DEF TInv, EnTurno
  <2> QED
    BY <2>3, <2>4, <2>5, <2>7, <2>9 DEF TInv, TypeOK
<1> QED
  BY <1>1, <1>2

LEMMA SinResultadoTipos == ASSUME TInv, SinResultado PROVE TInv'
<1>1. TipoMapa' /\ TipoListas' /\ TipoRecursos'
  BY DEF TInv, TypeOK, TipoMapa, TipoListas, TipoRecursos, SinResultado, mapa, listas, turno, recursos
<1>2. RUNNING_ESI \in ESIs \cup {Ninguno} /\ LlamaFinish("despachador", RUNNING_ESI, "adquirir")
  BY DEF TInv, TypeOK, TipoListas, SinResultado
<1>3. /\ pc' = [pc EXCEPT !["despachador"] = "finish"] /\ marco' \in [Hilos -> Marco]
      /\ marco'["despachador"].vuelve = "adquirir"
  BY <1>2, LlamaFinishKeeps DEF TInv, Hilos
<1>4. TipoHilos' /\ D' = "finish"
  BY <1>3, Lugar DEF TInv, TypeOK, TipoHilos, SinResultado, Hilos, Marco, D
<1>5. TipoClientes' /\ comandos' \in 0 .. MaxComandos /\ caido' \in BOOLEAN
  BY DEF TInv, TypeOK, TipoClientes, SinResultado, clientes
<1>6. /\ resultado[RUNNING_ESI] = "nada" /\ ise[RUNNING_ESI] = "terminado"
      /\ UNCHANGED <<RUNNING_ESI, clientes, instruction_pointer>>
  BY DEF SinResultado, turno, mapa
<1>7. EnTurno'
  BY <1>3, <1>4, <1>6 DEF TInv, EnTurno, PorCerrar, clientes
<1> QED
  BY <1>1, <1>4, <1>5, <1>7 DEF TInv, TypeOK

LEMMA WaitExecutionResultTipos == ASSUME TInv, WaitExecutionResult PROVE TInv'
<1>1. TipoMapa' /\ TipoListas' /\ TipoRecursos'
  BY DEF TInv, TypeOK, TipoMapa, TipoListas, TipoRecursos, WaitExecutionResult, mapa, listas, turno, recursos
<1>2. LlamaFinish("despachador", RUNNING_ESI, "cerrar") \/ DespachadorVa("cerrar")
  BY DEF WaitExecutionResult
<1>3. TipoHilos' /\ D' \in {"finish", "cerrar"}
  <2>1. CASE LlamaFinish("despachador", RUNNING_ESI, "cerrar")
    <3>1. RUNNING_ESI \in ESIs \cup {Ninguno}
      BY DEF TInv, TypeOK, TipoListas
    <3>2. pc' = [pc EXCEPT !["despachador"] = "finish"] /\ marco' \in [Hilos -> Marco]
      BY <2>1, <3>1, LlamaFinishKeeps DEF TInv, Hilos
    <3> QED
      BY <3>2, Lugar DEF TInv, TypeOK, TipoHilos, WaitExecutionResult, Hilos, Marco, D
  <2>2. CASE DespachadorVa("cerrar")
    BY <2>2, Lugar DEF TInv, TypeOK, TipoHilos, DespachadorVa, WaitExecutionResult, Hilos, D
  <2> QED
    BY <1>2, <2>1, <2>2
<1>4. TipoClientes' /\ comandos' \in 0 .. MaxComandos /\ caido' \in BOOLEAN
  BY DEF TInv, TypeOK, TipoClientes, WaitExecutionResult
<1>5. /\ D = "resultado" /\ resultado[RUNNING_ESI] # "nada"
      /\ resultado' = [resultado EXCEPT ![RUNNING_ESI] = "nada"]
      /\ UNCHANGED <<RUNNING_ESI, ise, linea, guion, pedido, instruction_pointer>>
  BY DEF WaitExecutionResult, Despachador, D, turno, mapa
<1>6. resultado \in [ESIs -> Resultados \cup {"nada"}]
  BY DEF TInv, TypeOK, TipoClientes
<1>7. \A x \in ESIs : resultado'[x] = "nada" /\ ise[x] \notin {"ejecuta", "pregunta"}
  BY <1>5, <1>6 DEF TInv, EnTurno
<1>8. EnTurno'
  BY <1>5, <1>7 DEF TInv, EnTurno, PorCerrar
<1> QED
  BY <1>1, <1>3, <1>4, <1>8 DEF TInv, TypeOK

LEMMA CierraTurnoTipos == ASSUME TInv, CierraTurno PROVE TInv'
<1> DEFINE e == RUNNING_ESI
           borrado == BorradoDeFinish(estado)[e] = "borrado"
<1>1. CASE Muere
  BY <1>1, MuereKeeps
<1>2. CASE ~Muere
  <2>1. /\ D = "cerrar"
        /\ estado' = BorradoDeFinish(estado) /\ FINISHED_ESI_LIST' = << >>
        /\ instruction_pointer' = IF borrado THEN instruction_pointer ELSE PunteroAlCerrar(e)
        /\ UNCHANGED <<blocking_resource, READY_ESI_LIST, BLOCKED_ESI_LIST,
                       NEXT_RUNNING_ESI, recursos, conexion, clientes, comandos, caido>>
    BY <1>2 DEF CierraTurno, Despachador, D
  <2>2. /\ RUNNING_ESI' \in {e, Ninguno} /\ dispatcher_manager' \in {dispatcher_manager, "libre"}
        /\ DespachadorVa("adquirir") \/ LlamaFinish("despachador", e, "terminar")
    BY <1>2 DEF CierraTurno
  <2>3. TipoMapa'
    <3>1. e \in ESIs => instruction_pointer[e] > 0
      BY <2>1 DEF TInv, EnTurno, PorCerrar
    <3>2. PunteroAlCerrar(e) \in [ESIs -> Nat]
      <4>1. instruction_pointer \in [ESIs -> Nat]
        BY DEF TInv, TypeOK, TipoMapa
      <4>2. e \in ESIs => instruction_pointer[e] - 1 \in Nat
        BY <3>1, <4>1
      <4> QED
        BY <4>1, <4>2 DEF PunteroAlCerrar
    <3>3. \A x \in ESIs : BorradoDeFinish(estado)[x] \in {"borrado", estado[x]}
      BY DEF BorradoDeFinish
    <3>4. BorradoDeFinish(estado) \in [ESIs -> {"ausente", "NUEVO", "CORRIENDO", "BLOQUEADO",
                                                "DESBLOQUEADO", "FINALIZADO", "borrado"}]
      BY <3>3 DEF BorradoDeFinish, TInv, TypeOK, TipoMapa
    <3> QED
      BY <2>1, <3>2, <3>4 DEF TInv, TypeOK, TipoMapa
  <2>4. TipoListas' /\ TipoRecursos'
    BY <2>1, <2>2 DEF TInv, TypeOK, TipoListas, TipoRecursos, recursos
  <2>5. TipoHilos' /\ ~PorCerrar'
    <3>1. CASE DespachadorVa("adquirir")
      BY <2>1, <2>2, <3>1, Lugar DEF TInv, TypeOK, TipoHilos, DespachadorVa, Hilos, D, PorCerrar
    <3>2. CASE LlamaFinish("despachador", e, "terminar")
      <4>1. e \in ESIs \cup {Ninguno}
        BY DEF TInv, TypeOK, TipoListas
      <4>2. /\ pc' = [pc EXCEPT !["despachador"] = "finish"] /\ marco' \in [Hilos -> Marco]
            /\ marco'["despachador"].vuelve = "terminar"
        BY <3>2, <4>1, LlamaFinishKeeps DEF TInv, Hilos
      <4> QED
        BY <2>1, <2>2, <4>2, Lugar DEF TInv, TypeOK, TipoHilos, Hilos, Marco, D, PorCerrar
    <3> QED
      BY <2>2, <3>1, <3>2
  <2>6. TipoClientes' /\ comandos' \in 0 .. MaxComandos /\ caido' \in BOOLEAN
    BY <2>1 DEF TInv, TypeOK, TipoClientes, clientes
  <2>7. EnTurno'
    BY <2>1, <2>5 DEF TInv, EnTurno, clientes
  <2> QED
    BY <2>3, <2>4, <2>5, <2>6, <2>7 DEF TInv, TypeOK
<1> QED
  BY <1>1, <1>2

LEMMA TerminaTurnoTipos == ASSUME TInv, TerminaTurno PROVE TInv'
<1>1. TipoMapa' /\ TipoListas' /\ TipoRecursos'
  BY DEF TInv, TypeOK, TipoMapa, TipoListas, TipoRecursos, TerminaTurno, mapa, listas, recursos
<1>2. pc' = [pc EXCEPT !["despachador"] = "adquirir"] /\ marco' = marco
  BY DEF TerminaTurno, DespachadorVa
<1>3. TipoHilos' /\ D = "terminar" /\ D' = "adquirir"
  BY <1>2, Lugar DEF TInv, TypeOK, TipoHilos, TerminaTurno, Despachador, Hilos, D
<1>4. TipoClientes' /\ comandos' \in 0 .. MaxComandos /\ caido' \in BOOLEAN
  BY DEF TInv, TypeOK, TipoClientes, TerminaTurno, clientes
<1>5. EnTurno'
  BY <1>3 DEF TInv, EnTurno, PorCerrar, TerminaTurno, clientes
<1> QED
  BY <1>1, <1>3, <1>4, <1>5 DEF TInv, TypeOK

-----------------------------------------------------------------------------
(* free_resource and finish_esi, in any thread *)

LEMMA DespiertaUnoTipos ==
  ASSUME TInv, NEW r \in Recursos, DespiertaUno(r)
  PROVE  /\ TipoMapa' /\ instruction_pointer' = instruction_pointer
         /\ READY_ESI_LIST' \in Seq(ESIs) /\ BLOCKED_ESI_LIST' \in Seq(ESIs)
         /\ esis_bloqueados_por_recurso' \in [Recursos -> Seq(ESIs)]
         /\ dispatcher_manager' \in {"libre", "tomado"}
<1> DEFINE cola == DesdeElPrimeroValido(esis_bloqueados_por_recurso[r])
           q == esis_bloqueados_por_recurso
<1>1. TipoMapa /\ TipoListas /\ TipoRecursos /\ dispatcher_manager \in {"libre", "tomado"}
  BY DEF TInv, TypeOK, TipoHilos
<1>2. cola \in Seq(ESIs) /\ q \in [Recursos -> Seq(ESIs)]
  BY <1>1, DesdeElPrimeroValidoTipo DEF TipoRecursos
<1>3. CASE cola = << >>
  BY <1>1, <1>2, <1>3 DEF DespiertaUno, mapa, TipoMapa, TipoListas
<1>4. CASE cola # << >>
  <2> DEFINE e == Head(cola)
  <2>1. e \in ESIs /\ Tail(cola) \in Seq(ESIs)
    BY <1>2, <1>4
  <2>2. /\ q' = [q EXCEPT ![r] = Tail(cola)]
        /\ blocking_resource' = [blocking_resource EXCEPT ![e] = SinRecurso]
        /\ UnblockEsi(e) /\ UNCHANGED instruction_pointer
    BY <1>4 DEF DespiertaUno, CambiarRecursoQueLoBloquea
  <2> HIDE DEF cola, e
  <2>3. TipoMapa'
    BY <1>1, <2>1, <2>2 DEF TipoMapa, UnblockEsi
  <2>4. READY_ESI_LIST' \in Seq(ESIs) /\ BLOCKED_ESI_LIST' \in Seq(ESIs)
    BY <1>1, <2>1, <2>2, RemoveFirstTipo DEF TipoListas, UnblockEsi
  <2> QED
    BY <1>1, <1>2, <2>1, <2>2, <2>3, <2>4 DEF UnblockEsi, NotifyDispatcher
<1> QED
  BY <1>3, <1>4

LEMMA FreeResourceTipos == ASSUME TInv, NEW t \in Hilos, FreeResource(t) PROVE TInv'
<1>1. CASE Muere
  BY <1>1, MuereKeeps
<1>2. CASE ~Muere
  <2>1. PICK r \in marco[t].recursos :
          /\ DespiertaUno(r)
          /\ pc' = [pc EXCEPT ![t] = "quitar"]
          /\ marco' = [marco EXCEPT ![t].recursos = @ \ {r}, ![t].recurso = r]
          /\ UNCHANGED <<FINISHED_ESI_LIST, turno, recurso_tomado_por_esi,
                         conexion, clientes, comandos, caido>>
    BY <1>2 DEF FreeResource
  <2>2. marco \in [Hilos -> Marco] /\ pc[t] = "liberar" /\ r \in Recursos
    BY DEF TInv, TypeOK, TipoHilos, Marco, FreeResource
  <2>3. /\ TipoMapa' /\ instruction_pointer' = instruction_pointer
        /\ READY_ESI_LIST' \in Seq(ESIs) /\ BLOCKED_ESI_LIST' \in Seq(ESIs)
        /\ esis_bloqueados_por_recurso' \in [Recursos -> Seq(ESIs)]
        /\ dispatcher_manager' \in {"libre", "tomado"}
    BY <2>1, <2>2, DespiertaUnoTipos
  <2>4. TipoListas' /\ TipoRecursos'
    BY <2>1, <2>3 DEF TInv, TypeOK, TipoListas, TipoRecursos, turno
  <2>5. /\ marco' \in [Hilos -> Marco]
        /\ \A u \in Hilos : marco'[u].vuelve = marco[u].vuelve /\ marco'[u].esi = marco[u].esi
    BY <2>1, <2>2 DEF Marco
  <2>6. TipoHilos'
    BY <2>1, <2>3, <2>5, Lugar DEF TInv, TypeOK, TipoHilos, Marco
  <2>7. TipoClientes' /\ comandos' \in 0 .. MaxComandos /\ caido' \in BOOLEAN
    BY <2>1 DEF TInv, TypeOK, TipoClientes, clientes
  <2>8. (D = "resultado" => D' = "resultado") /\ (PorCerrar' => PorCerrar)
    BY <2>1, <2>2, <2>5, Lugar DEF TInv, D, PorCerrar, Hilos
  <2>9. EnTurno'
    BY <2>1, <2>3, <2>8, EnTurnoStay DEF TInv, turno
  <2> QED
    BY <2>3, <2>4, <2>6, <2>7, <2>9 DEF TInv, TypeOK
<1> QED
  BY <1>1, <1>2

LEMMA FreeResourceQuitaTipos == ASSUME TInv, NEW t \in Hilos, FreeResourceQuita(t) PROVE TInv'
<1>1. TipoMapa' /\ TipoListas'
  BY DEF TInv, TypeOK, TipoMapa, TipoListas, FreeResourceQuita, mapa, listas, turno
<1>2. TipoRecursos'
  BY DEF TInv, TypeOK, TipoRecursos, FreeResourceQuita
<1>3. pc' = [pc EXCEPT ![t] = "liberar"] /\ pc[t] = "quitar" /\ marco' = marco
  BY DEF FreeResourceQuita
<1>4. TipoHilos'
  BY <1>3, Lugar DEF TInv, TypeOK, TipoHilos, FreeResourceQuita
<1>5. TipoClientes' /\ comandos' \in 0 .. MaxComandos /\ caido' \in BOOLEAN
  BY DEF TInv, TypeOK, TipoClientes, FreeResourceQuita, clientes
<1>6. (D = "resultado" => D' = "resultado") /\ (PorCerrar' => PorCerrar)
  BY <1>3, Lugar DEF TInv, D, PorCerrar, Hilos
<1>7. EnTurno'
  BY <1>6, EnTurnoStay DEF TInv, FreeResourceQuita, turno, mapa
<1> QED
  BY <1>1, <1>2, <1>4, <1>5, <1>7 DEF TInv, TypeOK

LEMMA FinishEsiTipos == ASSUME TInv, NEW t \in Hilos, FinishEsi(t) PROVE TInv'
<1> DEFINE e == marco[t].esi
<1>1. CASE ~EnMapa(e)
  BY <1>1, MuereKeeps DEF FinishEsi
<1>2. CASE EnMapa(e)
  <2>1. /\ pc[t] = "finish" /\ e \in ESIs
        /\ estado' = [estado EXCEPT ![e] = "FINALIZADO"]
        /\ FINISHED_ESI_LIST' = Append(FINISHED_ESI_LIST, e)
        /\ pc' = [pc EXCEPT ![t] = "liberar"]
        /\ marco' = [marco EXCEPT ![t].recursos = GetResourcesTakenByEsi(e)]
        /\ UNCHANGED <<instruction_pointer, blocking_resource, RUNNING_ESI, recursos,
                       dispatcher_manager, conexion, clientes, comandos, caido>>
    BY <1>2 DEF FinishEsi, EnMapa
  <2>2. \/ /\ BLOCKED_ESI_LIST' = RemoveFirst(BLOCKED_ESI_LIST, e)
           /\ UNCHANGED <<READY_ESI_LIST, NEXT_RUNNING_ESI>>
        \/ ReplanificaCon(READY_ESI_LIST) /\ UNCHANGED BLOCKED_ESI_LIST
        \/ /\ READY_ESI_LIST' = RemoveFirst(READY_ESI_LIST, e)
           /\ UNCHANGED <<BLOCKED_ESI_LIST, NEXT_RUNNING_ESI>>
    BY <1>2 DEF FinishEsi
  <2> HIDE DEF e
  <2>3. TipoMapa' /\ TipoRecursos'
    BY <2>1 DEF TInv, TypeOK, TipoMapa, TipoRecursos, recursos
  <2>4. TipoListas'
    BY <2>1, <2>2, RemoveFirstTipo, ReplanTipo DEF TInv, TypeOK, TipoListas, ReplanificaCon
  <2>5. marco \in [Hilos -> Marco]
    BY DEF TInv, TypeOK, TipoHilos, Marco
  <2>6. /\ marco' \in [Hilos -> Marco]
        /\ \A u \in Hilos : marco'[u].vuelve = marco[u].vuelve
    BY <2>1, <2>5 DEF Marco, GetResourcesTakenByEsi
  <2>7. TipoHilos'
    BY <2>1, <2>6, Lugar DEF TInv, TypeOK, TipoHilos, Marco
  <2>8. TipoClientes' /\ comandos' \in 0 .. MaxComandos /\ caido' \in BOOLEAN
    BY <2>1 DEF TInv, TypeOK, TipoClientes, clientes
  <2>9. (D = "resultado" => D' = "resultado") /\ (PorCerrar' => PorCerrar)
    BY <2>1, <2>6, Lugar DEF TInv, D, PorCerrar, Hilos
  <2>10. EnTurno'
    BY <2>1, <2>9, EnTurnoStay DEF TInv
  <2> QED
    BY <2>3, <2>4, <2>7, <2>8, <2>10 DEF TInv, TypeOK
<1> QED
  BY <1>1, <1>2

LEMMA VuelveKeeps ==
  ASSUME TInv, NEW t \in Hilos, Vuelve(t)
  PROVE  /\ pc' = [pc EXCEPT ![t] = marco[t].vuelve] /\ marco' \in [Hilos -> Marco]
         /\ marco[t].vuelve \in {"libre", "adquirir", "cerrar", "terminar"}
         /\ \A u \in Hilos : u # t => marco'[u] = marco[u]
<1>1. marco[t].vuelve \in {"libre", "adquirir", "cerrar", "terminar"}
  BY DEF TInv, TypeOK, TipoHilos
<1> QED
  BY <1>1, CambiaMarco, SinMarcoTipo DEF TInv, Vuelve

LEMMA FinishEsiRetornaTipos == ASSUME TInv, NEW t \in Hilos, FinishEsiRetorna(t) PROVE TInv'
<1>1. TipoMapa' /\ TipoListas' /\ TipoRecursos'
  BY DEF TInv, TypeOK, TipoMapa, TipoListas, TipoRecursos, FinishEsiRetorna, mapa, listas, turno, recursos
<1>2. /\ pc[t] = "liberar"
      /\ \/ Vuelve(t)
         \/ pc' = [pc EXCEPT ![t] = "replanificar"] /\ marco' = marco
      /\ UNCHANGED <<dispatcher_manager, conexion, clientes, comandos, caido, RUNNING_ESI,
                     instruction_pointer>>
  BY DEF FinishEsiRetorna, turno, mapa
<1>3. CASE Vuelve(t)
  <2>1. /\ pc' = [pc EXCEPT ![t] = marco[t].vuelve] /\ marco' \in [Hilos -> Marco]
        /\ marco[t].vuelve \in {"libre", "adquirir", "cerrar", "terminar"}
        /\ \A u \in Hilos : u # t => marco'[u] = marco[u]
    BY <1>3, VuelveKeeps
  <2>2. TipoHilos'
    BY <1>2, <2>1, Lugar DEF TInv, TypeOK, TipoHilos, Marco
  <2>3. (D = "resultado" => D' = "resultado") /\ (PorCerrar' => PorCerrar)
    BY <1>2, <2>1, Lugar DEF TInv, D, PorCerrar, Hilos
  <2>4. EnTurno'
    BY <1>2, <2>3, EnTurnoStay DEF TInv
  <2> QED
    BY <1>1, <1>2, <2>2, <2>4 DEF TInv, TypeOK, TipoClientes, clientes
<1>4. CASE pc' = [pc EXCEPT ![t] = "replanificar"] /\ marco' = marco
  <2>1. TipoHilos' /\ (D = "resultado" => D' = "resultado") /\ (PorCerrar' => PorCerrar)
    BY <1>2, <1>4, Lugar DEF TInv, TypeOK, TipoHilos, D, PorCerrar, Hilos
  <2>2. EnTurno'
    BY <1>2, <2>1, EnTurnoStay DEF TInv
  <2> QED
    BY <1>1, <1>2, <2>1, <2>2 DEF TInv, TypeOK, TipoClientes, clientes
<1> QED
  BY <1>2, <1>3, <1>4

LEMMA FinishEsiReplanificaTipos ==
  ASSUME TInv, NEW t \in Hilos, FinishEsiReplanifica(t) PROVE TInv'
<1>1. TipoMapa' /\ TipoRecursos' /\ TipoClientes' /\ comandos' \in 0 .. MaxComandos /\ caido' \in BOOLEAN
  BY DEF TInv, TypeOK, TipoMapa, TipoRecursos, TipoClientes, FinishEsiReplanifica, mapa,
     recursos, clientes
<1>2. TipoListas'
  BY ReplanTipo DEF TInv, TypeOK, TipoListas, FinishEsiReplanifica, ReplanificaCon
<1>3. /\ pc[t] = "replanificar" /\ pc' = [pc EXCEPT ![t] = "notificar"] /\ marco' = marco
      /\ UNCHANGED <<dispatcher_manager, conexion, clientes, RUNNING_ESI, instruction_pointer>>
  BY DEF FinishEsiReplanifica, mapa
<1>4. TipoHilos' /\ (D = "resultado" => D' = "resultado") /\ (PorCerrar' => PorCerrar)
  BY <1>3, Lugar DEF TInv, TypeOK, TipoHilos, D, PorCerrar, Hilos
<1>5. EnTurno'
  BY <1>3, <1>4, EnTurnoStay DEF TInv
<1> QED
  BY <1>1, <1>2, <1>4, <1>5 DEF TInv, TypeOK

LEMMA FinishEsiNotificaTipos == ASSUME TInv, NEW t \in Hilos, FinishEsiNotifica(t) PROVE TInv'
<1>1. TipoMapa' /\ TipoListas' /\ TipoRecursos'
  BY DEF TInv, TypeOK, TipoMapa, TipoListas, TipoRecursos, FinishEsiNotifica, mapa, listas, turno, recursos
<1>2. /\ pc[t] = "notificar" /\ Vuelve(t)
      /\ dispatcher_manager' \in {dispatcher_manager, "libre"}
      /\ UNCHANGED <<conexion, clientes, comandos, caido, RUNNING_ESI, instruction_pointer>>
  BY DEF FinishEsiNotifica, NotifyDispatcher, turno, mapa
<1>3. TipoHilos' /\ (D = "resultado" => D' = "resultado") /\ (PorCerrar' => PorCerrar)
  BY <1>2, VuelveKeeps, Lugar DEF TInv, TypeOK, TipoHilos, Marco, D, PorCerrar, Hilos
<1>4. EnTurno'
  BY <1>2, <1>3, EnTurnoStay DEF TInv
<1> QED
  BY <1>1, <1>2, <1>3, <1>4 DEF TInv, TypeOK, TipoClientes, clientes

-----------------------------------------------------------------------------
(* The sentences, the console, the connections and the ESIs *)

LEMMA BlockEsiByResourceTipos ==
  ASSUME TInv, NEW e \in ESIs, NEW r \in Recursos, BlockEsiByResource(e, r),
         UNCHANGED <<instruction_pointer, FINISHED_ESI_LIST, RUNNING_ESI, recurso_tomado_por_esi>>
  PROVE  TipoMapa' /\ TipoListas' /\ TipoRecursos'
<1> DEFINE listos == RemoveFirst(READY_ESI_LIST, e)
<1>1. TipoMapa'
  BY DEF TInv, TypeOK, TipoMapa, BlockEsiByResource, CambiarRecursoQueLoBloquea
<1>2. listos \in Seq(ESIs)
  BY RemoveFirstTipo DEF TInv, TypeOK, TipoListas
<1>3. /\ ReplanificaCon(listos) \/ (READY_ESI_LIST' = listos /\ UNCHANGED NEXT_RUNNING_ESI)
      /\ BLOCKED_ESI_LIST' = Append(BLOCKED_ESI_LIST, e)
      /\ esis_bloqueados_por_recurso' = [esis_bloqueados_por_recurso EXCEPT ![r] = Append(@, e)]
  BY DEF BlockEsiByResource
<1> HIDE DEF listos
<1>4. TipoListas'
  BY <1>2, <1>3, ReplanTipo DEF TInv, TypeOK, TipoListas, ReplanificaCon
<1>5. TipoRecursos'
  BY <1>3 DEF TInv, TypeOK, TipoRecursos
<1> QED
  BY <1>1, <1>4, <1>5

LEMMA GetSentenceTipos == ASSUME TInv, NEW e \in ESIs, GetSentence(e) PROVE TInv'
<1> DEFINE r == pedido[e].recurso
<1>1. pc["coordinador"] = "libre" /\ r \in Recursos
  BY DEF GetSentence, TInv, EnTurno
<1>2. CASE Muere
  BY <1>2, MuereKeeps
<1>3. ASSUME recurso_tomado_por_esi' = [recurso_tomado_por_esi EXCEPT ![r] = e],
             Responde(e, "OK"),
             UNCHANGED <<mapa, listas, turno, esis_bloqueados_por_recurso,
                         dispatcher_manager, hilos, conexion, comandos, caido>>
      PROVE  TInv'
  <2>1. TipoMapa' /\ TipoListas'
    BY <1>3 DEF TInv, TypeOK, TipoMapa, TipoListas, mapa, listas, turno
  <2>2. TipoRecursos'
    BY <1>1, <1>3 DEF TInv, TypeOK, TipoRecursos
  <2>3. TipoHilos' /\ comandos' \in 0 .. MaxComandos /\ caido' \in BOOLEAN
    BY <1>3 DEF TInv, TypeOK, TipoHilos, hilos
  <2>4. TipoClientes' /\ EnTurno'
    BY <1>3, RespondeKeeps DEF turno, mapa, hilos, D, Resultados
  <2> QED
    BY <2>1, <2>2, <2>3, <2>4 DEF TInv, TypeOK
<1>4. ASSUME BlockEsiByResource(e, r), Responde(e, "KEY_BLOCKED"),
             UNCHANGED <<instruction_pointer, FINISHED_ESI_LIST, RUNNING_ESI,
                         recurso_tomado_por_esi, dispatcher_manager, hilos, conexion,
                         comandos, caido>>
      PROVE  TInv'
  <2>1. TipoMapa' /\ TipoListas' /\ TipoRecursos'
    BY <1>1, <1>4, BlockEsiByResourceTipos
  <2>2. TipoHilos' /\ comandos' \in 0 .. MaxComandos /\ caido' \in BOOLEAN
    BY <1>4 DEF TInv, TypeOK, TipoHilos, hilos
  <2>3. TipoClientes' /\ EnTurno'
    BY <1>4, RespondeKeeps DEF hilos, D, Resultados
  <2> QED
    BY <2>1, <2>2, <2>3 DEF TInv, TypeOK
<1> QED
  BY <1>2, <1>3, <1>4 DEF GetSentence

LEMMA SetSentenceTipos == ASSUME TInv, NEW e \in ESIs, SetSentence(e) PROVE TInv'
<1>1. CASE Muere
  BY <1>1, MuereKeeps
<1>2. CASE ~Muere
  <2>1. /\ UNCHANGED <<mapa, listas, turno, recursos, dispatcher_manager, hilos,
                       conexion, comandos, caido>>
        /\ \E res \in Resultados : Responde(e, res)
    BY <1>2 DEF SetSentence, Concedido, Resultados, Errores
  <2>2. TipoMapa' /\ TipoListas' /\ TipoRecursos'
    BY <2>1 DEF TInv, TypeOK, TipoMapa, TipoListas, TipoRecursos, mapa, listas, turno, recursos
  <2>3. TipoHilos' /\ comandos' \in 0 .. MaxComandos /\ caido' \in BOOLEAN
    BY <2>1 DEF TInv, TypeOK, TipoHilos, hilos
  <2>4. TipoClientes' /\ EnTurno'
    BY <2>1, RespondeKeeps DEF turno, mapa, hilos, D
  <2> QED
    BY <2>2, <2>3, <2>4 DEF TInv, TypeOK
<1> QED
  BY <1>1, <1>2

LEMMA StoreSentenceTipos == ASSUME TInv, NEW e \in ESIs, StoreSentence(e) PROVE TInv'
<1> DEFINE P == [op : {"GET", "SET", "STORE", "STORE_EN_CURSO", "ninguna"},
                 recurso : Recursos \cup {SinRecurso}]
<1>1. TipoMapa' /\ TipoListas' /\ TipoRecursos'
  BY DEF TInv, TypeOK, TipoMapa, TipoListas, TipoRecursos, StoreSentence, mapa, listas, turno, recursos
<1>2. /\ pc' = [pc EXCEPT !["coordinador"] = "liberar"]
      /\ marco' = [marco EXCEPT !["coordinador"].recursos = {pedido[e].recurso}]
      /\ pedido' = [pedido EXCEPT ![e].op = "STORE_EN_CURSO"]
      /\ pedido[e].recurso \in Recursos
  BY DEF StoreSentence, TInv, EnTurno
<1>3. marco \in [Hilos -> Marco] /\ pedido \in [ESIs -> P]
  BY DEF TInv, TypeOK, TipoHilos, TipoClientes, Marco
<1>4. marco' \in [Hilos -> Marco] /\ marco'["despachador"] = marco["despachador"]
  BY <1>2, <1>3 DEF Marco, Hilos
<1>5. TipoHilos' /\ D' = D
  BY <1>2, <1>4, Lugar DEF TInv, TypeOK, TipoHilos, StoreSentence, Hilos, Marco, D
<1>6. pedido' \in [ESIs -> P] /\ \A x \in ESIs : pedido'[x].recurso = pedido[x].recurso
                                    /\ x # e => pedido'[x].op = pedido[x].op
  BY <1>2, <1>3
<1>7. TipoClientes' /\ comandos' \in 0 .. MaxComandos /\ caido' \in BOOLEAN
  BY <1>6 DEF TInv, TypeOK, TipoClientes, StoreSentence
<1>8. PorCerrar' = PorCerrar
  BY <1>4, <1>5 DEF PorCerrar
<1>9. UNCHANGED <<ise, guion, linea, resultado, RUNNING_ESI, instruction_pointer>>
  BY DEF StoreSentence, turno, mapa
<1>10. EnTurno'
  BY <1>2, <1>5, <1>6, <1>8, <1>9 DEF TInv, EnTurno
<1> QED
  BY <1>1, <1>5, <1>7, <1>10 DEF TInv, TypeOK

LEMMA StoreSentenceRespondeTipos ==
  ASSUME TInv, NEW e \in ESIs, StoreSentenceResponde(e) PROVE TInv'
<1>1. TipoMapa' /\ TipoListas' /\ TipoRecursos'
  BY DEF TInv, TypeOK, TipoMapa, TipoListas, TipoRecursos, StoreSentenceResponde, mapa, listas, turno, recursos
<1>2. /\ \E res \in Resultados : Responde(e, res)
      /\ pc' = [pc EXCEPT !["coordinador"] = "libre"]
      /\ marco' = [marco EXCEPT !["coordinador"] = SinMarco]
  BY DEF StoreSentenceResponde, Concedido, Resultados, Errores
<1>3. marco' \in [Hilos -> Marco] /\ marco'["despachador"] = marco["despachador"]
  BY <1>2, CambiaMarco, SinMarcoTipo DEF TInv, Hilos
<1>4. TipoHilos' /\ D' = D /\ comandos' \in 0 .. MaxComandos /\ caido' \in BOOLEAN
  BY <1>2, <1>3, Lugar DEF TInv, TypeOK, TipoHilos, StoreSentenceResponde, Hilos, Marco, D
<1>5. TipoClientes' /\ EnTurno'
  BY <1>2, <1>3, <1>4, RespondeKeeps DEF StoreSentenceResponde, turno, mapa
<1> QED
  BY <1>1, <1>4, <1>5 DEF TInv, TypeOK

\* What of the console changes one list or one owner, and the process's end.
LEMMA ComandoTipos ==
  ASSUME TInv, Comando, UNCHANGED <<RUNNING_ESI, instruction_pointer, hilos, clientes>>,
         TipoMapa', TipoListas', TipoRecursos', dispatcher_manager' \in {"libre", "tomado"},
         conexion' = conexion, caido' \in BOOLEAN
  PROVE  TInv'
<1>1. comandos' \in 0 .. MaxComandos
  BY EntornoAssumption DEF Comando, TInv, TypeOK
<1>2. TipoHilos'
  BY DEF TInv, TypeOK, TipoHilos, hilos
<1>3. TipoClientes'
  BY DEF TInv, TypeOK, TipoClientes, clientes
<1>4. EnTurno'
  BY EnTurnoStay DEF TInv, PorCerrar, D, hilos
<1> QED
  BY <1>1, <1>2, <1>3, <1>4 DEF TInv, TypeOK

LEMMA KillCmdTipos == ASSUME TInv, NEW e \in ESIs, KillCmd(e) PROVE TInv'
<1>1. TipoMapa' /\ TipoListas' /\ TipoRecursos'
  BY DEF TInv, TypeOK, TipoMapa, TipoListas, TipoRecursos, KillCmd, mapa, listas, turno, recursos
<1>2. /\ pc' = [pc EXCEPT !["consola"] = "finish"] /\ marco' \in [Hilos -> Marco]
      /\ marco'["despachador"] = marco["despachador"]
  BY LlamaFinishKeeps DEF KillCmd, TInv, Hilos
<1>3. TipoHilos' /\ D' = D
  BY <1>2, Lugar DEF TInv, TypeOK, TipoHilos, KillCmd, Hilos, Marco, D
<1>4. TipoClientes' /\ comandos' \in 0 .. MaxComandos /\ caido' \in BOOLEAN
  BY EntornoAssumption DEF TInv, TypeOK, TipoClientes, KillCmd, Comando, clientes
<1>5. EnTurno'
  BY <1>2, <1>3, EnTurnoStay DEF TInv, PorCerrar, KillCmd, mapa, turno
<1> QED
  BY <1>1, <1>3, <1>4, <1>5 DEF TInv, TypeOK

LEMMA UnblockResourceTipos == ASSUME TInv, NEW r \in Recursos, UnblockResource(r) PROVE TInv'
<1>1. TipoMapa' /\ TipoListas'
  BY DEF TInv, TypeOK, TipoMapa, TipoListas, UnblockResource, mapa, listas, turno
<1>2. TipoRecursos'
  BY DEF TInv, TypeOK, TipoRecursos, UnblockResource
<1> QED
  BY <1>1, <1>2, ComandoTipos DEF UnblockResource, TInv, TypeOK, TipoHilos, turno, mapa

LEMMA UnblockCmdTipos == ASSUME TInv, NEW r \in Recursos, UnblockCmd(r) PROVE TInv'
<1> DEFINE cola == DesdeElPrimeroValido(esis_bloqueados_por_recurso[r])
           q == esis_bloqueados_por_recurso
<1>1. TipoMapa /\ TipoListas /\ TipoRecursos /\ dispatcher_manager \in {"libre", "tomado"}
  BY DEF TInv, TypeOK, TipoHilos
<1>2. cola \in Seq(ESIs) /\ q \in [Recursos -> Seq(ESIs)]
  BY <1>1, DesdeElPrimeroValidoTipo DEF TipoRecursos
<1>3. Comando /\ UNCHANGED <<turno, recurso_tomado_por_esi, hilos, conexion, clientes>>
  BY DEF UnblockCmd
<1>4. CASE cola = << >>
  <2>1. caido' = TRUE
        /\ UNCHANGED <<mapa, listas, esis_bloqueados_por_recurso, dispatcher_manager>>
    BY <1>4 DEF UnblockCmd
  <2>2. TipoMapa' /\ TipoListas' /\ TipoRecursos'
    BY <1>1, <1>3, <2>1 DEF TipoMapa, TipoListas, TipoRecursos, mapa, listas, turno
  <2> QED
    BY <1>1, <1>3, <2>1, <2>2, ComandoTipos DEF turno, mapa
<1>5. CASE cola # << >>
  <2> DEFINE e == Head(cola)
  <2>1. e \in ESIs /\ Tail(cola) \in Seq(ESIs)
    BY <1>2, <1>5
  <2>2. /\ q' = [q EXCEPT ![r] = Tail(cola)] /\ UnblockEsi(e)
        /\ UNCHANGED <<instruction_pointer, blocking_resource, FINISHED_ESI_LIST, caido>>
    BY <1>5 DEF UnblockCmd
  <2> HIDE DEF cola, e
  <2>3. TipoMapa'
    BY <1>1, <2>1, <2>2 DEF TipoMapa, UnblockEsi
  <2>4. TipoListas'
    BY <1>1, <1>3, <2>1, <2>2, RemoveFirstTipo DEF TipoListas, UnblockEsi, turno
  <2>5. TipoRecursos' /\ dispatcher_manager' \in {"libre", "tomado"}
    BY <1>1, <1>2, <1>3, <2>1, <2>2 DEF TipoRecursos, UnblockEsi, NotifyDispatcher
  <2> QED
    BY <1>3, <2>2, <2>3, <2>4, <2>5, ComandoTipos DEF turno, TInv, TypeOK
<1> QED
  BY <1>4, <1>5

LEMMA DeadlockCmdTipos == ASSUME TInv, DeadlockCmd PROVE TInv'
<1>1. TipoMapa' /\ TipoListas' /\ TipoRecursos'
  BY DEF TInv, TypeOK, TipoMapa, TipoListas, TipoRecursos, DeadlockCmd, mapa, listas, turno, recursos
<1>2. caido' \in BOOLEAN
  BY Zenon DEF DeadlockCmd
<1> QED
  BY <1>1, <1>2, ComandoTipos DEF DeadlockCmd, TInv, TypeOK, TipoHilos, turno, mapa

LEMMA NewEsiTipos == ASSUME TInv, NEW e \in ESIs, NewEsi(e) PROVE TInv'
<1>1. TipoMapa' /\ TipoRecursos'
  BY DEF TInv, TypeOK, TipoMapa, TipoRecursos, NewEsi, recursos
<1>2. TipoListas'
  BY DEF TInv, TypeOK, TipoListas, NewEsi, turno
<1>3. TipoHilos'
  BY DEF TInv, TypeOK, TipoHilos, NewEsi, hilos
<1>4. TipoClientes' /\ comandos' \in 0 .. MaxComandos /\ caido' \in BOOLEAN
  BY DEF TInv, TypeOK, TipoClientes, NewEsi, clientes
<1>5. EnTurno'
  BY EnTurnoStay DEF TInv, PorCerrar, D, NewEsi, turno, hilos
<1> QED
  BY <1>1, <1>2, <1>3, <1>4, <1>5 DEF TInv, TypeOK

LEMMA SendIdToEsiTipos == ASSUME TInv, NEW e \in ESIs, SendIdToEsi(e) PROVE TInv'
<1>1. TipoMapa' /\ TipoListas' /\ TipoRecursos'
  BY DEF TInv, TypeOK, TipoMapa, TipoListas, TipoRecursos, SendIdToEsi, mapa, listas, turno, recursos
<1>2. TipoHilos'
  BY DEF TInv, TypeOK, TipoHilos, SendIdToEsi, hilos
<1>3. TipoClientes' /\ comandos' \in 0 .. MaxComandos /\ caido' \in BOOLEAN
  BY DEF TInv, TypeOK, TipoClientes, SendIdToEsi
<1>4. /\ \A x \in ESIs : ise'[x] = ise[x] \/ (ise[x] = "sin_id" /\ ise'[x] = "espera")
      /\ UNCHANGED <<guion, linea, pedido, resultado, RUNNING_ESI, instruction_pointer, hilos>>
  BY DEF TInv, TypeOK, TipoClientes, SendIdToEsi, mapa, turno
<1>5. EnTurno'
  BY <1>4 DEF TInv, EnTurno, PorCerrar, D, hilos
<1> QED
  BY <1>1, <1>2, <1>3, <1>5 DEF TInv, TypeOK

LEMMA NotificaNuevoTipos == ASSUME TInv, NEW e \in ESIs, NotificaNuevo(e) PROVE TInv'
<1>1. TipoMapa' /\ TipoListas' /\ TipoRecursos'
  BY DEF TInv, TypeOK, TipoMapa, TipoListas, TipoRecursos, NotificaNuevo, mapa, listas, turno, recursos
<1>2. TipoHilos'
  BY DEF TInv, TypeOK, TipoHilos, NotificaNuevo, NotifyDispatcher, hilos
<1>3. TipoClientes' /\ comandos' \in 0 .. MaxComandos /\ caido' \in BOOLEAN
  BY DEF TInv, TypeOK, TipoClientes, NotificaNuevo, clientes
<1>4. EnTurno'
  BY EnTurnoStay DEF TInv, PorCerrar, D, NotificaNuevo, mapa, turno, hilos
<1> QED
  BY <1>1, <1>2, <1>3, <1>4 DEF TInv, TypeOK

\* The line of an ESI that goes on is one of its script.
LEMMA LineaDelGuion ==
  ASSUME TInv, NEW e \in ESIs, ise[e] # "terminado"
  PROVE  guion[e][linea[e]] \in Sentencia
<1>1. guion[e] \in Seq(Sentencia) /\ linea[e] \in Nat \ {0} /\ linea[e] <= Len(guion[e])
  BY GuionAssumption DEF TInv, TypeOK, TipoClientes, EnTurno
<1> QED
  BY <1>1

LEMMA ExecuteSentenceTipos == ASSUME TInv, NEW e \in ESIs, ExecuteSentence(e) PROVE TInv'
<1> DEFINE s == guion[e][linea[e]]
<1>1. TipoMapa' /\ TipoListas' /\ TipoRecursos'
  BY DEF TInv, TypeOK, TipoMapa, TipoListas, TipoRecursos, ExecuteSentence, mapa, listas, turno, recursos
<1>2. TipoHilos' /\ comandos' \in 0 .. MaxComandos /\ caido' \in BOOLEAN
  BY DEF TInv, TypeOK, TipoHilos, ExecuteSentence, hilos
<1>3. ise[e] = "ejecuta" /\ RUNNING_ESI = e /\ D = "resultado" /\ resultado[e] = "nada"
  BY DEF ExecuteSentence, TInv, EnTurno
<1>4. UNCHANGED <<guion, RUNNING_ESI, instruction_pointer, D, PorCerrar>>
  BY DEF ExecuteSentence, turno, mapa, hilos, D, PorCerrar
<1>5. CASE s.op = "INVALIDA"
  <2>1. RecibeResultado(e, "PARSE_ERROR") /\ UNCHANGED pedido /\ "PARSE_ERROR" \in Resultados
    BY <1>5 DEF ExecuteSentence, Resultados
  <2>2. TipoClientes'
    BY <1>3, <1>4, <2>1, RecibeResultadoKeeps DEF TInv, TypeOK, TipoClientes
  <2>3. EnTurno'
    BY <1>3, <1>4, <2>1, RecibeResultadoKeeps DEF TInv, EnTurno
  <2> QED
    BY <1>1, <1>2, <2>2, <2>3 DEF TInv, TypeOK
<1>6. CASE s.op # "INVALIDA"
  <2>1. /\ pedido' = [pedido EXCEPT ![e] = s] /\ ise' = [ise EXCEPT ![e] = "pregunta"]
        /\ UNCHANGED <<linea, resultado>>
    BY <1>6 DEF ExecuteSentence
  <2>2. s \in Sentencia /\ s.recurso \in Recursos
    BY <1>3, LineaDelGuion DEF Sentencia
  <2>3. s \in [op : {"GET", "SET", "STORE", "STORE_EN_CURSO", "ninguna"},
               recurso : Recursos \cup {SinRecurso}]
    BY <1>6, <2>2 DEF Sentencia
  <2> HIDE DEF s
  <2>4. TipoClientes'
    BY <1>4, <2>1, <2>3 DEF TInv, TypeOK, TipoClientes
  <2>5. EnTurno'
    BY <1>3, <1>4, <2>1, <2>2 DEF TInv, TypeOK, TipoClientes, EnTurno
  <2> QED
    BY <1>1, <1>2, <2>4, <2>5 DEF TInv, TypeOK
<1> QED
  BY <1>5, <1>6

LEMMA DesconectaTipos == ASSUME TInv, NEW e \in ESIs, Desconecta(e) PROVE TInv'
<1>1. TipoMapa' /\ TipoListas' /\ TipoRecursos'
  BY DEF TInv, TypeOK, TipoMapa, TipoListas, TipoRecursos, Desconecta, mapa, listas, turno, recursos
<1>2. TipoHilos' /\ comandos' \in 0 .. MaxComandos /\ caido' \in BOOLEAN
  BY DEF TInv, TypeOK, TipoHilos, Desconecta, hilos
<1>3. TipoClientes'
  BY DEF TInv, TypeOK, TipoClientes, Desconecta
<1>4. /\ \A x \in ESIs : ise'[x] = ise[x] \/ ise'[x] = "terminado"
      /\ UNCHANGED <<guion, linea, pedido, resultado, RUNNING_ESI, instruction_pointer, hilos>>
  BY DEF TInv, TypeOK, TipoClientes, Desconecta, mapa, turno
<1>5. EnTurno'
  BY <1>4 DEF TInv, EnTurno, PorCerrar, D, hilos
<1> QED
  BY <1>1, <1>2, <1>3, <1>5 DEF TInv, TypeOK

-----------------------------------------------------------------------------
LEMMA InitTInv == Init => TInv
<1> SUFFICES ASSUME Init PROVE TInv
  OBVIOUS
<1>1. TipoMapa /\ TipoListas
  BY DEF Init, TipoMapa, TipoListas
<1>2. TipoRecursos
  BY DEF Init, TipoRecursos
<1>3. TipoHilos
  <2>1. marco \in [Hilos -> Marco]
    BY SinMarcoTipo DEF Init
  <2> QED
    BY <2>1 DEF Init, TipoHilos, Marco
<1>4. TipoClientes
  BY DEF Init, TipoClientes, NoPedido, Resultados
<1>5. comandos \in 0 .. MaxComandos /\ caido \in BOOLEAN
  <2>1. comandos = 0
    BY DEF Init
  <2>2. caido \in BOOLEAN
    BY Zenon DEF Init
  <2> QED
    BY <2>1, <2>2, EntornoAssumption
<1>6. EnTurno
  <2>1. \A e \in ESIs : guion[e] \in Seq(Sentencia) /\ guion[e] # << >>
    BY GuionAssumption DEF Init
  <2>2. \A e \in ESIs : linea[e] <= Len(guion[e])
    BY <2>1, EmptySeq DEF Init
  <2>3. D = "adquirir"
    BY DEF Init, D, Hilos
  <2> QED
    BY <2>2, <2>3 DEF Init, EnTurno, NoPedido, PorCerrar
<1> QED
  BY <1>1, <1>2, <1>3, <1>4, <1>5, <1>6 DEF TInv, TypeOK

LEMMA LlamadaTipos == ASSUME TInv, NEW t \in Hilos, Llamada(t) PROVE TInv'
BY FreeResourceTipos, FreeResourceQuitaTipos, FinishEsiTipos, FinishEsiRetornaTipos,
   FinishEsiReplanificaTipos, FinishEsiNotificaTipos DEF Llamada

LEMMA NextTInv == TInv /\ [Next]_vars => TInv'
<1> SUFFICES ASSUME TInv, [Next]_vars PROVE TInv'
  OBVIOUS
<1>1. CASE UNCHANGED vars
  <2>1. TipoMapa' /\ TipoListas' /\ TipoRecursos'
    BY <1>1 DEF TInv, TypeOK, TipoMapa, TipoListas, TipoRecursos, vars, mapa, listas, turno, recursos
  <2>2. TipoHilos' /\ TipoClientes' /\ comandos' \in 0 .. MaxComandos /\ caido' \in BOOLEAN
    BY <1>1 DEF TInv, TypeOK, TipoHilos, TipoClientes, vars, hilos, clientes
  <2>3. EnTurno'
    BY <1>1, EnTurnoStay DEF TInv, PorCerrar, D, vars, mapa, turno, hilos
  <2> QED
    BY <2>1, <2>2, <2>3 DEF TInv, TypeOK
<1>2. CASE HiloDespachador
  BY <1>2, AcquireDispatcherTipos, DespachaTipos, SinResultadoTipos, WaitExecutionResultTipos,
     CierraTurnoTipos, TerminaTurnoTipos, LlamadaTipos DEF HiloDespachador, Hilos
<1>3. CASE HiloCoordinador
  BY <1>3, GetSentenceTipos, SetSentenceTipos, StoreSentenceTipos, StoreSentenceRespondeTipos,
     FreeResourceTipos, FreeResourceQuitaTipos DEF HiloCoordinador, Hilos
<1>4. CASE HiloConsola
  BY <1>4, KillCmdTipos, UnblockResourceTipos, UnblockCmdTipos, DeadlockCmdTipos, LlamadaTipos
  DEF HiloConsola, Hilos
<1>5. ASSUME NEW e \in ESIs, HiloConexion(e) \/ ExecuteSentence(e) \/ Desconecta(e) PROVE TInv'
  BY <1>5, NewEsiTipos, SendIdToEsiTipos, NotificaNuevoTipos, ExecuteSentenceTipos, DesconectaTipos
  DEF HiloConexion
<1> QED
  BY <1>1, <1>2, <1>3, <1>4, <1>5 DEF Next

LEMMA TurnInvariant == Spec => []TInv
BY InitTInv, NextTInv, PTL DEF Spec

\* The map, the lists, the threads and the ESIs keep their types whatever is typed
\* at the console and whoever is interrupted; an instruction pointer is never
\* taken back below none (dispatcher.c:113).
THEOREM TypeCorrect == Spec => []TypeOK
BY TurnInvariant, PTL DEF TInv

\* One ESI executes at a time, the one the dispatcher waits for, whatever users do
\* (send_esi_to_run, wait_execution_result).
THEOREM OneAtATime == Spec => []UnoALaVez
<1>1. TInv => UnoALaVez
  BY DEF TInv, EnTurno, UnoALaVez, D
<1> QED
  BY <1>1, TurnInvariant, PTL

\* While somebody has a resource, a SET of one that the ESI does not hold ends
\* it (is_resource_taken_by_esi), whatever users do.
THEOREM SetOfAnothersAborts == Spec => SetAjenoAborta
<1>1. ASSUME TInv, Next, NEW e \in ESIs, pedido[e].op = "SET", pedido'[e] = NoPedido,
             ise[e] = "pregunta", recurso_tomado_por_esi[pedido[e].recurso] # e,
             NEW r \in Recursos, recurso_tomado_por_esi[r] # Nadie
      PROVE  resultado'[e] = "KEY_LOCK_NOT_ACQUIRED"
  <2>1. pedido'[e] # pedido[e] /\ e \in DOMAIN pedido /\ e \in DOMAIN resultado
    BY <1>1 DEF NoPedido, TInv, TypeOK, TipoClientes
  <2>2. ASSUME NEW x \in ESIs, SetSentence(x) PROVE resultado'[e] = "KEY_LOCK_NOT_ACQUIRED"
    <3>1. CASE Muere
      BY <2>1, <3>1 DEF Muere, clientes
    <3>2. CASE ~Muere
      <4>1. PICK tomado \in ResourceTakenByEsi(x, pedido[x].recurso) :
               /\ tomado # "muere"
               /\ \E res \in IF tomado = "si" THEN Concedido ELSE {"KEY_LOCK_NOT_ACQUIRED"} :
                     Responde(x, res)
        BY <2>2, <3>2 DEF SetSentence
      <4>2. x = e
        BY <2>1, <4>1 DEF Responde
      <4>3. tomado = "no"
        BY <1>1, <4>1, <4>2 DEF ResourceTakenByEsi
      <4>4. Responde(e, "KEY_LOCK_NOT_ACQUIRED")
        BY <4>1, <4>2, <4>3
      <4> QED
        BY <1>1, <2>1, <4>4 DEF Responde, RecibeResultado
    <3> QED
      BY <3>1, <3>2
  <2>3. ASSUME NEW x \in ESIs, GetSentence(x) PROVE FALSE
    <3>1. CASE Muere
      BY <2>1, <3>1 DEF Muere, clientes
    <3>2. CASE ~Muere
      BY <1>1, <2>1, <2>3, <3>2 DEF GetSentence, Responde
    <3> QED
      BY <3>1, <3>2
  <2>4. ASSUME NEW x \in ESIs, StoreSentence(x) \/ StoreSentenceResponde(x) PROVE FALSE
    BY <1>1, <2>1, <2>4 DEF StoreSentence, StoreSentenceResponde, Responde
  <2>5. ASSUME NEW x \in ESIs, ExecuteSentence(x) PROVE FALSE
    BY <1>1, <2>1, <2>5 DEF ExecuteSentence
  <2>6. ASSUME NEW t \in Hilos, Llamada(t) PROVE FALSE
    BY <2>1, <2>6 DEF Llamada, FreeResource, FreeResourceQuita, FinishEsi, FinishEsiRetorna,
                      FinishEsiReplanifica, FinishEsiNotifica, Muere, clientes
  <2>7. ~HiloDespachador
    BY <2>1, <2>6 DEF HiloDespachador, AcquireDispatcher, Despacha, SinResultado,
       WaitExecutionResult, CierraTurno, TerminaTurno, Muere, clientes, Hilos
  <2>8. ~HiloConsola
    BY <2>1, <2>6 DEF HiloConsola, KillCmd, UnblockResource, UnblockCmd, DeadlockCmd,
       clientes, Hilos
  <2>9. ASSUME NEW x \in ESIs, HiloConexion(x) \/ Desconecta(x) PROVE FALSE
    BY <2>1, <2>9 DEF HiloConexion, NewEsi, SendIdToEsi, NotificaNuevo, Desconecta, clientes
  <2>10. ~(FreeResource("coordinador") \/ FreeResourceQuita("coordinador"))
    BY <2>6 DEF Llamada, Hilos
  <2> QED
    BY <1>1, <2>2, <2>3, <2>4, <2>5, <2>7, <2>8, <2>9, <2>10 DEF Next, HiloCoordinador
<1>2. TInv /\ [Next]_vars =>
        [ \A e \in ESIs :
            (/\ pedido[e].op = "SET" /\ pedido'[e] = NoPedido /\ ise[e] = "pregunta"
             /\ recurso_tomado_por_esi[pedido[e].recurso] # e
             /\ \E r \in Recursos : recurso_tomado_por_esi[r] # Nadie)
            => resultado'[e] = "KEY_LOCK_NOT_ACQUIRED" ]_vars
  BY <1>1
<1> QED
  BY <1>2, TurnInvariant, PTL DEF SetAjenoAborta, Spec

-----------------------------------------------------------------------------
(* The lists, the pointers and the waits *)

\* Nobody interrupts an ESI and nobody types.
SinUsuarios == Desconexiones = {} /\ MaxComandos = 0

\* lista has each member of C once, and nothing else.
En(lista, C) == /\ lista \in Seq(ESIs) /\ ToSet(lista) = C
                /\ \A i, j \in DOMAIN lista : lista[i] = lista[j] => i = j

Listos == {e \in ESIs : estado[e] \in {"NUEVO", "DESBLOQUEADO"} /\ NEXT_RUNNING_ESI # e}
ConEstado(s) == {e \in ESIs : estado[e] = s}
Esperan(r) == {e \in ESIs : estado[e] = "BLOQUEADO" /\ blocking_resource[e] = r}

Listas ==
    /\ En(READY_ESI_LIST, Listos)
    /\ En(BLOCKED_ESI_LIST, ConEstado("BLOQUEADO"))
    /\ En(FINISHED_ESI_LIST, ConEstado("FINALIZADO"))
    /\ \A r \in Recursos : En(esis_bloqueados_por_recurso[r], Esperan(r))

\* Who is next can run, and who runs is next until it blocks or ends.
Siguiente ==
    /\ NEXT_RUNNING_ESI # Ninguno =>
         estado[NEXT_RUNNING_ESI] \in {"NUEVO", "DESBLOQUEADO", "CORRIENDO"}
    /\ \A e \in ESIs : estado[e] = "CORRIENDO" => RUNNING_ESI = e /\ NEXT_RUNNING_ESI = e
    /\ RUNNING_ESI = Ninguno => NEXT_RUNNING_ESI = Ninguno

\* Where the other threads are, and the ESI of the turn in each part of it.
Turno ==
    /\ \A e \in ESIs : pedido[e] # NoPedido => ise[e] = "pregunta"
    /\ pc["consola"] = "libre" /\ pc["coordinador"] \in {"libre", "liberar", "quitar"}
    /\ marco["coordinador"].esi = Ninguno
    /\ pc["coordinador"] # "libre" => \E e \in ESIs : pedido[e].op = "STORE_EN_CURSO"
    /\ D \notin {"libre", "replanificar", "notificar"}
    /\ D \in {"resultado", "cerrar", "finish", "liberar", "quitar", "terminar"} => RUNNING_ESI \in ESIs
    /\ D = "cerrar" => estado[RUNNING_ESI] \in {"CORRIENDO", "BLOQUEADO", "FINALIZADO"}
    /\ D = "finish" => estado[RUNNING_ESI] = "CORRIENDO" /\ ise[RUNNING_ESI] = "terminado"
    /\ D \in {"liberar", "quitar", "terminar"} => estado[RUNNING_ESI] = "FINALIZADO"
    /\ D \in {"finish", "liberar", "quitar"} =>
         /\ marco["despachador"].esi = RUNNING_ESI
         /\ marco["despachador"].vuelve \in {"adquirir", "cerrar", "terminar"}

\* The sentence of the turn: to be asked, asked, answered, or never to be.
Sentencias ==
    D = "resultado" =>
        LET e == RUNNING_ESI IN
        \/ ise[e] = "ejecuta" /\ estado[e] = "CORRIENDO"
        \/ /\ ise[e] = "pregunta" /\ estado[e] = "CORRIENDO"
           /\ pedido[e].recurso = guion[e][linea[e]].recurso
           /\ \/ pedido[e].op = guion[e][linea[e]].op
              \/ pedido[e].op = "STORE_EN_CURSO" /\ guion[e][linea[e]].op = "STORE"
        \/ /\ ise[e] \in {"espera", "terminado"} /\ resultado[e] # "nada"
           /\ estado[e] = IF resultado[e] = "KEY_BLOCKED" THEN "BLOQUEADO" ELSE "CORRIENDO"
           /\ resultado[e] \in Errores => ise[e] = "terminado"
        \/ ise[e] = "terminado" /\ estado[e] = "CORRIENDO" /\ resultado[e] = "nada"

\* The process of e is as its state is.
Proceso(e) ==
    /\ conexion[e] = "nueva" <=> estado[e] = "ausente"
    /\ estado[e] = "ausente" =>
         ise[e] = "sin_id" /\ linea[e] = 1 /\ instruction_pointer[e] = 0
    /\ ise[e] = "sin_id" => estado[e] \in {"ausente", "NUEVO"}
    /\ estado[e] \in {"FINALIZADO", "borrado"} => ise[e] = "terminado"
    /\ ise[e] = "terminado" =>
         \/ estado[e] \in {"FINALIZADO", "borrado"}
         \/ e = RUNNING_ESI /\ D \in {"resultado", "cerrar", "finish"}
    /\ estado[e] = "BLOQUEADO" =>
         /\ blocking_resource[e] \in Recursos /\ ise[e] = "espera"
         /\ guion[e][linea[e]] = [op |-> "GET", recurso |-> blocking_resource[e]]

Procesos == \A e \in ESIs : Proceso(e)

\* The instruction of the turn is counted, and its line is not passed yet.
Contando(e) ==
    /\ e = RUNNING_ESI
    /\ \/ D = "resultado" /\ resultado[e] \in {"nada", "KEY_BLOCKED"}
       \/ D = "cerrar" /\ estado[e] = "BLOQUEADO"

Puntero(e) ==
    /\ ise[e] # "terminado" =>
         instruction_pointer[e] = IF Contando(e) THEN linea[e] ELSE linea[e] - 1
    /\ e = RUNNING_ESI /\ estado[e] = "CORRIENDO"
         /\ (D = "cerrar" \/ (D = "resultado" /\ resultado[e] \in {"OK", "PARSE_ERROR"})) =>
              (ise[e] = "terminado" <=> instruction_pointer[e] = Len(guion[e]))

Punteros == \A e \in ESIs : Puntero(e)

\* Who has a resource can still free it: it has not ended, or is freeing it.
Duenos == \A r \in Recursos :
    LET e == recurso_tomado_por_esi[r] IN
    e \in ESIs =>
        /\ EnMapa(e)
        /\ estado[e] = "FINALIZADO" =>
             /\ e = RUNNING_ESI
             /\ \/ D \in {"liberar", "quitar"} /\ r \in marco["despachador"].recursos
                \/ D = "quitar" /\ r = marco["despachador"].recurso

\* e was woken for r, or is told to run, and has still to try again.
Reintenta(e, r) ==
    /\ estado[e] \in {"DESBLOQUEADO", "CORRIENDO"} /\ ise[e] # "terminado"
    /\ guion[e][linea[e]] = [op |-> "GET", recurso |-> r]

Despertado(r) == \E e \in ESIs : Reintenta(e, r)

Esperas ==
    /\ \A r \in Recursos : esis_bloqueados_por_recurso[r] # << >> =>
         recurso_tomado_por_esi[r] # Nadie \/ Despertado(r)
    /\ \A t \in {"despachador", "coordinador"} : pc[t] = "quitar" =>
         /\ marco[t].recurso \in Recursos
         /\ esis_bloqueados_por_recurso[marco[t].recurso] = << >> \/ Despertado(marco[t].recurso)

IInv == /\ TInv /\ SinUsuarios /\ Listas /\ Siguiente /\ Turno /\ Sentencias /\ Procesos
        /\ Punteros /\ Duenos /\ Esperas

-----------------------------------------------------------------------------
(* Lists without repetitions *)

LEMMA EnVacia == En(<< >>, {})
BY EmptySeq DEF En, ToSet

\* list_add of one that is not there.
LEMMA EnAppend ==
  ASSUME NEW C, NEW lista, En(lista, C), NEW e \in ESIs, e \notin C
  PROVE  En(Append(lista, e), C \cup {e})
<1> DEFINE l == Append(lista, e)
<1>1. lista \in Seq(ESIs) /\ Len(lista) \in Nat /\ DOMAIN lista = 1 .. Len(lista)
  BY DEF En
<1>2. /\ l \in Seq(ESIs) /\ DOMAIN l = 1 .. Len(lista) + 1
      /\ \A i \in DOMAIN lista : l[i] = lista[i]
      /\ l[Len(lista) + 1] = e
  BY <1>1, AppendProperties
<1> HIDE DEF l
<1>3. \A i \in DOMAIN lista : lista[i] # e
  BY DEF En, ToSet
<1>4. DOMAIN l = DOMAIN lista \cup {Len(lista) + 1}
  BY <1>1, <1>2
<1>5. ToSet(l) = C \cup {e}
  BY <1>1, <1>2, <1>4 DEF En, ToSet
<1>6. \A i, j \in DOMAIN l : l[i] = l[j] => i = j
  BY <1>2, <1>3, <1>4 DEF En
<1> QED
  BY <1>2, <1>5, <1>6 DEF En, l

\* list_remove_by_condition of the first that is e.
LEMMA EnRemove ==
  ASSUME NEW C, NEW lista, En(lista, C), NEW e
  PROVE  En(RemoveFirst(lista, e), C \ {e})
<1>1. lista \in Seq(ESIs) /\ Len(lista) \in Nat /\ DOMAIN lista = 1 .. Len(lista)
  BY DEF En
<1> DEFINE P == {i \in 1 .. Len(lista) : lista[i] = e}
           p == Min(P)
           l == RemoveFirst(lista, e)
<1>2. CASE P = {}
  <2>1. l = lista
    BY <1>2 DEF RemoveFirst
  <2>2. e \notin C
    BY <1>1, <1>2 DEF En, ToSet
  <2>3. C \ {e} = C
    BY <2>2
  <2> QED
    BY <2>1, <2>3
<1>3. CASE P # {}
  <2>1. p \in P /\ p \in 1 .. Len(lista)
    BY <1>1, <1>3, FirstPlace
  <2>2. l = RemoveAt(lista, p)
    BY <1>3 DEF RemoveFirst, SelectInSeq
  <2>3. lista[p] = e
    BY <2>1
  <2> HIDE DEF p, l, P
  <2>4. /\ l \in Seq(ESIs) /\ DOMAIN l = 1 .. Len(lista) - 1
        /\ \A j \in 1 .. Len(lista) - 1 : l[j] = IF j < p THEN lista[j] ELSE lista[j + 1]
    BY <1>1, <2>1, <2>2, RemoveAtProperties
  <2>5. \A i, j \in DOMAIN lista : lista[i] = lista[j] => i = j
    BY DEF En
  <2>6. \A j \in DOMAIN l : /\ (IF j < p THEN j ELSE j + 1) \in DOMAIN lista
                            /\ l[j] = lista[IF j < p THEN j ELSE j + 1]
                            /\ (IF j < p THEN j ELSE j + 1) # p
    BY <1>1, <2>1, <2>4
  <2>7. \A i \in DOMAIN lista : i # p => \E j \in DOMAIN l : l[j] = lista[i]
    <3>1. ASSUME NEW i \in DOMAIN lista, i < p PROVE i \in DOMAIN l /\ l[i] = lista[i]
      BY <1>1, <2>1, <2>4, <3>1
    <3>2. ASSUME NEW i \in DOMAIN lista, i > p PROVE i - 1 \in DOMAIN l /\ l[i - 1] = lista[i]
      BY <1>1, <2>1, <2>4, <3>2
    <3> QED
      BY <1>1, <2>1, <3>1, <3>2
  <2>8. ToSet(l) = C \ {e}
    <3>1. C = {lista[i] : i \in DOMAIN lista}
      BY DEF En, ToSet
    <3>2. ASSUME NEW j \in DOMAIN l PROVE l[j] \in C /\ l[j] # e
      BY <1>1, <2>1, <2>3, <2>5, <2>6, <3>1
    <3>3. ASSUME NEW x \in C, x # e PROVE \E j \in DOMAIN l : l[j] = x
      <4>1. PICK i \in DOMAIN lista : lista[i] = x
        BY <3>1
      <4> QED
        BY <2>3, <2>7, <3>3, <4>1
    <3> QED
      BY <3>2, <3>3 DEF ToSet
  <2>9. \A i, j \in DOMAIN l : l[i] = l[j] => i = j
    <3>1. ASSUME NEW i \in DOMAIN l, NEW j \in DOMAIN l, l[i] = l[j] PROVE i = j
      <4>1. (IF i < p THEN i ELSE i + 1) = (IF j < p THEN j ELSE j + 1)
        BY <2>5, <2>6, <3>1
      <4> QED
        BY <1>1, <2>1, <2>4, <4>1
    <3> QED
      BY <3>1
  <2> QED
    BY <2>4, <2>8, <2>9 DEF En, l
<1> QED
  BY <1>2, <1>3

\* What is left when the first is taken.
LEMMA EnTail ==
  ASSUME NEW C, NEW lista, En(lista, C), lista # << >>
  PROVE  Head(lista) \in C /\ Head(lista) \in ESIs /\ En(Tail(lista), C \ {Head(lista)})
<1> DEFINE l == Tail(lista)
           h == Head(lista)
<1>1. lista \in Seq(ESIs) /\ Len(lista) \in Nat \ {0} /\ DOMAIN lista = 1 .. Len(lista)
  BY EmptySeq DEF En
<1>2. h = lista[1] /\ h \in ESIs
  BY <1>1
<1>3. /\ l \in Seq(ESIs) /\ DOMAIN l = 1 .. Len(lista) - 1
      /\ \A i \in 1 .. Len(lista) - 1 : l[i] = lista[i + 1]
  BY <1>1, HeadTailProperties
<1> HIDE DEF l, h
<1>4. \A i, j \in DOMAIN lista : lista[i] = lista[j] => i = j
  BY DEF En
<1>5. C = {lista[i] : i \in DOMAIN lista}
  BY DEF En, ToSet
<1>6. ToSet(l) = C \ {h}
  <2>1. ASSUME NEW j \in DOMAIN l PROVE l[j] \in C /\ l[j] # h
    <3>1. j + 1 \in DOMAIN lista /\ 1 \in DOMAIN lista /\ l[j] = lista[j + 1] /\ j + 1 # 1
      BY <1>1, <1>3
    <3> QED
      BY <1>2, <1>4, <1>5, <3>1
  <2>2. ASSUME NEW x \in C, x # h PROVE \E j \in DOMAIN l : l[j] = x
    <3>1. PICK i \in DOMAIN lista : lista[i] = x
      BY <1>5
    <3>2. i - 1 \in DOMAIN l /\ l[i - 1] = x
      BY <1>1, <1>2, <1>3, <2>2, <3>1
    <3> QED
      BY <3>2
  <2> QED
    BY <2>1, <2>2 DEF ToSet
<1>7. \A i, j \in DOMAIN l : l[i] = l[j] => i = j
  <2>1. ASSUME NEW i \in DOMAIN l, NEW j \in DOMAIN l, l[i] = l[j] PROVE i = j
    <3>1. i + 1 \in DOMAIN lista /\ j + 1 \in DOMAIN lista /\ lista[i + 1] = lista[j + 1]
      BY <1>1, <1>3, <2>1
    <3>2. i + 1 = j + 1
      BY <1>4, <3>1
    <3> QED
      BY <1>1, <1>3, <3>2
  <2> QED
    BY <2>1
<1>8. h \in C
  BY <1>1, <1>2, <1>5
<1> QED
  BY <1>2, <1>3, <1>6, <1>7, <1>8 DEF En, l, h

\* The number of times that the runs count.
LEMMA EnVeces ==
  ASSUME NEW C, NEW lista, En(lista, C), NEW e
  PROVE  Veces(e, lista) = IF e \in C THEN 1 ELSE 0
<1> DEFINE I == {i \in DOMAIN lista : lista[i] = e}
<1>1. CASE e \in C
  <2>1. PICK i \in DOMAIN lista : lista[i] = e
    BY <1>1 DEF En, ToSet
  <2>2. I = {i}
    BY <2>1 DEF En
  <2> QED
    BY <1>1, <2>2, FS_Singleton DEF Veces
<1>2. CASE e \notin C
  <2>1. I = {}
    BY <1>2 DEF En, ToSet
  <2> QED
    BY <1>2, <2>1, FS_EmptySet DEF Veces
<1> QED
  BY <1>1, <1>2

\* fifo_replan of the ready list.
LEMMA EnReplan ==
  ASSUME NEW C, NEW lista, En(lista, C), Ninguno \notin ESIs
  PROVE  /\ Replan(lista).next \in C \cup {Ninguno}
         /\ Replan(lista).next \in ESIs \cup {Ninguno}
         /\ En(Replan(lista).listos, C \ {Replan(lista).next})
         /\ C # {} => Replan(lista).next # Ninguno
<1>1. CASE lista = << >>
  <2>1. C = {}
    BY <1>1, EnVacia DEF En, ToSet
  <2> QED
    BY <1>1, <2>1, EnVacia DEF Replan
<1>2. CASE lista # << >>
  BY <1>2, EnTail DEF Replan
<1> QED
  BY <1>1, <1>2

-----------------------------------------------------------------------------
(* What many steps have in common *)

\* A step that changes no list and no state of an ESI.
LEMMA ListasStay ==
  ASSUME Listas, UNCHANGED <<mapa, listas, NEXT_RUNNING_ESI, esis_bloqueados_por_recurso>>
  PROVE  Listas'
BY DEF Listas, En, Listos, ConEstado, Esperan, mapa, listas

LEMMA SiguienteStay ==
  ASSUME Siguiente, UNCHANGED <<estado, turno>>
  PROVE  Siguiente'
BY DEF Siguiente, turno

\* Those who were to try again still are, unless it is their line that goes on.
LEMMA EsperasStay ==
  ASSUME Esperas, UNCHANGED <<recursos, marco>>,
         \A t \in {"despachador", "coordinador"} : pc'[t] = "quitar" => pc[t] = "quitar",
         \A e \in ESIs, r \in Recursos : Reintenta(e, r) => Reintenta(e, r)'
  PROVE  Esperas'
BY DEF Esperas, Despertado, recursos

\* The one that executes: it is its turn, it is the next, and its instruction counts.
LEMMA EnSuTurno ==
  ASSUME IInv, NEW e \in ESIs, ise[e] \in {"ejecuta", "pregunta"}
  PROVE  /\ RUNNING_ESI = e /\ D = "resultado" /\ resultado[e] = "nada"
         /\ estado[e] = "CORRIENDO" /\ NEXT_RUNNING_ESI = e
         /\ instruction_pointer[e] = linea[e]
         /\ linea[e] \in Nat \ {0} /\ Len(guion[e]) \in Nat /\ linea[e] <= Len(guion[e])
         /\ \A x \in ESIs : x # e => estado[x] # "CORRIENDO" /\ resultado[x] = "nada"
         /\ \A x \in ESIs : x # e => ise[x] \notin {"ejecuta", "pregunta"} /\ pedido[x] = NoPedido
         /\ ise[e] = "ejecuta" => pedido[e] = NoPedido
<1>1. RUNNING_ESI = e /\ D = "resultado" /\ resultado[e] = "nada" /\ linea[e] <= Len(guion[e])
  BY DEF IInv, TInv, EnTurno
<1>2. estado[e] = "CORRIENDO"
  BY <1>1 DEF IInv, Sentencias
<1>3. \A x \in ESIs : estado[x] = "CORRIENDO" => x = e /\ NEXT_RUNNING_ESI = x
  BY <1>1 DEF IInv, Siguiente
<1>4. instruction_pointer[e] = linea[e]
  BY <1>1 DEF IInv, Punteros, Puntero, Contando
<1>5. guion[e] \in Seq(Sentencia) /\ linea[e] \in Nat \ {0}
  BY GuionAssumption DEF IInv, TInv, TypeOK, TipoClientes
<1>6. \A x \in ESIs : x # e => ise[x] \notin {"ejecuta", "pregunta"} /\ resultado[x] = "nada"
  BY <1>1 DEF IInv, TInv, EnTurno
<1>7. \A x \in ESIs : pedido[x] # NoPedido => ise[x] = "pregunta"
  BY DEF IInv, Turno
<1> QED
  BY <1>1, <1>2, <1>3, <1>4, <1>5, <1>6, <1>7

\* While the dispatcher is not waiting for a sentence nobody has asked for one.
LEMMA FueraDeTurno ==
  ASSUME IInv, D # "resultado"
  PROVE  /\ pc["coordinador"] = "libre"
         /\ \A e \in ESIs : /\ ise[e] \in {"sin_id", "espera", "terminado"}
                            /\ pedido[e] = NoPedido /\ resultado[e] = "nada"
<1>1. \A e \in ESIs : ise[e] \in {"sin_id", "espera", "terminado"} /\ resultado[e] = "nada"
  BY DEF IInv, TInv, TypeOK, TipoClientes, EnTurno
<1>2. \A e \in ESIs : pedido[e] = NoPedido
  BY <1>1 DEF IInv, Turno
<1>3. pc["coordinador"] = "libre"
  BY <1>2 DEF IInv, Turno, NoPedido
<1> QED
  BY <1>1, <1>2, <1>3

\* A sentence that did not block is over: the line goes on and is counted.
LEMMA SigueLaLinea ==
  ASSUME IInv, TInv', NEW e \in ESIs, ise[e] \in {"ejecuta", "pregunta"},
         NEW res \in Resultados, res # "KEY_BLOCKED", RecibeResultado(e, res),
         UNCHANGED <<mapa, listas, turno, esis_bloqueados_por_recurso, guion, conexion>>, D' = D
  PROVE  /\ Listas' /\ Siguiente' /\ Sentencias' /\ Procesos' /\ Punteros'
         /\ \A x \in ESIs, r \in Recursos :
              /\ guion[e][linea[e]] # [op |-> "GET", recurso |-> r]
              /\ Reintenta(x, r)
              => Reintenta(x, r)'
<1>1. /\ RUNNING_ESI = e /\ D = "resultado" /\ resultado[e] = "nada"
      /\ estado[e] = "CORRIENDO" /\ instruction_pointer[e] = linea[e]
      /\ linea[e] \in Nat \ {0} /\ Len(guion[e]) \in Nat /\ linea[e] <= Len(guion[e])
      /\ \A x \in ESIs : x # e => estado[x] # "CORRIENDO"
  BY EnSuTurno
<1>2. /\ ise \in [ESIs -> {"sin_id", "espera", "ejecuta", "pregunta", "terminado"}]
      /\ linea \in [ESIs -> Nat \ {0}] /\ resultado \in [ESIs -> Resultados \cup {"nada"}]
  BY DEF IInv, TInv, TypeOK, TipoClientes
<1>3. /\ resultado'[e] = res /\ linea'[e] = linea[e] + 1
      /\ ise'[e] = IF res \in Errores \/ linea[e] = Len(guion[e]) THEN "terminado" ELSE "espera"
      /\ \A x \in ESIs : x # e =>
           ise'[x] = ise[x] /\ linea'[x] = linea[x] /\ resultado'[x] = resultado[x]
  BY <1>2 DEF RecibeResultado
<1>4. UNCHANGED <<estado, instruction_pointer, blocking_resource, RUNNING_ESI, NEXT_RUNNING_ESI,
                  guion, conexion, D>>
  BY DEF mapa, turno
<1>5. Listas' /\ Siguiente'
  BY ListasStay, SiguienteStay DEF IInv, turno, mapa
<1>6. Sentencias'
  BY <1>1, <1>3, <1>4 DEF Sentencias, Resultados
<1>7. Procesos'
  BY <1>1, <1>3, <1>4 DEF IInv, Procesos, Proceso
<1>8. Punteros'
  <2>1. ASSUME NEW x \in ESIs, ise'[x] # "terminado"
        PROVE  instruction_pointer'[x] = IF Contando(x)' THEN linea'[x] ELSE linea'[x] - 1
    <3>1. CASE x = e
      <4>1. ~Contando(e)'
        BY <1>1, <1>3, <1>4 DEF Contando, Resultados, Errores
      <4> QED
        BY <1>1, <1>3, <1>4, <3>1, <4>1
    <3>2. CASE x # e
      BY <1>1, <1>3, <1>4, <2>1, <3>2 DEF IInv, Punteros, Puntero, Contando
    <3> QED
      BY <3>1, <3>2
  <2>2. ASSUME resultado'[e] \in {"OK", "PARSE_ERROR"}
        PROVE  ise'[e] = "terminado" <=> instruction_pointer'[e] = Len(guion'[e])
    BY <1>1, <1>3, <1>4, <2>2 DEF Errores
  <2> QED
    BY <1>1, <1>4, <2>1, <2>2 DEF Punteros, Puntero
<1>9. ASSUME NEW x \in ESIs, NEW r \in Recursos,
             guion[e][linea[e]] # [op |-> "GET", recurso |-> r], Reintenta(x, r)
      PROVE  Reintenta(x, r)'
  BY <1>3, <1>4, <1>9 DEF Reintenta
<1> QED
  BY <1>5, <1>6, <1>7, <1>8, <1>9

-----------------------------------------------------------------------------
(* The sentences of the turn *)

LEMMA ExecuteSentenceKeeps ==
  ASSUME IInv, TInv', NEW e \in ESIs, ExecuteSentence(e) PROVE IInv'
<1> DEFINE s == guion[e][linea[e]]
<1>1. /\ RUNNING_ESI = e /\ D = "resultado" /\ resultado[e] = "nada" /\ estado[e] = "CORRIENDO"
      /\ pedido[e] = NoPedido /\ ise[e] = "ejecuta"
      /\ \A x \in ESIs : x # e => pedido[x] = NoPedido
  BY EnSuTurno DEF ExecuteSentence
<1>2. UNCHANGED <<mapa, listas, turno, recursos, dispatcher_manager, hilos, conexion, guion>>
  BY DEF ExecuteSentence
<1>3. pc' = pc /\ marco' = marco /\ D' = D /\ estado' = estado
  BY <1>2 DEF hilos, D, mapa
<1>4. Duenos'
  BY <1>2, <1>3 DEF IInv, Duenos, EnMapa, recursos, turno
<1>5. CASE s.op = "INVALIDA"
  <2>1. RecibeResultado(e, "PARSE_ERROR") /\ pedido' = pedido
    BY <1>5 DEF ExecuteSentence
  <2>2. /\ Listas' /\ Siguiente' /\ Sentencias' /\ Procesos' /\ Punteros'
        /\ \A x \in ESIs, r \in Recursos : Reintenta(x, r) => Reintenta(x, r)'
    <3>1. \A r \in Recursos : guion[e][linea[e]] # [op |-> "GET", recurso |-> r]
      BY <1>5
    <3>2. "PARSE_ERROR" \in Resultados
      BY DEF Resultados
    <3>3. UNCHANGED <<mapa, listas, turno, esis_bloqueados_por_recurso, guion, conexion>>
      BY <1>2 DEF recursos
    <3> QED
      BY <1>1, <1>3, <2>1, <3>1, <3>2, <3>3, SigueLaLinea
  <2>3. Turno'
    <3>1. pc["coordinador"] = "libre"
      BY <1>1 DEF IInv, Turno, NoPedido
    <3>2. \A x \in ESIs : pedido'[x] = NoPedido
      BY <1>1, <2>1
    <3> QED
      BY <1>1, <1>2, <1>3, <3>1, <3>2 DEF IInv, Turno, turno
  <2>4. Esperas'
    BY <1>2, <1>3, <2>2, EsperasStay DEF IInv
  <2> QED
    BY <1>4, <2>2, <2>3, <2>4 DEF IInv, SinUsuarios
<1>6. CASE s.op # "INVALIDA"
  <2>1. /\ pedido' = [pedido EXCEPT ![e] = s] /\ ise' = [ise EXCEPT ![e] = "pregunta"]
        /\ UNCHANGED <<linea, resultado>>
    BY <1>6 DEF ExecuteSentence
  <2>2. /\ pedido'[e] = s /\ ise'[e] = "pregunta"
        /\ \A x \in ESIs : x # e => ise'[x] = ise[x] /\ pedido'[x] = pedido[x]
    BY <2>1 DEF IInv, TInv, TypeOK, TipoClientes
  <2>3. Listas' /\ Siguiente'
    BY <1>2, ListasStay, SiguienteStay DEF IInv, turno, mapa, recursos
  <2>4. Turno'
    <3>1. pc["coordinador"] = "libre"
      BY <1>1 DEF IInv, Turno, NoPedido
    <3>2. \A x \in ESIs : pedido'[x] # NoPedido => ise'[x] = "pregunta"
      BY <1>1, <2>2
    <3> QED
      BY <1>1, <1>2, <1>3, <3>1, <3>2 DEF IInv, Turno, turno
  <2>5. Sentencias'
    BY <1>1, <1>2, <1>3, <2>1, <2>2 DEF Sentencias, turno
  <2>6. Procesos'
    BY <1>1, <1>2, <1>3, <2>1, <2>2 DEF IInv, Procesos, Proceso, mapa, turno
  <2>7. Punteros'
    BY <1>1, <1>2, <1>3, <2>1, <2>2 DEF IInv, Punteros, Puntero, Contando, mapa, turno
  <2>8. \A x \in ESIs, r \in Recursos : Reintenta(x, r) => Reintenta(x, r)'
    BY <1>1, <1>2, <1>3, <2>1, <2>2 DEF Reintenta
  <2>9. Esperas'
    BY <1>2, <1>3, <2>8, EsperasStay DEF IInv
  <2> QED
    BY <1>4, <2>3, <2>4, <2>5, <2>6, <2>7, <2>9 DEF IInv, SinUsuarios
<1> QED
  BY <1>5, <1>6

\* An answer that did not block, to the one that asked.
LEMMA RespondeSigue ==
  ASSUME IInv, TInv', NEW e \in ESIs, pedido[e] # NoPedido,
         NEW res \in Resultados, res # "KEY_BLOCKED", Responde(e, res),
         UNCHANGED <<mapa, listas, turno, esis_bloqueados_por_recurso, conexion>>, D' = D
  PROVE  /\ Listas' /\ Siguiente' /\ Sentencias' /\ Procesos' /\ Punteros'
         /\ \A x \in ESIs : pedido'[x] = NoPedido
         /\ RUNNING_ESI = e /\ D = "resultado" /\ estado[e] = "CORRIENDO"
         /\ \A x \in ESIs, r \in Recursos :
              /\ guion[e][linea[e]] # [op |-> "GET", recurso |-> r]
              /\ Reintenta(x, r)
              => Reintenta(x, r)'
<1>1. ise[e] = "pregunta"
  BY DEF IInv, Turno
<1>2. RecibeResultado(e, res) /\ guion' = guion /\ pedido' = [pedido EXCEPT ![e] = NoPedido]
  BY <1>1 DEF Responde
<1>3. /\ RUNNING_ESI = e /\ D = "resultado" /\ estado[e] = "CORRIENDO"
      /\ \A x \in ESIs : x # e => pedido[x] = NoPedido
  BY <1>1, EnSuTurno
<1>4. \A x \in ESIs : pedido'[x] = NoPedido
  BY <1>2, <1>3 DEF IInv, TInv, TypeOK, TipoClientes
<1> QED
  BY <1>1, <1>2, <1>3, <1>4, SigueLaLinea

LEMMA SetSentenceKeeps == ASSUME IInv, TInv', NEW e \in ESIs, SetSentence(e), ~Muere PROVE IInv'
<1>1. PICK res \in Resultados \ {"KEY_BLOCKED"} : Responde(e, res)
  BY DEF SetSentence, Concedido, Resultados, Errores
<1>2. /\ UNCHANGED <<mapa, listas, turno, recursos, dispatcher_manager, hilos, conexion>>
      /\ pc["coordinador"] = "libre" /\ pedido[e].op = "SET" /\ pedido[e] # NoPedido
  BY DEF SetSentence, NoPedido
<1>3. pc' = pc /\ marco' = marco /\ D' = D /\ estado' = estado
  BY <1>2 DEF hilos, D, mapa
<1>4. /\ Listas' /\ Siguiente' /\ Sentencias' /\ Procesos' /\ Punteros'
      /\ \A x \in ESIs : pedido'[x] = NoPedido
      /\ RUNNING_ESI = e /\ D = "resultado"
  BY <1>1, <1>2, <1>3, RespondeSigue DEF recursos
<1>5. \A r \in Recursos : guion[e][linea[e]] # [op |-> "GET", recurso |-> r]
  <2>1. ise[e] = "pregunta"
    BY <1>2 DEF IInv, Turno
  <2>2. guion[e][linea[e]].op = "SET"
    BY <1>2, <1>4, <2>1 DEF IInv, Sentencias, TInv, EnTurno
  <2> QED
    BY <2>2
<1>6. \A x \in ESIs, r \in Recursos : Reintenta(x, r) => Reintenta(x, r)'
  BY <1>1, <1>2, <1>3, <1>5, RespondeSigue DEF recursos
<1>7. Turno'
  BY <1>2, <1>3, <1>4 DEF IInv, Turno, turno
<1>8. Duenos'
  BY <1>2, <1>3 DEF IInv, Duenos, EnMapa, recursos, turno
<1>9. Esperas'
  BY <1>2, <1>3, <1>6, EsperasStay DEF IInv
<1> QED
  BY <1>4, <1>7, <1>8, <1>9 DEF IInv, SinUsuarios

LEMMA StoreSentenceKeeps == ASSUME IInv, TInv', NEW e \in ESIs, StoreSentence(e) PROVE IInv'
<1>1. /\ pedido[e].op = "STORE" /\ pedido[e] # NoPedido /\ pc["coordinador"] = "libre"
      /\ pc' = [pc EXCEPT !["coordinador"] = "liberar"]
      /\ marco' = [marco EXCEPT !["coordinador"].recursos = {pedido[e].recurso}]
      /\ pedido' = [pedido EXCEPT ![e].op = "STORE_EN_CURSO"]
      /\ UNCHANGED <<mapa, listas, turno, recursos, dispatcher_manager, conexion, ise, guion,
                     linea, resultado>>
  BY DEF StoreSentence, NoPedido
<1>2. ise[e] = "pregunta"
  BY <1>1 DEF IInv, Turno
<1>3. /\ RUNNING_ESI = e /\ D = "resultado" /\ estado[e] = "CORRIENDO"
      /\ \A x \in ESIs : x # e => pedido[x] = NoPedido
  BY <1>2, EnSuTurno
<1>4. pedido'[e].op = "STORE_EN_CURSO" /\ pedido'[e].recurso = pedido[e].recurso
      /\ \A x \in ESIs : x # e => pedido'[x] = pedido[x]
  BY <1>1 DEF IInv, TInv, TypeOK, TipoClientes
<1>5. /\ D' = D /\ pc'["consola"] = pc["consola"] /\ pc'["coordinador"] = "liberar"
      /\ marco'["despachador"] = marco["despachador"] /\ marco'["coordinador"].esi = marco["coordinador"].esi
  <2>1. marco \in [Hilos -> Marco]
    BY DEF IInv, TInv, TypeOK, TipoHilos, Marco
  <2>2. marco'["despachador"] = marco["despachador"] /\ marco'["coordinador"].esi = marco["coordinador"].esi
    BY <1>1, <2>1 DEF Marco, Hilos
  <2> QED
    BY <1>1, <2>2, Lugar DEF IInv, TInv, D, Hilos
<1>6. Listas' /\ Siguiente'
  BY <1>1, ListasStay, SiguienteStay DEF IInv, turno, mapa, recursos
<1>7. Turno'
  BY <1>1, <1>2, <1>3, <1>4, <1>5 DEF IInv, Turno, turno
<1>8. Sentencias'
  BY <1>1, <1>2, <1>3, <1>4, <1>5 DEF IInv, Sentencias, mapa, turno, TInv, EnTurno
<1>9. Procesos' /\ Punteros'
  BY <1>1, <1>5 DEF IInv, Procesos, Proceso, Punteros, Puntero, Contando, mapa, turno
<1>10. Duenos'
  BY <1>1, <1>5 DEF IInv, Duenos, EnMapa, recursos, turno, mapa
<1>11. \A x \in ESIs, r \in Recursos : Reintenta(x, r) => Reintenta(x, r)'
  BY <1>1 DEF Reintenta, mapa
<1>12. Esperas'
  BY <1>1, <1>5, <1>11 DEF IInv, Esperas, Despertado, recursos, D
<1> QED
  BY <1>6, <1>7, <1>8, <1>9, <1>10, <1>12 DEF IInv, SinUsuarios

LEMMA StoreSentenceRespondeKeeps ==
  ASSUME IInv, TInv', NEW e \in ESIs, StoreSentenceResponde(e) PROVE IInv'
<1>1. PICK res \in Resultados \ {"KEY_BLOCKED"} : Responde(e, res)
  BY DEF StoreSentenceResponde, Concedido, Resultados, Errores
<1>2. /\ UNCHANGED <<mapa, listas, turno, recursos, dispatcher_manager, conexion>>
      /\ pedido[e].op = "STORE_EN_CURSO" /\ pedido[e] # NoPedido
      /\ pc' = [pc EXCEPT !["coordinador"] = "libre"]
      /\ marco' = [marco EXCEPT !["coordinador"] = SinMarco]
  BY DEF StoreSentenceResponde, NoPedido
<1>3. /\ D' = D /\ pc'["consola"] = pc["consola"] /\ pc'["coordinador"] = "libre"
      /\ marco'["despachador"] = marco["despachador"] /\ marco'["coordinador"].esi = Ninguno
      /\ estado' = estado
  BY <1>2, Lugar, CambiaMarco, SinMarcoTipo DEF IInv, TInv, D, Hilos, SinMarco, mapa
<1>4. /\ Listas' /\ Siguiente' /\ Sentencias' /\ Procesos' /\ Punteros'
      /\ \A x \in ESIs : pedido'[x] = NoPedido
      /\ RUNNING_ESI = e /\ D = "resultado"
  BY <1>1, <1>2, <1>3, RespondeSigue DEF recursos
<1>5. \A r \in Recursos : guion[e][linea[e]] # [op |-> "GET", recurso |-> r]
  <2>1. ise[e] = "pregunta"
    BY <1>2 DEF IInv, Turno
  <2>2. guion[e][linea[e]].op # "GET"
    BY <1>2, <1>4, <2>1 DEF IInv, Sentencias, TInv, EnTurno
  <2> QED
    BY <2>2
<1>6. \A x \in ESIs, r \in Recursos : Reintenta(x, r) => Reintenta(x, r)'
  BY <1>1, <1>2, <1>3, <1>5, RespondeSigue DEF recursos
<1>7. Turno'
  BY <1>2, <1>3, <1>4 DEF IInv, Turno, turno
<1>8. Duenos'
  BY <1>2, <1>3 DEF IInv, Duenos, EnMapa, recursos, turno
<1>9. Esperas'
  BY <1>2, <1>3, <1>6 DEF IInv, Esperas, Despertado, recursos, D
<1> QED
  BY <1>4, <1>7, <1>8, <1>9 DEF IInv, SinUsuarios

\* GET of a resource that nobody else has.
LEMMA GetConcedidoKeeps ==
  ASSUME IInv, TInv', NEW e \in ESIs, GetSentence(e), ~ResourceTaken(pedido[e].recurso, e)
  PROVE  IInv'
<1> DEFINE r == pedido[e].recurso
<1>1. /\ recurso_tomado_por_esi' = [recurso_tomado_por_esi EXCEPT ![r] = e]
      /\ Responde(e, "OK")
      /\ UNCHANGED <<mapa, listas, turno, esis_bloqueados_por_recurso,
                     dispatcher_manager, hilos, conexion>>
      /\ pedido[e].op = "GET" /\ pedido[e] # NoPedido /\ pc["coordinador"] = "libre"
  BY DEF GetSentence, NoPedido
<1>2. pc' = pc /\ marco' = marco /\ D' = D /\ estado' = estado
  BY <1>1 DEF hilos, D, mapa
<1>3. /\ Listas' /\ Siguiente' /\ Sentencias' /\ Procesos' /\ Punteros'
      /\ \A x \in ESIs : pedido'[x] = NoPedido
      /\ RUNNING_ESI = e /\ D = "resultado" /\ estado[e] = "CORRIENDO"
      /\ \A x \in ESIs, y \in Recursos :
           guion[e][linea[e]] # [op |-> "GET", recurso |-> y] /\ Reintenta(x, y) => Reintenta(x, y)'
  BY <1>1, <1>2, RespondeSigue DEF Resultados
<1>4. r \in Recursos /\ guion[e][linea[e]].recurso = r
  <2>1. ise[e] = "pregunta"
    BY <1>1 DEF IInv, Turno
  <2> QED
    BY <1>1, <1>3, <2>1 DEF IInv, Sentencias, TInv, EnTurno
<1>5. /\ recurso_tomado_por_esi'[r] = e /\ e # Nadie
      /\ \A y \in Recursos : y # r => recurso_tomado_por_esi'[y] = recurso_tomado_por_esi[y]
  BY <1>1, <1>4, IdAssumption DEF IInv, TInv, TypeOK, TipoRecursos
<1>6. Turno'
  BY <1>1, <1>2, <1>3 DEF IInv, Turno, turno
<1>7. Duenos'
  BY <1>1, <1>2, <1>3, <1>5 DEF IInv, Duenos, EnMapa, turno
<1>8. Esperas'
  <2>1. \A x \in ESIs, y \in Recursos : y # r /\ Reintenta(x, y) => Reintenta(x, y)'
    <3>1. \A y \in Recursos : y # r => guion[e][linea[e]] # [op |-> "GET", recurso |-> y]
      BY <1>4
    <3> QED
      BY <1>3, <3>1
  <2>2. \A y \in Recursos : y # r /\ Despertado(y) => Despertado(y)'
    BY <2>1 DEF Despertado
  <2>3. pc'["despachador"] # "quitar" /\ pc'["coordinador"] # "quitar"
    BY <1>1, <1>2, <1>3 DEF D
  <2>4. \A y \in Recursos : esis_bloqueados_por_recurso'[y] # << >> =>
          recurso_tomado_por_esi'[y] # Nadie \/ Despertado(y)'
    BY <1>1, <1>5, <2>2 DEF IInv, Esperas
  <2> QED
    BY <2>3, <2>4 DEF Esperas
<1> QED
  BY <1>3, <1>6, <1>7, <1>8 DEF IInv, SinUsuarios

\* GET of a resource that another has: block_esi_by_resource of the running ESI.
LEMMA GetBloqueadoKeeps ==
  ASSUME IInv, TInv', NEW e \in ESIs, NEW r, r = pedido[e].recurso,
         GetSentence(e), ResourceTaken(r, e), ~Muere
  PROVE  IInv'
<1> DEFINE q == esis_bloqueados_por_recurso
<1>1. /\ BlockEsiByResource(e, r) /\ Responde(e, "KEY_BLOCKED")
      /\ UNCHANGED <<instruction_pointer, FINISHED_ESI_LIST, RUNNING_ESI,
                     recurso_tomado_por_esi, dispatcher_manager, hilos, conexion>>
      /\ pedido[e].op = "GET" /\ pedido[e] # NoPedido /\ pc["coordinador"] = "libre"
  BY DEF GetSentence, NoPedido
<1>2. ise[e] = "pregunta"
  BY <1>1 DEF IInv, Turno
<1>3. /\ RUNNING_ESI = e /\ D = "resultado" /\ resultado[e] = "nada"
      /\ estado[e] = "CORRIENDO" /\ NEXT_RUNNING_ESI = e /\ instruction_pointer[e] = linea[e]
      /\ \A x \in ESIs : x # e => estado[x] # "CORRIENDO" /\ pedido[x] = NoPedido
  BY <1>2, EnSuTurno
<1>4. /\ r \in Recursos /\ guion[e][linea[e]] \in Sentencia
      /\ guion[e][linea[e]].op = "GET" /\ guion[e][linea[e]].recurso = r
  BY <1>1, <1>2, <1>3, LineaDelGuion DEF IInv, Sentencias, TInv, EnTurno
<1>5. guion[e][linea[e]] = [op |-> "GET", recurso |-> r]
  BY <1>4 DEF Sentencia
<1>6. pc' = pc /\ marco' = marco /\ D' = D
  BY <1>1 DEF hilos, D
<1>7. /\ guion' = guion /\ linea' = linea
      /\ resultado'[e] = "KEY_BLOCKED" /\ ise'[e] = "espera"
      /\ \A x \in ESIs : x # e => ise'[x] = ise[x] /\ resultado'[x] = resultado[x]
      /\ \A x \in ESIs : pedido'[x] = NoPedido
  <2>1. RecibeResultado(e, "KEY_BLOCKED") /\ pedido' = [pedido EXCEPT ![e] = NoPedido]
        /\ guion' = guion
    BY <1>1, <1>2 DEF Responde
  <2>2. linea' = linea
    BY <2>1 DEF RecibeResultado, IInv, TInv, TypeOK, TipoClientes
  <2> QED
    BY <1>3, <2>1, <2>2 DEF RecibeResultado, Errores, IInv, TInv, TypeOK, TipoClientes
<1>8. /\ estado'[e] = "BLOQUEADO" /\ \A x \in ESIs : x # e => estado'[x] = estado[x]
      /\ blocking_resource'[e] = r
      /\ \A x \in ESIs : x # e => blocking_resource'[x] = blocking_resource[x]
      /\ ReplanificaCon(RemoveFirst(READY_ESI_LIST, e))
      /\ BLOCKED_ESI_LIST' = Append(BLOCKED_ESI_LIST, e)
      /\ q'[r] = Append(q[r], e) /\ \A y \in Recursos : y # r => q'[y] = q[y]
  BY <1>1, <1>3, <1>4 DEF BlockEsiByResource, CambiarRecursoQueLoBloquea,
     IInv, TInv, TypeOK, TipoMapa, TipoRecursos
<1> DEFINE listos == RemoveFirst(READY_ESI_LIST, e)
           n == Replan(listos).next
<1>9. /\ NEXT_RUNNING_ESI' = n /\ n \in Listos \cup {Ninguno} /\ n # e
      /\ En(READY_ESI_LIST', Listos \ {n})
  <2>1. En(listos, Listos \ {e}) /\ Listos \ {e} = Listos /\ Ninguno \notin ESIs
    BY <1>3, EnRemove, IdAssumption DEF IInv, Listas, Listos
  <2>2. e \notin Listos /\ e # Ninguno
    BY <1>3, <2>1 DEF Listos
  <2> HIDE DEF listos
  <2> QED
    BY <1>8, <2>1, <2>2, EnReplan DEF ReplanificaCon, listos
<1>10. Listas'
  <2>1. Listos' = Listos \ {n}
    BY <1>3, <1>8, <1>9 DEF Listos
  <2>2. En(READY_ESI_LIST', Listos')
    BY <1>9, <2>1
  <2>3. En(BLOCKED_ESI_LIST', ConEstado("BLOQUEADO")')
    <3>1. ConEstado("BLOQUEADO")' = ConEstado("BLOQUEADO") \cup {e} /\ e \notin ConEstado("BLOQUEADO")
      BY <1>3, <1>8 DEF ConEstado
    <3> QED
      BY <1>8, <3>1, EnAppend DEF IInv, Listas
  <2>4. En(FINISHED_ESI_LIST', ConEstado("FINALIZADO")')
    <3>1. ConEstado("FINALIZADO")' = ConEstado("FINALIZADO")
      BY <1>3, <1>8 DEF ConEstado
    <3> QED
      BY <1>1, <3>1 DEF IInv, Listas
  <2>5. ASSUME NEW y \in Recursos PROVE En(q'[y], Esperan(y)')
    <3>1. CASE y = r
      <4>1. Esperan(r)' = Esperan(r) \cup {e} /\ e \notin Esperan(r)
        BY <1>3, <1>8 DEF Esperan
      <4>2. En(q[r], Esperan(r))
        BY <1>4 DEF IInv, Listas
      <4>3. En(Append(q[r], e), Esperan(r) \cup {e})
        BY <4>1, <4>2, EnAppend
      <4> QED
        BY <1>8, <3>1, <4>1, <4>3
    <3>2. CASE y # r
      <4>1. Esperan(y)' = Esperan(y)
        BY <1>3, <1>8, <3>2 DEF Esperan
      <4> QED
        BY <1>8, <3>2, <4>1 DEF IInv, Listas
    <3> QED
      BY <3>1, <3>2
  <2> QED
    BY <2>2, <2>3, <2>4, <2>5 DEF Listas
<1> HIDE DEF n, listos
<1>11. Siguiente'
  BY <1>1, <1>3, <1>8, <1>9, IdAssumption DEF Siguiente, Listos
<1>12. Turno'
  BY <1>1, <1>3, <1>6, <1>7 DEF IInv, Turno
<1>13. Sentencias'
  BY <1>1, <1>3, <1>7, <1>8 DEF Sentencias, Errores
<1>14. Procesos'
  <2>1. /\ conexion'[e] = "nueva" <=> estado'[e] = "ausente"
        /\ guion'[e][linea'[e]] = [op |-> "GET", recurso |-> blocking_resource'[e]]
    BY <1>1, <1>3, <1>5, <1>7, <1>8 DEF IInv, Procesos, Proceso
  <2>2. RUNNING_ESI' = RUNNING_ESI /\ D' = D
    BY <1>1, <1>6
  <2>3. Proceso(e)'
    BY <1>4, <1>7, <1>8, <2>1 DEF Proceso
  <2>4. ASSUME NEW x \in ESIs, x # e PROVE Proceso(x)'
    BY <1>1, <1>7, <1>8, <2>2, <2>4 DEF IInv, Procesos, Proceso
  <2> QED
    BY <2>3, <2>4 DEF Procesos
<1>15. Punteros'
  BY <1>1, <1>3, <1>6, <1>7, <1>8 DEF IInv, Punteros, Puntero, Contando
<1>16. Duenos'
  BY <1>1, <1>3, <1>6, <1>8 DEF IInv, Duenos, EnMapa
<1>17. Esperas'
  <2>1. recurso_tomado_por_esi[r] # Nadie
    BY DEF ResourceTaken
  <2>2. \A x \in ESIs, y \in Recursos : y # r /\ Reintenta(x, y) => Reintenta(x, y)'
    BY <1>5, <1>7, <1>8 DEF Reintenta
  <2>3. \A y \in Recursos : y # r /\ Despertado(y) => Despertado(y)'
    BY <2>2 DEF Despertado
  <2>4. pc'["despachador"] # "quitar" /\ pc'["coordinador"] # "quitar"
    BY <1>1, <1>3, <1>6 DEF D
  <2>5. \A y \in Recursos : q'[y] # << >> => recurso_tomado_por_esi'[y] # Nadie \/ Despertado(y)'
    BY <1>1, <1>8, <2>1, <2>3 DEF IInv, Esperas
  <2> QED
    BY <2>4, <2>5 DEF Esperas
<1> QED
  BY <1>10, <1>11, <1>12, <1>13, <1>14, <1>15, <1>16, <1>17 DEF IInv, SinUsuarios

-----------------------------------------------------------------------------
(* The connections *)

LEMMA NewEsiKeeps == ASSUME IInv, TInv', NEW e \in ESIs, NewEsi(e) PROVE IInv'
<1>1. /\ conexion[e] = "nueva" /\ estado' = [estado EXCEPT ![e] = "NUEVO"]
      /\ READY_ESI_LIST' = Append(READY_ESI_LIST, e)
      /\ conexion' = [conexion EXCEPT ![e] = "agregado"]
      /\ UNCHANGED <<instruction_pointer, blocking_resource, BLOCKED_ESI_LIST, FINISHED_ESI_LIST,
                     RUNNING_ESI, NEXT_RUNNING_ESI, recursos, pc, marco, clientes>>
  BY DEF NewEsi, turno, hilos
<1>2. estado[e] = "ausente" /\ ise[e] = "sin_id"
  BY <1>1 DEF IInv, Procesos, Proceso
<1>3. /\ estado'[e] = "NUEVO" /\ \A x \in ESIs : x # e => estado'[x] = estado[x]
      /\ conexion'[e] = "agregado" /\ \A x \in ESIs : x # e => conexion'[x] = conexion[x]
  BY <1>1 DEF IInv, TInv, TypeOK, TipoMapa, TipoHilos
<1>4. D' = D
  BY <1>1 DEF D
<1>5. NEXT_RUNNING_ESI # e
  BY <1>2, IdAssumption DEF IInv, Siguiente
<1>6. D \in {"resultado", "cerrar", "finish", "liberar", "quitar", "terminar"} => RUNNING_ESI # e
  BY <1>2 DEF IInv, Turno, Sentencias
<1>7. Listas'
  <2>1. Listos' = Listos \cup {e} /\ e \notin Listos
    BY <1>1, <1>2, <1>3, <1>5 DEF Listos
  <2>2. En(READY_ESI_LIST', Listos')
    BY <1>1, <2>1, EnAppend DEF IInv, Listas
  <2>3. /\ ConEstado("BLOQUEADO")' = ConEstado("BLOQUEADO")
        /\ ConEstado("FINALIZADO")' = ConEstado("FINALIZADO")
        /\ \A r \in Recursos : Esperan(r)' = Esperan(r)
    BY <1>1, <1>2, <1>3 DEF ConEstado, Esperan
  <2> QED
    BY <1>1, <2>2, <2>3 DEF IInv, Listas, recursos
<1>8. Siguiente'
  BY <1>1, <1>2, <1>3, <1>5, IdAssumption DEF IInv, Siguiente, TInv, TypeOK, TipoListas
<1>9. Turno'
  BY <1>1, <1>3, <1>4, <1>6 DEF IInv, Turno, clientes
<1>10. Sentencias'
  BY <1>1, <1>3, <1>4, <1>6 DEF IInv, Sentencias, Turno, clientes
<1>11. Procesos'
  BY <1>1, <1>2, <1>3, <1>4 DEF IInv, Procesos, Proceso, clientes
<1>12. Punteros'
  BY <1>1, <1>2, <1>3, <1>4, <1>6 DEF IInv, Punteros, Puntero, Contando, clientes
<1>13. Duenos'
  BY <1>1, <1>2, <1>3, <1>4 DEF IInv, Duenos, EnMapa, recursos
<1>14. \A x \in ESIs, r \in Recursos : Reintenta(x, r) => Reintenta(x, r)'
  BY <1>1, <1>2, <1>3 DEF Reintenta, clientes
<1>15. Esperas'
  BY <1>1, <1>14, EsperasStay DEF IInv
<1> QED
  BY <1>7, <1>8, <1>9, <1>10, <1>11, <1>12, <1>13, <1>15 DEF IInv, SinUsuarios

LEMMA SendIdToEsiKeeps == ASSUME IInv, TInv', NEW e \in ESIs, SendIdToEsi(e) PROVE IInv'
<1>1. /\ UNCHANGED <<mapa, listas, turno, recursos, dispatcher_manager, pc, marco, guion, linea,
                     pedido, resultado>>
      /\ ise' = [ise EXCEPT ![e] = IF @ = "sin_id" THEN "espera" ELSE @]
      /\ conexion[e] = "agregado"
  BY DEF SendIdToEsi, hilos
<1>2. /\ \A x \in ESIs : ise'[x] = ise[x] \/ (x = e /\ ise[x] = "sin_id" /\ ise'[x] = "espera")
      /\ ise'[e] # "sin_id"
      /\ \A x \in ESIs : conexion'[x] = "nueva" <=> conexion[x] = "nueva"
  BY <1>1 DEF IInv, TInv, TypeOK, TipoClientes, TipoHilos, SendIdToEsi
<1>3. D' = D /\ estado' = estado
  BY <1>1 DEF D, mapa
<1>4. Listas' /\ Siguiente'
  BY <1>1, ListasStay, SiguienteStay DEF IInv, turno, mapa, recursos
<1>5. D = "resultado" => ise[RUNNING_ESI] # "sin_id"
  BY DEF IInv, Sentencias
<1>6. Turno'
  BY <1>1, <1>2, <1>3 DEF IInv, Turno, turno
<1>7. Sentencias'
  BY <1>1, <1>2, <1>3, <1>5 DEF IInv, Sentencias, Turno, turno
<1>8. Procesos'
  BY <1>1, <1>2, <1>3 DEF IInv, Procesos, Proceso, mapa, turno
<1>9. Punteros'
  BY <1>1, <1>2, <1>3 DEF IInv, Punteros, Puntero, Contando, mapa, turno
<1>10. Duenos'
  BY <1>1, <1>3 DEF IInv, Duenos, EnMapa, recursos, turno
<1>11. \A x \in ESIs, r \in Recursos : Reintenta(x, r) => Reintenta(x, r)'
  BY <1>1, <1>2, <1>3 DEF Reintenta
<1>12. Esperas'
  BY <1>1, <1>11, EsperasStay DEF IInv
<1> QED
  BY <1>4, <1>6, <1>7, <1>8, <1>9, <1>10, <1>12 DEF IInv, SinUsuarios

LEMMA NotificaNuevoKeeps == ASSUME IInv, TInv', NEW e \in ESIs, NotificaNuevo(e) PROVE IInv'
<1>1. /\ UNCHANGED <<mapa, listas, turno, recursos, pc, marco, clientes>>
      /\ \A x \in ESIs : conexion'[x] = "nueva" <=> conexion[x] = "nueva"
  BY DEF NotificaNuevo, hilos, IInv, TInv, TypeOK, TipoHilos
<1>2. D' = D
  BY <1>1 DEF D
<1>3. Listas' /\ Siguiente'
  BY <1>1, ListasStay, SiguienteStay DEF IInv, turno, mapa, recursos
<1>4. Turno' /\ Sentencias'
  BY <1>1, <1>2 DEF IInv, Turno, Sentencias, turno, mapa, clientes
<1>5. Procesos' /\ Punteros'
  BY <1>1, <1>2 DEF IInv, Procesos, Proceso, Punteros, Puntero, Contando, turno, mapa, clientes
<1>6. Duenos'
  BY <1>1, <1>2 DEF IInv, Duenos, EnMapa, recursos, turno, mapa
<1>7. Esperas'
  BY <1>1, EsperasStay DEF IInv, Reintenta, mapa, clientes
<1> QED
  BY <1>3, <1>4, <1>5, <1>6, <1>7 DEF IInv, SinUsuarios

-----------------------------------------------------------------------------
(* The turn of the dispatcher *)

\* A step in which only the dispatcher moves, away from any sentence.
LEMMA SoloElDespachador ==
  ASSUME IInv, D \notin {"resultado", "cerrar", "finish"}, NEW l,
         l \notin {"resultado", "cerrar", "finish"}, D' = l,
         UNCHANGED <<mapa, clientes, conexion>>, pc'["coordinador"] = pc["coordinador"]
  PROVE  Sentencias' /\ Procesos' /\ Punteros'
<1>1. Sentencias'
  BY DEF Sentencias
<1>2. UNCHANGED <<estado, instruction_pointer, blocking_resource, ise, guion, linea, conexion>>
  BY DEF mapa, clientes
<1>3. Procesos'
  BY <1>2 DEF IInv, Procesos, Proceso
<1>4. Punteros'
  BY <1>2 DEF IInv, Punteros, Puntero, Contando
<1> QED
  BY <1>1, <1>3, <1>4

LEMMA AcquireDispatcherKeeps == ASSUME IInv, TInv', AcquireDispatcher PROVE IInv'
<1>1. /\ D = "adquirir" /\ pc' = [pc EXCEPT !["despachador"] = "elegir"]
      /\ UNCHANGED <<mapa, listas, turno, recursos, marco, conexion, clientes>>
  BY DEF AcquireDispatcher, Despachador, DespachadorVa, D
<1>2. /\ D' = "elegir" /\ pc'["coordinador"] = pc["coordinador"]
      /\ pc'["consola"] = pc["consola"]
  BY <1>1, Lugar DEF IInv, TInv, D, Hilos
<1>3. Listas' /\ Siguiente'
  BY <1>1, ListasStay, SiguienteStay DEF IInv, turno, mapa, recursos
<1>4. Turno'
  BY <1>1, <1>2 DEF IInv, Turno, clientes
<1>5. Sentencias' /\ Procesos' /\ Punteros'
  BY <1>1, <1>2, SoloElDespachador
<1>6. Duenos'
  BY <1>1, <1>2 DEF IInv, Duenos, EnMapa, recursos, turno, mapa
<1>7. \A x \in ESIs, r \in Recursos : Reintenta(x, r) => Reintenta(x, r)'
  BY <1>1 DEF Reintenta, mapa, clientes
<1>8. Esperas'
  BY <1>1, <1>2, <1>7, EsperasStay DEF IInv, D
<1> QED
  BY <1>3, <1>4, <1>5, <1>6, <1>8 DEF IInv, SinUsuarios

LEMMA DespachaKeeps == ASSUME IInv, TInv', Despacha, ~Muere PROVE IInv'
<1> DEFINE plan == IF RUNNING_ESI = Ninguno THEN Replan(READY_ESI_LIST)
                   ELSE [next |-> NEXT_RUNNING_ESI, listos |-> READY_ESI_LIST]
<1>1. PICK e \in ESIs :
        /\ e = plan.next
        /\ NEXT_RUNNING_ESI' = e /\ RUNNING_ESI' = e /\ READY_ESI_LIST' = plan.listos
        /\ estado' = [estado EXCEPT ![e] = "CORRIENDO"]
        /\ instruction_pointer' = [instruction_pointer EXCEPT ![e] = @ + 1]
        /\ IseExecute(e) /\ DespachadorVa("resultado") /\ D = "elegir"
        /\ UNCHANGED <<blocking_resource, BLOCKED_ESI_LIST, FINISHED_ESI_LIST, recursos,
                       conexion, guion, linea, pedido, resultado>>
  BY DEF Despacha, Despachador, D, EnMapa
<1>2. /\ e \in Listos \/ (e = NEXT_RUNNING_ESI /\ e # Ninguno)
      /\ En(READY_ESI_LIST', Listos \ {e})
  <2>1. CASE RUNNING_ESI = Ninguno
    <3>1. plan = Replan(READY_ESI_LIST) /\ e # Ninguno /\ Ninguno \notin ESIs
      BY <2>1, IdAssumption
    <3> HIDE DEF plan
    <3> QED
      BY <1>1, <3>1, EnReplan DEF IInv, Listas
  <2>2. CASE RUNNING_ESI # Ninguno
    <3>1. e = NEXT_RUNNING_ESI /\ READY_ESI_LIST' = READY_ESI_LIST /\ e # Ninguno
      BY <1>1, <2>2, IdAssumption
    <3>2. Listos \ {e} = Listos
      BY <3>1 DEF Listos
    <3> QED
      BY <3>1, <3>2 DEF IInv, Listas
  <2> QED
    BY <2>1, <2>2
<1> HIDE DEF plan
<1>3. /\ estado[e] \in {"NUEVO", "DESBLOQUEADO", "CORRIENDO"}
      /\ \A x \in ESIs : x # e => estado[x] # "CORRIENDO"
  <2>1. estado[e] \in {"NUEVO", "DESBLOQUEADO", "CORRIENDO"}
    BY <1>2 DEF IInv, Listos, Siguiente
  <2>2. ASSUME NEW x \in ESIs, estado[x] = "CORRIENDO" PROVE x = e
    <3>1. RUNNING_ESI = x /\ NEXT_RUNNING_ESI = x /\ x # Ninguno
      BY <2>2, IdAssumption DEF IInv, Siguiente
    <3> QED
      BY <1>1, <3>1 DEF plan
  <2> QED
    BY <2>1, <2>2
<1>4. /\ pc["coordinador"] = "libre"
      /\ \A x \in ESIs : /\ ise[x] \in {"sin_id", "espera", "terminado"}
                         /\ pedido[x] = NoPedido /\ resultado[x] = "nada"
  BY <1>1, FueraDeTurno
<1>5. ise[e] \in {"sin_id", "espera"} /\ (ise[e] = "sin_id" => estado[e] = "NUEVO")
  BY <1>1, <1>3, <1>4 DEF IInv, Procesos, Proceso
<1>6. /\ estado'[e] = "CORRIENDO" /\ \A x \in ESIs : x # e => estado'[x] = estado[x]
      /\ instruction_pointer'[e] = instruction_pointer[e] + 1
      /\ \A x \in ESIs : x # e => instruction_pointer'[x] = instruction_pointer[x]
  BY <1>1 DEF IInv, TInv, TypeOK, TipoMapa
<1>7. /\ ise'[e] = IF ise[e] = "espera" THEN "ejecuta" ELSE "terminado"
      /\ \A x \in ESIs : x # e => ise'[x] = ise[x]
  BY <1>1, <1>5 DEF IseExecute, IInv, TInv, TypeOK, TipoClientes
<1>8. /\ D' = "resultado" /\ pc'["coordinador"] = pc["coordinador"]
      /\ pc'["consola"] = pc["consola"] /\ marco' = marco
  BY <1>1, Lugar DEF DespachadorVa, IInv, TInv, D, Hilos
<1>9. Listas'
  <2>1. Listos' = Listos \ {e}
    <3>1. \A x \in ESIs : x # e /\ x = NEXT_RUNNING_ESI => x \notin Listos'
      <4>1. NEXT_RUNNING_ESI \in ESIs /\ RUNNING_ESI = Ninguno => FALSE
        BY IdAssumption DEF IInv, Siguiente
      <4>2. RUNNING_ESI # Ninguno => e = NEXT_RUNNING_ESI
        BY <1>1 DEF plan
      <4> QED
        BY <4>1, <4>2
    <3> QED
      BY <1>1, <1>6, <3>1 DEF Listos
  <2>2. /\ ConEstado("BLOQUEADO")' = ConEstado("BLOQUEADO")
        /\ ConEstado("FINALIZADO")' = ConEstado("FINALIZADO")
        /\ \A r \in Recursos : Esperan(r)' = Esperan(r)
    BY <1>1, <1>3, <1>6 DEF ConEstado, Esperan
  <2> QED
    BY <1>1, <1>2, <2>1, <2>2 DEF IInv, Listas, recursos
<1>10. Siguiente'
  BY <1>1, <1>3, <1>6, IdAssumption DEF Siguiente
<1>11. Turno'
  BY <1>1, <1>4, <1>8 DEF IInv, Turno
<1>12. Sentencias'
  BY <1>1, <1>4, <1>5, <1>6, <1>7, <1>8 DEF Sentencias
<1>13. Procesos'
  <2>1. Proceso(e)'
    BY <1>1, <1>3, <1>6, <1>7, <1>8 DEF IInv, Procesos, Proceso
  <2>2. ASSUME NEW x \in ESIs, x # e PROVE Proceso(x)'
    BY <1>1, <1>6, <1>7, <1>8, <2>2 DEF IInv, Procesos, Proceso
  <2> QED
    BY <2>1, <2>2 DEF Procesos
<1>14. Punteros'
  <2>1. Puntero(e)'
    <3>1. instruction_pointer[e] = linea[e] - 1
      BY <1>1, <1>5 DEF IInv, Punteros, Puntero, Contando
    <3>2. linea[e] \in Nat
      BY DEF IInv, TInv, TypeOK, TipoClientes
    <3> QED
      BY <1>1, <1>4, <1>6, <1>8, <3>1, <3>2 DEF Puntero, Contando
  <2>2. ASSUME NEW x \in ESIs, x # e PROVE Puntero(x)'
    BY <1>1, <1>6, <1>7, <1>8, <2>2 DEF IInv, Punteros, Puntero, Contando
  <2> QED
    BY <2>1, <2>2 DEF Punteros
<1>15. Duenos'
  BY <1>1, <1>3, <1>6, <1>8 DEF IInv, Duenos, EnMapa, recursos
<1>16. \A x \in ESIs, r \in Recursos : Reintenta(x, r) => Reintenta(x, r)'
  BY <1>1, <1>5, <1>6, <1>7 DEF Reintenta
<1>17. Esperas'
  BY <1>1, <1>8, <1>16, EsperasStay DEF IInv, D
<1> QED
  BY <1>9, <1>10, <1>11, <1>12, <1>13, <1>14, <1>15, <1>17 DEF IInv, SinUsuarios

LEMMA SinResultadoKeeps == ASSUME IInv, TInv', SinResultado PROVE IInv'
<1> DEFINE e == RUNNING_ESI
<1>1. /\ D = "resultado" /\ resultado[e] = "nada" /\ ise[e] = "terminado"
      /\ LlamaFinish("despachador", e, "adquirir")
      /\ UNCHANGED <<mapa, listas, turno, recursos, conexion, clientes>>
  BY DEF SinResultado, Despachador, D
<1>2. e \in ESIs /\ estado[e] = "CORRIENDO"
  BY <1>1 DEF IInv, Turno, Sentencias
<1>3. /\ D' = "finish" /\ pc'["coordinador"] = pc["coordinador"] /\ pc'["consola"] = pc["consola"]
      /\ marco'["despachador"].esi = e /\ marco'["despachador"].vuelve = "adquirir"
      /\ marco'["coordinador"] = marco["coordinador"]
  BY <1>1, <1>2, LlamaFinishKeeps, Lugar DEF IInv, TInv, D, Hilos
<1>4. pc["coordinador"] = "libre" /\ \A x \in ESIs : pedido[x] = NoPedido
  <2>1. \A x \in ESIs : ise[x] # "pregunta"
    BY <1>1 DEF IInv, TInv, EnTurno
  <2>2. \A x \in ESIs : pedido[x] = NoPedido
    BY <2>1 DEF IInv, Turno
  <2> QED
    BY <2>2 DEF IInv, Turno, NoPedido
<1>5. UNCHANGED <<RUNNING_ESI, NEXT_RUNNING_ESI, estado, ise, pedido>>
  BY <1>1 DEF turno, mapa, clientes
<1>6. Listas' /\ Siguiente'
  BY <1>1, ListasStay, SiguienteStay DEF IInv, turno, mapa, recursos
<1>7. Turno'
  BY <1>1, <1>2, <1>3, <1>4, <1>5 DEF IInv, Turno
<1>8. Sentencias'
  BY <1>3 DEF Sentencias
<1>9. Procesos'
  BY <1>1, <1>3 DEF IInv, Procesos, Proceso, turno, mapa, clientes
<1>10. Punteros'
  BY <1>1, <1>3 DEF IInv, Punteros, Puntero, Contando, turno, mapa, clientes
<1>11. Duenos'
  BY <1>1, <1>3, <1>5 DEF IInv, Duenos, EnMapa, recursos
<1>12. \A x \in ESIs, r \in Recursos : Reintenta(x, r) => Reintenta(x, r)'
  BY <1>1 DEF Reintenta, mapa, clientes
<1>13. Esperas'
  BY <1>1, <1>3, <1>4, <1>12 DEF IInv, Esperas, Despertado, recursos, D
<1> QED
  BY <1>6, <1>7, <1>8, <1>9, <1>10, <1>11, <1>13 DEF IInv, SinUsuarios

LEMMA WaitExecutionResultKeeps == ASSUME IInv, TInv', WaitExecutionResult PROVE IInv'
<1> DEFINE e == RUNNING_ESI
<1>1. /\ D = "resultado" /\ resultado[e] # "nada"
      /\ resultado' = [resultado EXCEPT ![e] = "nada"]
      /\ UNCHANGED <<mapa, listas, turno, recursos, conexion, ise, guion, linea, pedido>>
  BY DEF WaitExecutionResult, Despachador, D
<1>2. /\ e \in ESIs /\ resultado[e] \in Resultados /\ ise[e] \in {"espera", "terminado"}
      /\ estado[e] = IF resultado[e] = "KEY_BLOCKED" THEN "BLOQUEADO" ELSE "CORRIENDO"
      /\ resultado[e] \in Errores => ise[e] = "terminado"
  <2>1. e \in ESIs
    BY <1>1 DEF IInv, Turno
  <2>2. ise[e] \notin {"ejecuta", "pregunta"}
    BY <1>1, <2>1 DEF IInv, TInv, EnTurno
  <2> QED
    BY <1>1, <2>1, <2>2 DEF IInv, Sentencias, TInv, TypeOK, TipoClientes
<1>3. pc["coordinador"] = "libre" /\ \A x \in ESIs : pedido[x] = NoPedido
  <2>1. \A x \in ESIs : ise[x] # "pregunta"
    BY <1>1, <1>2 DEF IInv, TInv, EnTurno
  <2>2. \A x \in ESIs : pedido[x] = NoPedido
    BY <2>1 DEF IInv, Turno
  <2> QED
    BY <2>2 DEF IInv, Turno, NoPedido
<1>4. /\ D' = IF resultado[e] \in Errores THEN "finish" ELSE "cerrar"
      /\ pc'["coordinador"] = pc["coordinador"] /\ pc'["consola"] = pc["consola"]
      /\ marco'["coordinador"] = marco["coordinador"]
      /\ D' = "finish" => /\ marco'["despachador"].esi = e
                          /\ marco'["despachador"].vuelve = "cerrar"
  <2>1. CASE resultado[e] \in Errores
    <3>1. LlamaFinish("despachador", e, "cerrar")
      BY <2>1 DEF WaitExecutionResult
    <3> QED
      BY <1>2, <2>1, <3>1, LlamaFinishKeeps, Lugar DEF IInv, TInv, D, Hilos
  <2>2. CASE resultado[e] \notin Errores
    <3>1. pc' = [pc EXCEPT !["despachador"] = "cerrar"] /\ marco' = marco
      BY <2>2 DEF WaitExecutionResult, DespachadorVa
    <3> QED
      BY <2>2, <3>1, Lugar DEF IInv, TInv, D, Hilos
  <2> QED
    BY <2>1, <2>2
<1>5. UNCHANGED <<RUNNING_ESI, NEXT_RUNNING_ESI, estado, instruction_pointer, blocking_resource>>
  BY <1>1 DEF turno, mapa
<1>6. Listas' /\ Siguiente'
  BY <1>1, ListasStay, SiguienteStay DEF IInv, turno, mapa, recursos
<1>7. Turno'
  BY <1>1, <1>2, <1>3, <1>4, <1>5 DEF IInv, Turno, Errores
<1>8. Sentencias'
  BY <1>4 DEF Sentencias
<1>9. Procesos'
  BY <1>1, <1>4, <1>5 DEF IInv, Procesos, Proceso
<1>10. Punteros'
  <2>1. Puntero(e)'
    <3>1. CASE resultado[e] \in Errores
      BY <1>1, <1>2, <1>4, <1>5, <3>1 DEF Puntero
    <3>2. CASE resultado[e] = "KEY_BLOCKED"
      BY <1>1, <1>2, <1>4, <1>5, <3>2 DEF IInv, Punteros, Puntero, Contando, Errores
    <3>3. CASE resultado[e] \in {"OK", "PARSE_ERROR"}
      BY <1>1, <1>2, <1>4, <1>5, <3>3 DEF IInv, Punteros, Puntero, Contando, Errores
    <3> QED
      BY <1>2, <3>1, <3>2, <3>3 DEF Resultados
  <2>2. ASSUME NEW x \in ESIs, x # e PROVE Puntero(x)'
    BY <1>1, <1>4, <1>5, <2>2 DEF IInv, Punteros, Puntero, Contando
  <2> QED
    BY <1>5, <2>1, <2>2 DEF Punteros
<1>11. Duenos'
  <2>1. ASSUME NEW r \in Recursos, recurso_tomado_por_esi[r] \in ESIs
        PROVE  /\ EnMapa(recurso_tomado_por_esi[r])
               /\ estado[recurso_tomado_por_esi[r]] # "FINALIZADO"
    BY <1>1, <2>1 DEF IInv, Duenos
  <2> QED
    BY <1>1, <1>5, <2>1 DEF Duenos, EnMapa, recursos
<1>12. \A x \in ESIs, r \in Recursos : Reintenta(x, r) => Reintenta(x, r)'
  BY <1>1, <1>5 DEF Reintenta
<1>13. Esperas'
  BY <1>1, <1>3, <1>4, <1>12 DEF IInv, Esperas, Despertado, recursos, D
<1> QED
  BY <1>6, <1>7, <1>8, <1>9, <1>10, <1>11, <1>13 DEF IInv, SinUsuarios

LEMMA TerminaTurnoKeeps == ASSUME IInv, TInv', TerminaTurno PROVE IInv'
<1>1. /\ D = "terminar" /\ RUNNING_ESI' = IF NEXT_RUNNING_ESI = Ninguno THEN Ninguno ELSE RUNNING_ESI
      /\ pc' = [pc EXCEPT !["despachador"] = "adquirir"]
      /\ UNCHANGED <<mapa, listas, NEXT_RUNNING_ESI, recursos, marco, conexion, clientes>>
  BY DEF TerminaTurno, Despachador, DespachadorVa, D
<1>2. /\ D' = "adquirir" /\ pc'["coordinador"] = pc["coordinador"]
      /\ pc'["consola"] = pc["consola"]
  BY <1>1, Lugar DEF IInv, TInv, D, Hilos
<1>3. Listas'
  BY <1>1, ListasStay DEF IInv, recursos
<1>4. Siguiente'
  BY <1>1, IdAssumption DEF IInv, Siguiente, mapa
<1>5. Turno'
  BY <1>1, <1>2 DEF IInv, Turno, clientes
<1>6. Sentencias' /\ Procesos' /\ Punteros'
  BY <1>1, <1>2, SoloElDespachador
<1>7. Duenos'
  BY <1>1, <1>2 DEF IInv, Duenos, EnMapa, recursos, mapa
<1>8. \A x \in ESIs, r \in Recursos : Reintenta(x, r) => Reintenta(x, r)'
  BY <1>1 DEF Reintenta, mapa, clientes
<1>9. Esperas'
  BY <1>1, <1>2, <1>8, EsperasStay DEF IInv, D
<1> QED
  BY <1>3, <1>4, <1>5, <1>6, <1>7, <1>9 DEF IInv, SinUsuarios


LEMMA CierraTurnoKeeps == ASSUME IInv, TInv', CierraTurno, ~Muere PROVE IInv'
<1>0. PICK e \in ESIs : e = RUNNING_ESI
  BY DEF CierraTurno, Despachador, D, IInv, Turno
<1>1. /\ D = "cerrar"
      /\ estado' = BorradoDeFinish(estado) /\ FINISHED_ESI_LIST' = << >>
      /\ instruction_pointer' = IF BorradoDeFinish(estado)[e] = "borrado" THEN instruction_pointer
                                ELSE PunteroAlCerrar(e)
      /\ UNCHANGED <<blocking_resource, READY_ESI_LIST, BLOCKED_ESI_LIST, NEXT_RUNNING_ESI,
                     recursos, conexion, clientes>>
  BY <1>0 DEF CierraTurno, Despachador, D
<1>2. /\ pc["coordinador"] = "libre"
      /\ \A x \in ESIs : /\ ise[x] \in {"sin_id", "espera", "terminado"}
                         /\ pedido[x] = NoPedido /\ resultado[x] = "nada"
  BY <1>1, FueraDeTurno
<1>3. \A x \in ESIs : estado'[x] = IF estado[x] = "FINALIZADO" THEN "borrado" ELSE estado[x]
  <2>1. \A x \in ESIs :
          (\E i \in DOMAIN FINISHED_ESI_LIST : FINISHED_ESI_LIST[i] = x) <=> estado[x] = "FINALIZADO"
    BY DEF IInv, Listas, En, ToSet, ConEstado
  <2> QED
    BY <1>1, <2>1 DEF BorradoDeFinish
<1>4. /\ e \in ESIs /\ e # Ninguno /\ estado[e] \in {"CORRIENDO", "BLOQUEADO", "FINALIZADO"}
      /\ estado[e] = "CORRIENDO" => NEXT_RUNNING_ESI = e
      /\ NEXT_RUNNING_ESI = e => estado[e] = "CORRIENDO"
      /\ \A x \in ESIs : x # e => estado[x] # "CORRIENDO"
  BY <1>0, <1>1, IdAssumption DEF IInv, Turno, Siguiente
<1>5. /\ instruction_pointer'[e] = IF estado[e] = "BLOQUEADO" THEN instruction_pointer[e] - 1
                                   ELSE instruction_pointer[e]
      /\ \A x \in ESIs : x # e => instruction_pointer'[x] = instruction_pointer[x]
  <2>1. instruction_pointer \in [ESIs -> Nat]
    BY DEF IInv, TInv, TypeOK, TipoMapa
  <2> QED
    BY <1>1, <1>3, <1>4, <2>1 DEF PunteroAlCerrar
<1>6. \/ /\ RUNNING_ESI' = IF NEXT_RUNNING_ESI = Ninguno THEN Ninguno ELSE e
         /\ pc' = [pc EXCEPT !["despachador"] = "adquirir"] /\ marco' = marco
         /\ ise[e] = "terminado" => estado[e] = "FINALIZADO"
      \/ /\ LlamaFinish("despachador", e, "terminar")
         /\ NEXT_RUNNING_ESI # Ninguno /\ RUNNING_ESI' = e
         /\ estado[e] = "CORRIENDO" /\ ise[e] = "terminado"
  <2>1. estado[e] = "CORRIENDO" => /\ instruction_pointer'[e] = instruction_pointer[e]
                                   /\ ise[e] = "terminado" <=> instruction_pointer[e] = Len(guion[e])
    BY <1>0, <1>1, <1>4, <1>5 DEF IInv, Punteros, Puntero
  <2>2. estado[e] = "BLOQUEADO" => ise[e] = "espera"
    BY <1>4 DEF IInv, Procesos, Proceso
  <2>3. CASE NEXT_RUNNING_ESI = Ninguno
    BY <1>0, <1>4, <2>2, <2>3 DEF CierraTurno, DespachadorVa
  <2>4. CASE NEXT_RUNNING_ESI # Ninguno /\ estado[e] # "CORRIENDO"
    <3>1. /\ ~(BorradoDeFinish(estado)[e] # "borrado" /\ BorradoDeFinish(estado)[e] # "BLOQUEADO")
          /\ NEXT_RUNNING_ESI # e
      BY <1>1, <1>3, <1>4, <2>4
    <3> QED
      BY <1>0, <1>4, <2>2, <2>4, <3>1 DEF CierraTurno, DespachadorVa
  <2>5. CASE NEXT_RUNNING_ESI # Ninguno /\ estado[e] = "CORRIENDO"
    <3>1. /\ BorradoDeFinish(estado)[e] = "CORRIENDO"
          /\ PunteroAlCerrar(e)[e] = instruction_pointer[e]
      BY <1>1, <1>3, <1>4, <2>1, <2>5
    <3> QED
      BY <1>0, <1>4, <2>1, <2>5, <3>1 DEF CierraTurno, DespachadorVa
  <2> QED
    BY <2>3, <2>4, <2>5
<1>7. /\ D' \in {"adquirir", "finish"}
      /\ pc'["coordinador"] = "libre" /\ pc'["consola"] = pc["consola"]
      /\ marco'["coordinador"] = marco["coordinador"]
      /\ D' = "adquirir" => /\ RUNNING_ESI' = IF NEXT_RUNNING_ESI = Ninguno THEN Ninguno ELSE e
                            /\ ise[e] = "terminado" => estado[e] = "FINALIZADO"
      /\ D' = "finish" => /\ NEXT_RUNNING_ESI # Ninguno /\ RUNNING_ESI' = e
                          /\ estado[e] = "CORRIENDO" /\ ise[e] = "terminado"
                          /\ marco'["despachador"].esi = e
                          /\ marco'["despachador"].vuelve = "terminar"
  <2>1. ASSUME pc' = [pc EXCEPT !["despachador"] = "adquirir"]
        PROVE  D' = "adquirir" /\ pc'["coordinador"] = "libre" /\ pc'["consola"] = pc["consola"]
    BY <1>2, <2>1, Lugar DEF IInv, TInv, D, Hilos
  <2>2. ASSUME LlamaFinish("despachador", e, "terminar")
        PROVE  /\ D' = "finish" /\ pc'["coordinador"] = "libre" /\ pc'["consola"] = pc["consola"]
               /\ marco'["coordinador"] = marco["coordinador"]
               /\ marco'["despachador"].esi = e /\ marco'["despachador"].vuelve = "terminar"
    BY <1>2, <1>4, <2>2, LlamaFinishKeeps, Lugar DEF IInv, TInv, D, Hilos
  <2> QED
    BY <1>6, <2>1, <2>2
<1>8. UNCHANGED <<ise, guion, linea, pedido, resultado>>
  BY <1>1 DEF clientes
<1>9. Listas'
  <2>1. /\ Listos' = Listos /\ ConEstado("BLOQUEADO")' = ConEstado("BLOQUEADO")
        /\ ConEstado("FINALIZADO")' = {} /\ \A r \in Recursos : Esperan(r)' = Esperan(r)
    BY <1>1, <1>3 DEF Listos, ConEstado, Esperan
  <2> QED
    BY <1>1, <2>1, EnVacia DEF IInv, Listas, recursos
<1>10. Siguiente'
  <2>1. RUNNING_ESI' \in {e, Ninguno} /\ (RUNNING_ESI' = Ninguno => NEXT_RUNNING_ESI = Ninguno)
    BY <1>4, <1>7
  <2>2. NEXT_RUNNING_ESI # Ninguno => RUNNING_ESI' = e
    BY <1>7
  <2> QED
    BY <1>1, <1>3, <1>4, <2>1, <2>2, IdAssumption DEF IInv, Siguiente, TInv, TypeOK, TipoListas
<1>11. Turno'
  BY <1>1, <1>2, <1>3, <1>4, <1>7, <1>8 DEF IInv, Turno
<1>12. Sentencias'
  BY <1>7 DEF Sentencias
<1>13. Procesos'
  <2>1. Proceso(e)'
    BY <1>0, <1>1, <1>3, <1>4, <1>5, <1>7, <1>8 DEF IInv, Procesos, Proceso
  <2>2. ASSUME NEW x \in ESIs, x # e PROVE Proceso(x)'
    BY <1>0, <1>1, <1>3, <1>4, <1>5, <1>8, <2>2 DEF IInv, Procesos, Proceso
  <2> QED
    BY <2>1, <2>2 DEF Procesos
<1>14. Punteros'
  <2>1. Puntero(e)'
    BY <1>0, <1>1, <1>2, <1>3, <1>4, <1>5, <1>7, <1>8 DEF IInv, Punteros, Puntero, Contando, Procesos, Proceso
  <2>2. ASSUME NEW x \in ESIs, x # e PROVE Puntero(x)'
    BY <1>0, <1>1, <1>5, <1>7, <1>8, <2>2 DEF IInv, Punteros, Puntero, Contando
  <2> QED
    BY <2>1, <2>2 DEF Punteros
<1>15. Duenos'
  <2>1. ASSUME NEW r \in Recursos, recurso_tomado_por_esi[r] \in ESIs
        PROVE  /\ EnMapa(recurso_tomado_por_esi[r])
               /\ estado[recurso_tomado_por_esi[r]] # "FINALIZADO"
    BY <1>1, <2>1 DEF IInv, Duenos
  <2> QED
    BY <1>1, <1>3, <2>1 DEF Duenos, EnMapa, recursos
<1>16. \A x \in ESIs, r \in Recursos : Reintenta(x, r) => Reintenta(x, r)'
  BY <1>3, <1>8 DEF Reintenta
<1>17. Esperas'
  BY <1>1, <1>7, <1>16 DEF IInv, Esperas, Despertado, recursos, D
<1> QED
  BY <1>9, <1>10, <1>11, <1>12, <1>13, <1>14, <1>15, <1>17 DEF IInv, SinUsuarios

-----------------------------------------------------------------------------
(* free_resource and finish_esi, called by the dispatcher and by a STORE *)

\* All the ids of a queue are in the map, so the first one is woken.
LEMMA TodosValidos ==
  ASSUME NEW cola \in Seq(ESIs), \A i \in DOMAIN cola : EnMapa(cola[i])
  PROVE  DesdeElPrimeroValido(cola) = cola
<1> DEFINE P == {i \in 1 .. Len(cola) : EnMapa(cola[i])}
           n == Len(cola)
<1>1. n \in Nat /\ P = 1 .. n
  OBVIOUS
<1>2. CASE n = 0
  <2>1. P = {} /\ cola = << >>
    BY <1>1, <1>2, EmptySeq
  <2> QED
    BY <2>1 DEF DesdeElPrimeroValido, SelectInSeq
<1>3. CASE n # 0
  <2>1. Min(P) = 1 /\ P # {}
    <3>1. P \in SUBSET Nat /\ 1 \in P
      BY <1>1, <1>3
    <3>2. Min(P) \in P /\ Min(P) <= 1
      BY <3>1, MinIsLeast
    <3> QED
      BY <1>1, <3>1, <3>2
  <2> DEFINE p == Min(P)
  <2>2. p # 0
    BY <2>1
  <2>3. DesdeElPrimeroValido(cola) = SubSeq(cola, p, Len(cola))
    BY <2>1, <2>2, Zenon DEF DesdeElPrimeroValido, SelectInSeq
  <2>4. p = 1
    BY <2>1
  <2> HIDE DEF p
  <2> QED
    BY <2>3, <2>4
<1> QED
  BY <1>2, <1>3

\* The wait of the first of the queue of r ends: it goes from the blocked list
\* and the queue to the ready list, and has still to try again.
LEMMA DespiertaUnoKeeps ==
  ASSUME IInv, NEW r \in Recursos, DespiertaUno(r),
         UNCHANGED <<FINISHED_ESI_LIST, RUNNING_ESI, NEXT_RUNNING_ESI, ise, guion, linea>>
  PROVE  /\ Listas' /\ Siguiente' /\ UNCHANGED instruction_pointer
         /\ esis_bloqueados_por_recurso'[r] = << >> \/ Despertado(r)'
         /\ \A y \in Recursos :
              y # r => esis_bloqueados_por_recurso'[y] = esis_bloqueados_por_recurso[y]
         /\ \A x \in ESIs :
              /\ \/ estado'[x] = estado[x]
                 \/ estado[x] = "BLOQUEADO" /\ estado'[x] = "DESBLOQUEADO"
              /\ estado'[x] = "BLOQUEADO" => blocking_resource'[x] = blocking_resource[x]
<1> DEFINE q == esis_bloqueados_por_recurso
<1>1. /\ En(q[r], Esperan(r)) /\ q[r] \in Seq(ESIs)
      /\ \A i \in DOMAIN q[r] : q[r][i] \in Esperan(r)
      /\ q \in [Recursos -> Seq(ESIs)]
  BY DEF IInv, Listas, En, ToSet, TInv, TypeOK, TipoRecursos
<1>2. DesdeElPrimeroValido(q[r]) = q[r]
  BY <1>1, TodosValidos DEF Esperan, EnMapa
<1>3. CASE q[r] = << >>
  <2>1. /\ q' = [q EXCEPT ![r] = << >>]
        /\ UNCHANGED <<mapa, READY_ESI_LIST, BLOCKED_ESI_LIST>>
    BY <1>2, <1>3 DEF DespiertaUno
  <2>2. q' = q
    BY <1>1, <1>3, <2>1
  <2>3. Listas' /\ Siguiente'
    BY <2>1, <2>2, ListasStay, SiguienteStay DEF IInv, listas, turno, mapa
  <2> QED
    BY <1>3, <2>1, <2>2, <2>3 DEF mapa
<1>4. CASE q[r] # << >>
  <2>1. PICK f \in ESIs : f = Head(q[r])
    BY <1>1, <1>4, EnTail
  <2>2. /\ f \in Esperan(r) /\ En(Tail(q[r]), Esperan(r) \ {f})
    BY <1>1, <1>4, <2>1, EnTail
  <2>3. /\ estado[f] = "BLOQUEADO" /\ blocking_resource[f] = r /\ NEXT_RUNNING_ESI # f
        /\ ise[f] = "espera" /\ guion[f][linea[f]] = [op |-> "GET", recurso |-> r]
    BY <2>2, IdAssumption DEF Esperan, IInv, Siguiente, Procesos, Proceso
  <2>4. /\ q' = [q EXCEPT ![r] = Tail(q[r])]
        /\ blocking_resource' = [blocking_resource EXCEPT ![f] = SinRecurso]
        /\ estado' = [estado EXCEPT ![f] = "DESBLOQUEADO"]
        /\ BLOCKED_ESI_LIST' = RemoveFirst(BLOCKED_ESI_LIST, f)
        /\ READY_ESI_LIST' = Append(READY_ESI_LIST, f)
        /\ UNCHANGED instruction_pointer
    BY <1>2, <1>4, <2>1 DEF DespiertaUno, CambiarRecursoQueLoBloquea, UnblockEsi
  <2>5. /\ estado'[f] = "DESBLOQUEADO" /\ \A x \in ESIs : x # f => estado'[x] = estado[x]
        /\ \A x \in ESIs : x # f => blocking_resource'[x] = blocking_resource[x]
        /\ q'[r] = Tail(q[r]) /\ \A y \in Recursos : y # r => q'[y] = q[y]
    BY <1>1, <2>4 DEF IInv, TInv, TypeOK, TipoMapa
  <2>6. Listas'
    <3>1. Listos' = Listos \cup {f} /\ f \notin Listos
      BY <2>3, <2>5 DEF Listos
    <3>2. En(READY_ESI_LIST', Listos')
      BY <2>4, <3>1, EnAppend DEF IInv, Listas
    <3>3. ConEstado("BLOQUEADO")' = ConEstado("BLOQUEADO") \ {f}
      BY <2>3, <2>5 DEF ConEstado
    <3>4. En(BLOCKED_ESI_LIST', ConEstado("BLOQUEADO")')
      BY <2>4, <3>3, EnRemove DEF IInv, Listas
    <3>5. ConEstado("FINALIZADO")' = ConEstado("FINALIZADO")
      BY <2>3, <2>5 DEF ConEstado
    <3>6. ASSUME NEW y \in Recursos PROVE En(q'[y], Esperan(y)')
      <4>1. CASE y = r
        <5>1. Esperan(r)' = Esperan(r) \ {f}
          BY <2>3, <2>5 DEF Esperan
        <5> QED
          BY <2>2, <2>5, <4>1, <5>1
      <4>2. CASE y # r
        <5>1. Esperan(y)' = Esperan(y)
          BY <2>3, <2>5, <4>2 DEF Esperan
        <5> QED
          BY <2>5, <4>2, <5>1 DEF IInv, Listas
      <4> QED
        BY <4>1, <4>2
    <3> QED
      BY <3>2, <3>4, <3>5, <3>6 DEF IInv, Listas
  <2>7. Siguiente'
    BY <2>3, <2>5 DEF IInv, Siguiente, TInv, TypeOK, TipoListas
  <2>8. Despertado(r)'
    BY <2>3, <2>5 DEF Despertado, Reintenta
  <2> QED
    BY <2>3, <2>4, <2>5, <2>6, <2>7, <2>8
<1> QED
  BY <1>3, <1>4

LEMMA FreeResourceKeeps ==
  ASSUME IInv, TInv', NEW t \in {"despachador", "coordinador"}, FreeResource(t), ~Muere
  PROVE  IInv'
<1>1. PICK r \in marco[t].recursos :
        /\ pc[t] = "liberar" /\ DespiertaUno(r)
        /\ pc' = [pc EXCEPT ![t] = "quitar"]
        /\ marco' = [marco EXCEPT ![t].recursos = @ \ {r}, ![t].recurso = r]
        /\ UNCHANGED <<FINISHED_ESI_LIST, RUNNING_ESI, NEXT_RUNNING_ESI, recurso_tomado_por_esi,
                       conexion, ise, guion, linea, pedido, resultado>>
  BY DEF FreeResource, turno, clientes
<1>2. t \in Hilos /\ r \in Recursos /\ marco \in [Hilos -> Marco]
  <2>1. t \in Hilos /\ marco \in [Hilos -> Marco]
    BY DEF Hilos, IInv, TInv, TypeOK, TipoHilos, Marco
  <2> QED
    BY <1>1, <2>1 DEF Marco
<1>3. /\ marco'[t].recurso = r /\ marco'[t].recursos = marco[t].recursos \ {r}
      /\ marco'[t].esi = marco[t].esi /\ marco'[t].vuelve = marco[t].vuelve
      /\ \A u \in Hilos : u # t => marco'[u] = marco[u]
      /\ pc'[t] = "quitar" /\ \A u \in Hilos : u # t => pc'[u] = pc[u]
  <2>1. /\ marco'[t] = [marco[t] EXCEPT !.recursos = @ \ {r}, !.recurso = r]
        /\ \A u \in Hilos : u # t => marco'[u] = marco[u]
    BY <1>1, <1>2
  <2>2. marco[t] \in Marco
    BY <1>2
  <2>3. pc'[t] = "quitar" /\ \A u \in Hilos : u # t => pc'[u] = pc[u]
    BY <1>1, <1>2, Lugar DEF IInv, TInv
  <2> QED
    BY <2>1, <2>2, <2>3 DEF Marco
<1>4. /\ Listas' /\ Siguiente' /\ UNCHANGED instruction_pointer
      /\ esis_bloqueados_por_recurso'[r] = << >> \/ Despertado(r)'
      /\ \A y \in Recursos :
           y # r => esis_bloqueados_por_recurso'[y] = esis_bloqueados_por_recurso[y]
      /\ \A x \in ESIs :
           /\ \/ estado'[x] = estado[x]
              \/ estado[x] = "BLOQUEADO" /\ estado'[x] = "DESBLOQUEADO"
           /\ estado'[x] = "BLOQUEADO" => blocking_resource'[x] = blocking_resource[x]
  BY <1>1, <1>2, DespiertaUnoKeeps
\* It is in the turn of an ESI that ended, or of one that asked for a STORE.
<1>5. \/ /\ t = "despachador" /\ D = "liberar" /\ D' = "quitar"
         /\ pc["coordinador"] = "libre" /\ pc'["coordinador"] = "libre"
         /\ marco'["coordinador"] = marco["coordinador"]
      \/ /\ t = "coordinador" /\ D = "resultado" /\ D' = "resultado"
         /\ pc'["coordinador"] = "quitar" /\ estado[RUNNING_ESI] = "CORRIENDO"
         /\ marco'["despachador"] = marco["despachador"]
         /\ \E e \in ESIs : pedido[e].op = "STORE_EN_CURSO"
  <2>1. CASE t = "despachador"
    BY <1>1, <1>3, <2>1, FueraDeTurno DEF D, Hilos
  <2>2. CASE t = "coordinador"
    <3>1. PICK e \in ESIs : pedido[e].op = "STORE_EN_CURSO"
      BY <1>1, <2>2 DEF IInv, Turno
    <3>2. ise[e] = "pregunta"
      BY <3>1 DEF IInv, Turno, NoPedido
    <3>3. D = "resultado" /\ estado[RUNNING_ESI] = "CORRIENDO"
      BY <3>2, EnSuTurno
    <3> QED
      BY <1>3, <2>2, <3>1, <3>3 DEF D, Hilos
  <2> QED
    BY <2>1, <2>2
<1>6. pc'["consola"] = pc["consola"]
  BY <1>3, <1>5 DEF Hilos
<1>7. Turno'
  <2>1. CASE t = "despachador"
    BY <1>1, <1>3, <1>4, <1>5, <1>6, <2>1 DEF IInv, Turno
  <2>2. CASE t = "coordinador"
    <3>1. D' = "resultado" /\ RUNNING_ESI \in ESIs /\ pc'["coordinador"] = "quitar"
      BY <1>5, <2>2 DEF IInv, Turno
    <3>2. marco'["coordinador"].esi = Ninguno
      BY <1>3, <2>2 DEF IInv, Turno
    <3> QED
      BY <1>1, <1>5, <1>6, <2>2, <3>1, <3>2 DEF IInv, Turno
  <2> QED
    BY <2>1, <2>2
<1>8. Sentencias'
  <2>1. CASE t = "despachador"
    BY <1>5, <2>1 DEF Sentencias
  <2>2. CASE t = "coordinador"
    <3>1. RUNNING_ESI \in ESIs /\ estado'[RUNNING_ESI] = "CORRIENDO"
      BY <1>4, <1>5, <2>2 DEF IInv, Turno
    <3> QED
      BY <1>1, <1>5, <2>2, <3>1 DEF IInv, Sentencias
  <2> QED
    BY <2>1, <2>2
<1>9. Procesos'
  <2>1. D' \in {"resultado", "cerrar", "finish"} <=> D \in {"resultado", "cerrar", "finish"}
    BY <1>5
  <2>2. ASSUME NEW x \in ESIs, estado'[x] = estado[x] PROVE Proceso(x)'
    BY <1>1, <1>4, <2>1, <2>2 DEF IInv, Procesos, Proceso
  <2>3. ASSUME NEW x \in ESIs, estado[x] = "BLOQUEADO", estado'[x] = "DESBLOQUEADO"
        PROVE  Proceso(x)'
    BY <1>1, <1>4, <2>1, <2>3 DEF IInv, Procesos, Proceso
  <2> QED
    BY <1>4, <2>2, <2>3 DEF Procesos
<1>10. Punteros'
  BY <1>1, <1>4, <1>5 DEF IInv, Punteros, Puntero, Contando
<1>11. Duenos'
  <2>1. ASSUME NEW y \in Recursos, NEW o \in ESIs, o = recurso_tomado_por_esi[y]
        PROVE  /\ EnMapa(o)'
               /\ estado'[o] = "FINALIZADO" =>
                    /\ o = RUNNING_ESI /\ D' = "quitar" /\ t = "despachador"
                    /\ y = r \/ y \in marco[t].recursos \ {r}
    BY <1>4, <1>5, <2>1 DEF IInv, Duenos, EnMapa
  <2> QED
    BY <1>1, <1>3, <2>1 DEF Duenos
<1>12. Esperas'
  <2>1. \A x \in ESIs, y \in Recursos : Reintenta(x, y) => Reintenta(x, y)'
    BY <1>1, <1>4 DEF Reintenta
  <2>2. \A y \in Recursos : Despertado(y) => Despertado(y)'
    BY <2>1 DEF Despertado
  <2>3. \A y \in Recursos : esis_bloqueados_por_recurso'[y] # << >> =>
          recurso_tomado_por_esi'[y] # Nadie \/ Despertado(y)'
    BY <1>1, <1>4, <2>2 DEF IInv, Esperas
  <2>4. ASSUME NEW u \in {"despachador", "coordinador"}, pc'[u] = "quitar"
        PROVE  u = t
    BY <1>5, <2>4 DEF D
  <2> QED
    BY <1>2, <1>3, <1>4, <2>3, <2>4 DEF Esperas
<1> QED
  BY <1>4, <1>7, <1>8, <1>9, <1>10, <1>11, <1>12 DEF IInv, SinUsuarios

LEMMA FreeResourceQuitaKeeps ==
  ASSUME IInv, TInv', NEW t \in {"despachador", "coordinador"}, FreeResourceQuita(t)
  PROVE  IInv'
<1>1. /\ pc[t] = "quitar" /\ pc' = [pc EXCEPT ![t] = "liberar"]
      /\ recurso_tomado_por_esi' = [recurso_tomado_por_esi EXCEPT ![marco[t].recurso] = Nadie]
      /\ UNCHANGED <<mapa, listas, turno, esis_bloqueados_por_recurso, marco, conexion, clientes>>
  BY DEF FreeResourceQuita
<1>2. PICK r \in Recursos : r = marco[t].recurso
  BY <1>1 DEF IInv, Esperas
<1>3. /\ recurso_tomado_por_esi'[r] = Nadie /\ Nadie \notin ESIs
      /\ \A y \in Recursos : y # r => recurso_tomado_por_esi'[y] = recurso_tomado_por_esi[y]
  BY <1>1, <1>2, IdAssumption DEF IInv, TInv, TypeOK, TipoRecursos
<1>4. /\ pc'[t] = "liberar" /\ \A u \in Hilos : u # t => pc'[u] = pc[u]
      /\ t \in Hilos
  BY <1>1, Lugar DEF Hilos, IInv, TInv
<1>5. \/ t = "despachador" /\ D = "quitar" /\ D' = "liberar" /\ pc'["coordinador"] = pc["coordinador"]
         /\ pc["coordinador"] = "libre"
      \/ t = "coordinador" /\ D = "resultado" /\ D' = D /\ pc'["coordinador"] = "liberar"
  BY <1>1, <1>4, FueraDeTurno DEF D, Hilos
<1>6. pc'["consola"] = pc["consola"]
  BY <1>4, <1>5 DEF Hilos
<1>7. UNCHANGED <<estado, instruction_pointer, blocking_resource, RUNNING_ESI, NEXT_RUNNING_ESI,
                  ise, guion, linea, pedido, resultado>>
  BY <1>1 DEF mapa, turno, clientes
<1>8. Listas' /\ Siguiente'
  BY <1>1, ListasStay, SiguienteStay DEF IInv, turno, mapa
<1>9. Turno'
  BY <1>1, <1>5, <1>6, <1>7 DEF IInv, Turno
<1>10. Sentencias' /\ Procesos' /\ Punteros'
  <2>1. CASE t = "despachador"
    BY <1>1, <1>5, <2>1, SoloElDespachador
  <2>2. CASE t = "coordinador"
    BY <1>1, <1>5, <1>7, <2>2 DEF IInv, Sentencias, Procesos, Proceso, Punteros, Puntero, Contando
  <2> QED
    BY <2>1, <2>2
<1>11. Duenos'
  <2>1. ASSUME NEW y \in Recursos, NEW o \in ESIs, o = recurso_tomado_por_esi'[y]
        PROVE  /\ EnMapa(o)'
               /\ estado'[o] = "FINALIZADO" =>
                    o = RUNNING_ESI /\ D' = "liberar" /\ y \in marco["despachador"].recursos
    <3>1. y # r /\ o = recurso_tomado_por_esi[y]
      BY <1>3, <2>1
    <3> QED
      BY <1>2, <1>5, <1>7, <3>1 DEF IInv, Duenos, EnMapa
  <2> QED
    BY <1>1, <1>7, <2>1 DEF Duenos
<1>12. Esperas'
  <2>1. \A y \in Recursos : Despertado(y)' <=> Despertado(y)
    BY <1>7 DEF Despertado, Reintenta
  <2>2. esis_bloqueados_por_recurso[r] = << >> \/ Despertado(r)
    BY <1>1, <1>2 DEF IInv, Esperas
  <2>3. \A y \in Recursos : esis_bloqueados_por_recurso'[y] # << >> =>
          recurso_tomado_por_esi'[y] # Nadie \/ Despertado(y)'
    BY <1>1, <1>3, <2>1, <2>2 DEF IInv, Esperas
  <2>4. pc'["despachador"] # "quitar" /\ pc'["coordinador"] # "quitar"
    BY <1>5 DEF D
  <2> QED
    BY <2>3, <2>4 DEF Esperas
<1> QED
  BY <1>8, <1>9, <1>10, <1>11, <1>12 DEF IInv, SinUsuarios

\* finish_esi of the ESI that runs: the next one is chosen, and it has ended.
LEMMA FinishEsiKeeps == ASSUME IInv, TInv', FinishEsi("despachador"), ~Muere PROVE IInv'
<1>1. PICK e \in ESIs : e = marco["despachador"].esi /\ RUNNING_ESI = e /\ D = "finish"
                        /\ estado[e] = "CORRIENDO" /\ ise[e] = "terminado" /\ NEXT_RUNNING_ESI = e
                        /\ marco["despachador"].vuelve \in {"adquirir", "cerrar", "terminar"}
  <2>1. D = "finish"
    BY DEF FinishEsi, D
  <2> QED
    BY <2>1 DEF IInv, Turno, Siguiente
<1>2. /\ ReplanificaCon(READY_ESI_LIST)
      /\ estado' = [estado EXCEPT ![e] = "FINALIZADO"]
      /\ FINISHED_ESI_LIST' = Append(FINISHED_ESI_LIST, e)
      /\ pc' = [pc EXCEPT !["despachador"] = "liberar"]
      /\ marco' = [marco EXCEPT !["despachador"].recursos = GetResourcesTakenByEsi(e)]
      /\ UNCHANGED <<BLOCKED_ESI_LIST, instruction_pointer, blocking_resource, RUNNING_ESI,
                     esis_bloqueados_por_recurso, recurso_tomado_por_esi, conexion,
                     ise, guion, linea, pedido, resultado>>
  BY <1>1 DEF FinishEsi, recursos, clientes
<1>3. /\ estado'[e] = "FINALIZADO" /\ \A x \in ESIs : x # e => estado'[x] = estado[x]
      /\ \A x \in ESIs : x # e => estado[x] # "CORRIENDO"
  BY <1>1, <1>2 DEF IInv, Siguiente, TInv, TypeOK, TipoMapa
<1>4. /\ D' = "liberar" /\ pc'["coordinador"] = pc["coordinador"] /\ pc'["consola"] = pc["consola"]
      /\ pc["coordinador"] = "libre"
  BY <1>1, <1>2, Lugar, FueraDeTurno DEF IInv, TInv, D, Hilos
<1>5. /\ marco'["despachador"].esi = e /\ marco'["coordinador"] = marco["coordinador"]
      /\ marco'["despachador"].vuelve = marco["despachador"].vuelve
      /\ marco'["despachador"].recursos = GetResourcesTakenByEsi(e)
  <2>1. marco \in [Hilos -> Marco]
    BY DEF IInv, TInv, TypeOK, TipoHilos, Marco
  <2> QED
    BY <1>1, <1>2, <2>1 DEF Marco, Hilos
<1>6. PICK n : n = Replan(READY_ESI_LIST).next
  OBVIOUS
<1>7. /\ NEXT_RUNNING_ESI' = n /\ n \in Listos \cup {Ninguno} /\ n # e
      /\ En(READY_ESI_LIST', Listos \ {n})
  <2>1. Ninguno \notin ESIs /\ e \notin Listos
    BY <1>1, IdAssumption DEF Listos
  <2>2. /\ n \in Listos \cup {Ninguno}
        /\ En(Replan(READY_ESI_LIST).listos, Listos \ {n})
    BY <1>6, <2>1, EnReplan DEF IInv, Listas
  <2>3. NEXT_RUNNING_ESI' = n /\ READY_ESI_LIST' = Replan(READY_ESI_LIST).listos
    BY <1>2, <1>6 DEF ReplanificaCon
  <2> QED
    BY <2>1, <2>2, <2>3
<1>8. Listas'
  <2>1. Listos' = Listos \ {n}
    BY <1>1, <1>3, <1>7 DEF Listos
  <2>2. /\ ConEstado("BLOQUEADO")' = ConEstado("BLOQUEADO")
        /\ ConEstado("FINALIZADO")' = ConEstado("FINALIZADO") \cup {e}
        /\ e \notin ConEstado("FINALIZADO")
        /\ \A r \in Recursos : Esperan(r)' = Esperan(r)
    BY <1>1, <1>2, <1>3 DEF ConEstado, Esperan
  <2>3. En(FINISHED_ESI_LIST', ConEstado("FINALIZADO")')
    BY <1>2, <2>2, EnAppend DEF IInv, Listas
  <2> QED
    BY <1>2, <1>7, <2>1, <2>2, <2>3 DEF IInv, Listas
<1>9. Siguiente'
  BY <1>1, <1>2, <1>3, <1>7, IdAssumption DEF Siguiente, Listos
<1>10. Turno'
  BY <1>1, <1>2, <1>3, <1>4, <1>5 DEF IInv, Turno
<1>11. Sentencias'
  BY <1>4 DEF Sentencias
<1>12. Procesos'
  <2>1. Proceso(e)'
    BY <1>1, <1>2, <1>3 DEF IInv, Procesos, Proceso
  <2>2. ASSUME NEW x \in ESIs, x # e PROVE Proceso(x)'
    BY <1>1, <1>2, <1>3, <2>2 DEF IInv, Procesos, Proceso
  <2> QED
    BY <2>1, <2>2 DEF Procesos
<1>13. Punteros'
  BY <1>1, <1>2, <1>3, <1>4 DEF IInv, Punteros, Puntero, Contando
<1>14. Duenos'
  <2>1. ASSUME NEW y \in Recursos, NEW o \in ESIs, o = recurso_tomado_por_esi[y]
        PROVE  /\ EnMapa(o)'
               /\ estado'[o] = "FINALIZADO" => o = e /\ y \in GetResourcesTakenByEsi(e)
    BY <1>1, <1>3, <2>1 DEF IInv, Duenos, EnMapa, GetResourcesTakenByEsi
  <2> QED
    BY <1>1, <1>2, <1>4, <1>5, <2>1 DEF Duenos
<1>15. Esperas'
  <2>1. \A x \in ESIs, y \in Recursos : Reintenta(x, y) => Reintenta(x, y)'
    BY <1>1, <1>2, <1>3 DEF Reintenta
  <2> QED
    BY <1>2, <1>4, <2>1 DEF IInv, Esperas, Despertado, D
<1> QED
  BY <1>8, <1>9, <1>10, <1>11, <1>12, <1>13, <1>14, <1>15 DEF IInv, SinUsuarios

LEMMA FinishEsiRetornaKeeps ==
  ASSUME IInv, TInv', FinishEsiRetorna("despachador") PROVE IInv'
<1>1. /\ D = "liberar" /\ marco["despachador"].recursos = {}
      /\ pc' = [pc EXCEPT !["despachador"] = marco["despachador"].vuelve]
      /\ marco' = [marco EXCEPT !["despachador"] = SinMarco]
      /\ UNCHANGED <<mapa, listas, turno, recursos, conexion, clientes>>
  <2>1. D = "liberar" /\ RUNNING_ESI # Ninguno
    BY IdAssumption DEF FinishEsiRetorna, D, IInv, Turno
  <2> QED
    BY <2>1 DEF FinishEsiRetorna, Vuelve
<1>2. /\ RUNNING_ESI \in ESIs /\ estado[RUNNING_ESI] = "FINALIZADO"
      /\ marco["despachador"].vuelve \in {"adquirir", "cerrar", "terminar"}
      /\ pc["coordinador"] = "libre"
  BY <1>1, FueraDeTurno DEF IInv, Turno
<1>3. /\ D' \in {"adquirir", "cerrar", "terminar"}
      /\ pc'["coordinador"] = pc["coordinador"] /\ pc'["consola"] = pc["consola"]
      /\ marco'["coordinador"] = marco["coordinador"]
  BY <1>1, <1>2, Lugar, CambiaMarco, SinMarcoTipo DEF IInv, TInv, D, Hilos
<1>4. UNCHANGED <<estado, instruction_pointer, blocking_resource, RUNNING_ESI, NEXT_RUNNING_ESI,
                  ise, guion, linea, pedido, resultado>>
  BY <1>1 DEF mapa, turno, clientes
<1>5. Listas' /\ Siguiente'
  BY <1>1, ListasStay, SiguienteStay DEF IInv, turno, mapa, recursos
<1>6. Turno'
  BY <1>1, <1>2, <1>3, <1>4 DEF IInv, Turno
<1>7. Sentencias'
  BY <1>3 DEF Sentencias
<1>8. Procesos'
  BY <1>1, <1>4 DEF IInv, Procesos, Proceso
<1>9. Punteros'
  BY <1>1, <1>2, <1>3, <1>4 DEF IInv, Punteros, Puntero, Contando
<1>10. Duenos'
  <2>1. ASSUME NEW r \in Recursos, recurso_tomado_por_esi[r] \in ESIs
        PROVE  /\ EnMapa(recurso_tomado_por_esi[r])
               /\ estado[recurso_tomado_por_esi[r]] # "FINALIZADO"
    BY <1>1, <2>1 DEF IInv, Duenos
  <2> QED
    BY <1>1, <1>4, <2>1 DEF Duenos, EnMapa, recursos
<1>11. Esperas'
  BY <1>1, <1>2, <1>3, <1>4 DEF IInv, Esperas, Despertado, Reintenta, recursos, D
<1> QED
  BY <1>5, <1>6, <1>7, <1>8, <1>9, <1>10, <1>11 DEF IInv, SinUsuarios

-----------------------------------------------------------------------------
LEMMA InitIInv == Init /\ SinUsuarios => IInv
<1> SUFFICES ASSUME Init, SinUsuarios PROVE IInv
  OBVIOUS
<1>1. TInv
  BY InitTInv
<1>2. /\ \A e \in ESIs : /\ estado[e] = "ausente" /\ instruction_pointer[e] = 0
                         /\ conexion[e] = "nueva" /\ ise[e] = "sin_id" /\ linea[e] = 1
                         /\ pedido[e] = NoPedido
      /\ D = "adquirir" /\ pc["coordinador"] = "libre" /\ pc["consola"] = "libre"
      /\ marco["coordinador"].esi = Ninguno
      /\ RUNNING_ESI = Ninguno /\ NEXT_RUNNING_ESI = Ninguno
      /\ \A r \in Recursos : /\ esis_bloqueados_por_recurso[r] = << >>
                             /\ recurso_tomado_por_esi[r] \notin ESIs
  BY IdAssumption DEF Init, D, Hilos, SinMarco
<1>3. Listas
  <2>1. /\ Listos = {} /\ ConEstado("BLOQUEADO") = {} /\ ConEstado("FINALIZADO") = {}
        /\ \A r \in Recursos : Esperan(r) = {}
    BY <1>2 DEF Listos, ConEstado, Esperan
  <2> QED
    BY <1>2, <2>1, EnVacia DEF Init, Listas
<1>4. Siguiente /\ Turno /\ Sentencias
  BY <1>2 DEF Siguiente, Turno, Sentencias
<1>5. Procesos /\ Punteros
  BY <1>2 DEF Procesos, Proceso, Punteros, Puntero, Contando
<1>6. Duenos
  BY <1>2 DEF Duenos
<1>7. Esperas
  BY <1>2 DEF Esperas, D
<1> QED
  BY <1>1, <1>3, <1>4, <1>5, <1>6, <1>7 DEF IInv

\* A step that changes nothing of what the invariant is about.
LEMMA NadaCambia ==
  ASSUME IInv, TInv', UNCHANGED <<mapa, listas, turno, recursos, hilos, conexion, clientes>>
  PROVE  IInv'
<1>1. /\ UNCHANGED <<RUNNING_ESI, NEXT_RUNNING_ESI, estado, instruction_pointer, pc, marco, D>>
      /\ UNCHANGED <<ise, guion, linea, pedido, resultado, blocking_resource>>
  BY DEF mapa, turno, hilos, clientes, D
<1>2. Listas' /\ Siguiente'
  BY ListasStay, SiguienteStay DEF IInv, turno, mapa, recursos
<1>3. Turno' /\ Sentencias'
  BY <1>1 DEF IInv, Turno, Sentencias
<1>4. Procesos' /\ Punteros'
  BY <1>1 DEF IInv, Procesos, Proceso, Punteros, Puntero, Contando
<1>5. Duenos'
  BY <1>1 DEF IInv, Duenos, EnMapa, recursos
<1>6. Esperas'
  BY <1>1, EsperasStay DEF IInv, Reintenta
<1> QED
  BY <1>2, <1>3, <1>4, <1>5, <1>6 DEF IInv, SinUsuarios

\* Nothing of the console happens, nor a call of a thread that is not in it.
LEMMA SinConsola ==
  ASSUME IInv
  PROVE  /\ ~HiloConsola /\ \A e \in ESIs : ~Desconecta(e)
<1>1. pc["consola"] = "libre"
  BY DEF IInv, Turno
<1>2. ~Comando
  BY EntornoAssumption DEF Comando, IInv, SinUsuarios, TInv, TypeOK
<1>3. ~Llamada("consola")
  BY <1>1 DEF Llamada, FreeResource, FreeResourceQuita, FinishEsi, FinishEsiRetorna,
     FinishEsiReplanifica, FinishEsiNotifica
<1>4. ~HiloConsola
  BY <1>2, <1>3 DEF HiloConsola, KillCmd, UnblockResource, UnblockCmd, DeadlockCmd
<1> QED
  BY <1>4 DEF Desconecta, IInv, SinUsuarios

\* The dispatcher that ends an ESI does not find that nothing is to run: it runs.
LEMMA SinReplanificar ==
  ASSUME IInv
  PROVE  ~FinishEsiReplanifica("despachador") /\ ~FinishEsiNotifica("despachador")
BY DEF FinishEsiReplanifica, FinishEsiNotifica, IInv, Turno, D

LEMMA NextIInv == IInv /\ [Next]_vars => IInv'
<1> SUFFICES ASSUME IInv, [Next]_vars PROVE IInv'
  OBVIOUS
<1>1. TInv'
  BY NextTInv DEF IInv
<1>2. CASE UNCHANGED vars
  BY <1>1, <1>2, NadaCambia DEF vars
<1>3. CASE Muere
  BY <1>1, <1>3, NadaCambia DEF Muere
<1> SUFFICES ASSUME Next, ~Muere PROVE IInv'
  BY <1>2, <1>3
<1>4. CASE HiloDespachador
  BY <1>1, <1>4, AcquireDispatcherKeeps, DespachaKeeps, SinResultadoKeeps,
     WaitExecutionResultKeeps, CierraTurnoKeeps, TerminaTurnoKeeps, FreeResourceKeeps,
     FreeResourceQuitaKeeps, FinishEsiKeeps, FinishEsiRetornaKeeps, SinReplanificar
  DEF HiloDespachador, Llamada
<1>5. CASE HiloCoordinador
  <2>1. ASSUME NEW e \in ESIs, GetSentence(e) PROVE IInv'
    BY <1>1, <2>1, GetConcedidoKeeps, GetBloqueadoKeeps
  <2>2. ASSUME NEW e \in ESIs,
               SetSentence(e) \/ StoreSentence(e) \/ StoreSentenceResponde(e)
        PROVE  IInv'
    BY <1>1, <2>2, SetSentenceKeeps, StoreSentenceKeeps, StoreSentenceRespondeKeeps
  <2>3. ASSUME FreeResource("coordinador") \/ FreeResourceQuita("coordinador") PROVE IInv'
    BY <1>1, <2>3, FreeResourceKeeps, FreeResourceQuitaKeeps
  <2> QED
    BY <1>5, <2>1, <2>2, <2>3 DEF HiloCoordinador
<1>6. ASSUME NEW e \in ESIs, HiloConexion(e) \/ ExecuteSentence(e) PROVE IInv'
  BY <1>1, <1>6, NewEsiKeeps, SendIdToEsiKeeps, NotificaNuevoKeeps, ExecuteSentenceKeeps
  DEF HiloConexion
<1> QED
  BY <1>4, <1>5, <1>6, SinConsola DEF Next

LEMMA Invariant == Spec /\ SinUsuarios => []IInv
BY InitIInv, NextIInv, PTL DEF Spec

\* The number of places of the queues at which e waits.
LEMMA VecesEnLasColas ==
  ASSUME IInv, NEW e \in ESIs
  PROVE  VecesEsperando(e) = IF estado[e] = "BLOQUEADO" THEN 1 ELSE 0
<1> DEFINE q == esis_bloqueados_por_recurso
           P == {p \in Lugares : q[p[1]][p[2]] = e}
<1>1. \A r \in Recursos : /\ \A i \in DOMAIN q[r] : q[r][i] \in Esperan(r)
                          /\ \A x \in Esperan(r) : \E i \in DOMAIN q[r] : q[r][i] = x
                          /\ \A i, j \in DOMAIN q[r] : q[r][i] = q[r][j] => i = j
  BY DEF IInv, Listas, En, ToSet
<1>2. \A p \in P : /\ p = <<p[1], p[2]>> /\ p[1] \in Recursos /\ p[2] \in DOMAIN q[p[1]]
                   /\ q[p[1]][p[2]] = e
  BY DEF Lugares
<1>3. CASE estado[e] # "BLOQUEADO"
  <2>1. P = {}
    BY <1>1, <1>2, <1>3 DEF Esperan
  <2> QED
    BY <1>3, <2>1, FS_EmptySet DEF VecesEsperando
<1>4. CASE estado[e] = "BLOQUEADO"
  <2>1. PICK r \in Recursos : r = blocking_resource[e]
    BY <1>4 DEF IInv, Procesos, Proceso
  <2>2. e \in Esperan(r)
    BY <1>4, <2>1 DEF Esperan
  <2>3. PICK i \in DOMAIN q[r] : q[r][i] = e
    BY <1>1, <2>2
  <2>4. <<r, i>> \in P
    BY <2>3 DEF Lugares
  <2>5. \A p \in P : p = <<r, i>>
    <3> SUFFICES ASSUME NEW p \in P PROVE p = <<r, i>>
      OBVIOUS
    <3>1. p[1] = r
      BY <1>1, <1>2, <2>1 DEF Esperan
    <3>2. p[2] = i
      BY <1>1, <1>2, <2>3, <3>1
    <3> QED
      BY <1>2, <3>1, <3>2
  <2>6. P = {<<r, i>>}
    BY <2>4, <2>5
  <2> QED
    BY <1>4, <2>6, FS_Singleton DEF VecesEsperando
<1> QED
  BY <1>3, <1>4

\* Without users, every ESI is in the list that its state names, once, in no
\* other, and when it is blocked in the queue of its resource (add_esi,
\* block_esi_by_resource, unblock_esi, finish_esi, borrado_de_finish).
THEOREM EachInItsList == Spec /\ SinUsuarios => []CadaUnoEnSuLista
<1>1. ASSUME IInv PROVE CadaUnoEnSuLista
  <2>1. TypeOK
    BY <1>1 DEF IInv, TInv
  <2>2. ASSUME NEW e \in ESIs
        PROVE  /\ Veces(e, READY_ESI_LIST) = IF e \in Listos THEN 1 ELSE 0
               /\ Veces(e, BLOCKED_ESI_LIST) = IF e \in ConEstado("BLOQUEADO") THEN 1 ELSE 0
               /\ Veces(e, FINISHED_ESI_LIST) = IF e \in ConEstado("FINALIZADO") THEN 1 ELSE 0
    BY <1>1, EnVeces DEF IInv, Listas
  <2>3. ASSUME NEW e \in ESIs, NEW r \in Recursos, Veces(e, esis_bloqueados_por_recurso[r]) > 0
        PROVE  blocking_resource[e] = r
    <3>1. Veces(e, esis_bloqueados_por_recurso[r]) = IF e \in Esperan(r) THEN 1 ELSE 0
      BY <1>1, EnVeces DEF IInv, Listas
    <3> QED
      BY <2>3, <3>1 DEF Esperan
  <2>4. \A e \in ESIs : estado[e] = "CORRIENDO" => RUNNING_ESI = e
    BY <1>1 DEF IInv, Siguiente
  <2> QED
    BY <1>1, <2>1, <2>2, <2>3, <2>4, VecesEnLasColas DEF CadaUnoEnSuLista, Listos, ConEstado
<1> QED
  BY <1>1, Invariant, PTL

\* Without users, nobody waits for what nobody will free: what free_resource
\* takes from its owner it gives a chance to the first that waits.
THEOREM WaitsAreJustified == Spec /\ SinUsuarios => []EsperaJustificada
<1>1. ASSUME IInv PROVE EsperaJustificada
  <2>1. ASSUME NEW r \in Recursos, esis_bloqueados_por_recurso[r] # << >>
        PROVE  \/ recurso_tomado_por_esi[r] = ESI_BLOQUEADO
               \/ EnMapa(recurso_tomado_por_esi[r])
               \/ \E e \in ESIs : /\ EnMapa(e) /\ estado[e] \notin {"BLOQUEADO", "FINALIZADO"}
                                  /\ ise[e] # "terminado"
                                  /\ guion[e][linea[e]] = [op |-> "GET", recurso |-> r]
    <3>1. CASE recurso_tomado_por_esi[r] # Nadie
      BY <1>1, <2>1, <3>1 DEF IInv, Duenos, TInv, TypeOK, TipoRecursos
    <3>2. CASE Despertado(r)
      BY <3>2 DEF Despertado, Reintenta, EnMapa
    <3> QED
      BY <1>1, <2>1, <3>1, <3>2 DEF IInv, Esperas
  <2> QED
    BY <2>1 DEF EsperaJustificada
<1> QED
  BY <1>1, Invariant, PTL

\* Without users, the instruction pointer of an ESI that is not in its turn is
\* the number of lines it has executed: the one of a GET that blocked is taken
\* back (dispatch).
THEOREM PointerInPhase == Spec /\ SinUsuarios => []PunteroEnFase
<1>1. ASSUME IInv PROVE PunteroEnFase
  BY <1>1 DEF IInv, Punteros, Puntero, Contando, PunteroEnFase
<1> QED
  BY <1>1, Invariant, PTL

\* Without users, an ESI that ended is only ever forgotten (finish_esi,
\* borrado_de_finish): no free_resource wakes it, and no turn is its own again.
THEOREM FinishedStays == Spec /\ SinUsuarios => FinalizadoNoVuelve
<1>1. ASSUME IInv, Next, NEW e \in ESIs, estado[e] = "FINALIZADO"
      PROVE  estado'[e] \in {"FINALIZADO", "borrado"}
  <2>1. estado \in [ESIs -> {"ausente", "NUEVO", "CORRIENDO", "BLOQUEADO", "DESBLOQUEADO",
                             "FINALIZADO", "borrado"}]
    BY <1>1 DEF IInv, TInv, TypeOK, TipoMapa
  <2>2. CASE estado' = estado
    BY <1>1, <2>2
  <2>3. CASE Despacha
    <3>1. CASE Muere
      BY <1>1, <3>1 DEF Muere, mapa
    <3>2. CASE ~Muere
      <4>1. PICK x \in ESIs : /\ estado' = [estado EXCEPT ![x] = "CORRIENDO"]
                              /\ \/ RUNNING_ESI = Ninguno /\ x = Replan(READY_ESI_LIST).next
                                 \/ RUNNING_ESI # Ninguno /\ x = NEXT_RUNNING_ESI
        BY <2>3, <3>2 DEF Despacha, EnMapa
      <4>2. Replan(READY_ESI_LIST).next \in Listos \cup {Ninguno} /\ Ninguno \notin ESIs
        BY <1>1, EnReplan, IdAssumption DEF IInv, Listas
      <4>3. x # e
        BY <1>1, <4>1, <4>2 DEF IInv, Siguiente, Listos
      <4> QED
        BY <1>1, <4>1, <4>3
    <3> QED
      BY <3>1, <3>2
  <2>4. CASE CierraTurno
    BY <1>1, <2>4 DEF CierraTurno, BorradoDeFinish, Muere, mapa
  <2>5. ASSUME NEW t \in {"despachador", "coordinador"}, FreeResource(t)
        PROVE  estado'[e] \in {"FINALIZADO", "borrado"}
    <3>1. CASE Muere
      BY <1>1, <3>1 DEF Muere, mapa
    <3>2. CASE ~Muere
      <4>1. PICK r \in marco[t].recursos :
              /\ DespiertaUno(r)
              /\ UNCHANGED <<FINISHED_ESI_LIST, RUNNING_ESI, NEXT_RUNNING_ESI, ise, guion, linea>>
        BY <2>5, <3>2 DEF FreeResource, turno, clientes
      <4>2. r \in Recursos
        BY <1>1 DEF IInv, TInv, TypeOK, TipoHilos, Hilos
      <4>3. \/ estado'[e] = estado[e]
            \/ estado[e] = "BLOQUEADO" /\ estado'[e] = "DESBLOQUEADO"
        BY <1>1, <4>1, <4>2, DespiertaUnoKeeps
      <4> QED
        BY <1>1, <4>3
    <3> QED
      BY <3>1, <3>2
  <2>6. CASE FinishEsi("despachador")
    BY <1>1, <2>1, <2>6 DEF FinishEsi, Muere, mapa
  <2>7. ASSUME NEW x \in ESIs, GetSentence(x)
        PROVE  estado'[e] \in {"FINALIZADO", "borrado"}
    <3>1. ise[x] = "pregunta"
      BY <1>1, <2>7 DEF GetSentence, NoPedido, IInv, Turno
    <3>2. x # e
      BY <1>1, <3>1, EnSuTurno
    <3>3. estado' = estado \/ estado' = [estado EXCEPT ![x] = "BLOQUEADO"]
      BY <2>7 DEF GetSentence, BlockEsiByResource, Muere, mapa
    <3> QED
      BY <1>1, <2>1, <3>2, <3>3
  <2>8. ASSUME NEW x \in ESIs, NewEsi(x) PROVE estado'[e] \in {"FINALIZADO", "borrado"}
    <3>1. x # e
      BY <1>1, <2>8 DEF NewEsi, IInv, Procesos, Proceso
    <3> QED
      BY <1>1, <2>8, <3>1 DEF NewEsi
  <2>9. HiloDespachador => \/ Despacha \/ CierraTurno \/ FinishEsi("despachador")
                           \/ FreeResource("despachador") \/ estado' = estado
    BY DEF HiloDespachador, Llamada, AcquireDispatcher, SinResultado, WaitExecutionResult,
       TerminaTurno, FreeResourceQuita, FinishEsiRetorna, FinishEsiReplanifica,
       FinishEsiNotifica, mapa
  <2>10. HiloCoordinador => \/ \E x \in ESIs : GetSentence(x)
                            \/ FreeResource("coordinador") \/ estado' = estado
    BY DEF HiloCoordinador, SetSentence, StoreSentence, StoreSentenceResponde,
       FreeResourceQuita, Muere, mapa
  <2>11. \A x \in ESIs : HiloConexion(x) \/ ExecuteSentence(x) => NewEsi(x) \/ estado' = estado
    BY DEF HiloConexion, SendIdToEsi, NotificaNuevo, ExecuteSentence, mapa
  <2> QED
    BY <1>1, <2>2, <2>3, <2>4, <2>5, <2>6, <2>7, <2>8, <2>9, <2>10, <2>11, SinConsola DEF Next
<1>2. IInv /\ [Next]_vars =>
        [ \A e \in ESIs : estado[e] = "FINALIZADO" => estado'[e] \in {"FINALIZADO", "borrado"} ]_vars
  BY <1>1
<1> QED
  BY <1>2, Invariant, PTL DEF FinalizadoNoVuelve, Spec

-----------------------------------------------------------------------------
(* The deadlock search *)

\* Induction up to n: the least place outside P has the one before it in P.
LEMMA HastaElUltimo ==
  ASSUME NEW n \in Nat, NEW P, 0 \in P, \A i \in 1 .. n : i - 1 \in P => i \in P
  PROVE  \A i \in 0 .. n : i \in P
<1> DEFINE fuera == {i \in 0 .. n : i \notin P}
<1>1. ASSUME fuera # {} PROVE FALSE
  <2>1. Min(fuera) \in fuera /\ \A y \in fuera : Min(fuera) <= y
    BY <1>1, MinIsLeast
  <2> DEFINE m == Min(fuera)
  <2> HIDE DEF m
  <2>2. m \in 0 .. n /\ m \notin P /\ \A y \in fuera : m <= y
    BY <2>1 DEF m
  <2>3. m \in 1 .. n /\ m - 1 \in 0 .. n /\ m - 1 \notin fuera
    BY <2>2
  <2> QED
    BY <2>2, <2>3
<1> QED
  BY <1>1

Buscables == ESIs \cup {ESI_BLOQUEADO}

Restan(corte) == Cardinality(ESIs \ corte)

\* What the search answers for id when f are the answers with one more passed.
Respuesta(f, corte, id) ==
    IF id \in corte THEN [Nada EXCEPT !.ids = {id}]
    ELSE IF ~Bloqueado(id) THEN Nada
    ELSE IF Bloqueante(id) = Nadie THEN [Nada EXCEPT !.muere = TRUE]
    ELSE VuelvePor(id, f[corte \cup {id}][Bloqueante(id)])

Respuestas(f) == [corte \in SUBSET ESIs |-> [id \in Buscables |-> Respuesta(f, corte, id)]]

\* f answers as the search does when fewer than n are left to pass.
Responden(f, n) ==
    \A corte \in SUBSET ESIs : \A id \in Buscables :
        Restan(corte) < n => f[corte][id] = Respuesta(f, corte, id)

\* Who has what a blocked ESI waits for is an ESI, the configuration or nobody.
Enlazados == \A id \in ESIs : Bloqueado(id) => Bloqueante(id) \in Buscables \cup {Nadie}

LEMMA UnoMenos ==
  ASSUME NEW corte \in SUBSET ESIs, NEW id \in ESIs \ corte
  PROVE  /\ Restan(corte) \in Nat /\ corte \cup {id} \in SUBSET ESIs
         /\ Restan(corte \cup {id}) = Restan(corte) - 1
<1> DEFINE quedan == ESIs \ corte
<1>1. /\ quedan \in SUBSET ESIs /\ id \in quedan /\ corte \cup {id} \in SUBSET ESIs
      /\ ESIs \ (corte \cup {id}) = quedan \ {id}
  OBVIOUS
<1>2. Restan(corte) = Cardinality(quedan) /\ Restan(corte \cup {id}) = Cardinality(quedan \ {id})
  BY <1>1 DEF Restan
<1> HIDE DEF quedan
<1>3. IsFiniteSet(quedan)
  BY <1>1, EsisAssumption, FS_Subset
<1>4. Cardinality(quedan) \in Nat /\ Cardinality(quedan \ {id}) = Cardinality(quedan) - 1
  BY <1>1, <1>3, FS_CardinalityType, FS_RemoveElement
<1> QED
  BY <1>1, <1>2, <1>4

LEMMA NivelesDeSobra ==
  /\ Cardinality(ESIs) + 1 \in Nat
  /\ \A c \in SUBSET ESIs : Restan(c) \in Nat /\ Restan(c) < Cardinality(ESIs) + 1
<1>1. Cardinality(ESIs) \in Nat
  BY EsisAssumption, FS_CardinalityType
<1>2. ASSUME NEW c \in SUBSET ESIs PROVE Restan(c) \in Nat /\ Restan(c) <= Cardinality(ESIs)
  <2>1. ESIs \ c \in SUBSET ESIs
    OBVIOUS
  <2> QED
    BY <2>1, EsisAssumption, FS_Subset, FS_CardinalityType DEF Restan
<1> QED
  BY <1>1, <1>2

\* Answers agree with the search one level more than those they are made of.
LEMMA UnNivelMas ==
  ASSUME Enlazados, NEW f, NEW n \in Nat, Responden(f, n)
  PROVE  Responden(Respuestas(f), n + 1)
<1> DEFINE g == Respuestas(f)
<1>1. \A c \in SUBSET ESIs : \A i \in Buscables : g[c][i] = Respuesta(f, c, i)
  BY DEF Respuestas
<1> SUFFICES ASSUME NEW corte \in SUBSET ESIs, NEW id \in Buscables, Restan(corte) < n + 1
             PROVE  Respuesta(f, corte, id) = Respuesta(g, corte, id)
  BY <1>1 DEF Responden
<1> HIDE DEF g
<1>2. CASE id \in corte \/ ~Bloqueado(id) \/ Bloqueante(id) = Nadie
  BY <1>2 DEF Respuesta
<1>3. CASE ~(id \in corte \/ ~Bloqueado(id) \/ Bloqueante(id) = Nadie)
  <2> DEFINE c == corte \cup {id}
             b == Bloqueante(id)
  <2>1. id \in ESIs \ corte
    BY <1>3 DEF Bloqueado, EnMapa
  <2>2. c \in SUBSET ESIs /\ Restan(c) < n /\ b \in Buscables
    <3>1. Restan(corte) \in Nat /\ c \in SUBSET ESIs /\ Restan(c) = Restan(corte) - 1
      BY <2>1, UnoMenos
    <3> QED
      BY <1>3, <2>1, <3>1 DEF Enlazados
  <2> HIDE DEF c, b
  <2>3. f[c][b] = Respuesta(f, c, b)
    BY <2>2 DEF Responden
  <2>4. f[c][b] = g[c][b]
    BY <1>1, <2>2, <2>3
  <2> QED
    BY <1>3, <2>4 DEF Respuesta, c, b
<1> QED
  BY <1>2, <1>3

\* The search, as its recursive equation.
LEMMA EsLaBusqueda ==
  ASSUME Enlazados, NEW corte \in SUBSET ESIs, NEW id \in Buscables
  PROVE  BuscarDeadlockEnLista[corte][id] = Respuesta(BuscarDeadlockEnLista, corte, id)
<1> DEFINE m == Cardinality(ESIs) + 1
           P == {n \in 0 .. m : \E f : Responden(f, n)}
<1>1. m \in Nat /\ \A c \in SUBSET ESIs : Restan(c) \in Nat /\ Restan(c) < m
  BY NivelesDeSobra
<1> HIDE DEF m
<1>2. 0 \in P
  <2>1. Responden(Nada, 0)
    BY <1>1 DEF Responden
  <2> QED
    BY <1>1, <2>1
<1>3. ASSUME NEW n \in 1 .. m, n - 1 \in P PROVE n \in P
  <2>1. PICK f : Responden(f, n - 1)
    BY <1>3
  <2>2. n - 1 \in Nat /\ n - 1 + 1 = n
    BY <1>1
  <2>3. Responden(Respuestas(f), n)
    BY <2>1, <2>2, UnNivelMas
  <2> QED
    BY <2>3
<1>4. m \in P
  <2> HIDE DEF P
  <2>1. \A n \in 0 .. m : n \in P
    BY <1>1, <1>2, <1>3, HastaElUltimo
  <2> QED
    BY <1>1, <2>1
<1>5. PICK f : Responden(f, m)
  BY <1>4
<1> DEFINE h == Respuestas(f)
<1>6. Responden(h, m)
  <2>1. Responden(h, m + 1)
    BY <1>1, <1>5, UnNivelMas
  <2> QED
    BY <1>1, <2>1 DEF Responden
<1> DEFINE Q(g) == g = Respuestas(g)
<1>7. Q(h)
  <2>1. ASSUME NEW c \in SUBSET ESIs, NEW i \in Buscables PROVE Respuesta(f, c, i) = Respuesta(h, c, i)
    <3>1. h[c][i] = Respuesta(f, c, i)
      BY DEF Respuestas
    <3> HIDE DEF h
    <3> QED
      BY <1>1, <1>6, <3>1 DEF Responden
  <2> QED
    BY <2>1 DEF Respuestas
<1>8. Q(BuscarDeadlockEnLista)
  <2>1. BuscarDeadlockEnLista = CHOOSE g : Q(g)
    BY DEF BuscarDeadlockEnLista, Respuestas, Respuesta, Buscables
  <2> HIDE DEF Q
  <2>2. Q(CHOOSE g : Q(g))
    BY <1>7, Zenon
  <2> QED
    BY <2>1, <2>2
<1> QED
  <2> DEFINE F == BuscarDeadlockEnLista
  <2>1. F = Respuestas(F)
    BY <1>8
  <2> HIDE DEF F
  <2>2. F[corte][id] = Respuestas(F)[corte][id]
    BY <2>1
  <2>3. F[corte][id] = Respuesta(F, corte, id)
    BY <2>2 DEF Respuestas
  <2> QED
    BY <2>3 DEF F

-----------------------------------------------------------------------------
(* What the search finds *)

Hallazgos == [ids : SUBSET ESIs, DEADLOCK_ENCONTRADO : BOOLEAN, muere : BOOLEAN]

\* Some blocked ESIs who wait for nobody else.
Encerrados(ids) == \A f \in ids : Bloqueado(f) /\ Bloqueante(f) \in ids

\* Every one of them is waited for too.
Cerrados(ids) == Encerrados(ids) /\ \A f \in ids : \E g \in ids : Bloqueante(g) = f

\* They lead from id to cierra, each waiting for another.
Llevan(ids, id, cierra) ==
    /\ id \in ids /\ cierra \in ids
    /\ \A f \in ids \ {cierra} : Bloqueado(f) /\ Bloqueante(f) \in ids
    /\ \A f \in ids \ {id} : \E g \in ids \ {cierra} : Bloqueante(g) = f

\* What a search for id that passed those of corte comes back with: nobody, a
\* circle, or a way from id to the one of corte where a circle is to close.
Hallado(h, corte, id) ==
    /\ h \in Hallazgos
    /\ \/ h.ids = {}
       \/ h.DEADLOCK_ENCONTRADO /\ Cerrados(h.ids)
       \/ /\ ~h.DEADLOCK_ENCONTRADO
          /\ \E c \in corte : h.ids \cap corte = {c} /\ Llevan(h.ids, id, c)
    /\ \A ids \in SUBSET ESIs : id \in ids /\ Encerrados(ids) => h.ids # {} /\ h.ids \subseteq ids

LEMMA HalladoVuelve ==
  ASSUME NEW corte \in SUBSET ESIs, NEW id \in ESIs \ corte, Bloqueado(id),
         NEW h, Hallado(h, corte \cup {id}, Bloqueante(id))
  PROVE  Hallado(VuelvePor(id, h), corte, id)
<1> DEFINE v == VuelvePor(id, h)
           b == Bloqueante(id)
<1>1. h \in Hallazgos
  BY DEF Hallado
<1>2. \A ids \in SUBSET ESIs : id \in ids /\ Encerrados(ids) => b \in ids /\ h.ids # {} /\ h.ids \subseteq ids
  BY DEF Hallado, Encerrados
<1>3. CASE h.ids = {} \/ id \in h.ids \/ h.DEADLOCK_ENCONTRADO
  <2>1. v \in Hallazgos /\ v.ids = h.ids /\ v.DEADLOCK_ENCONTRADO
    BY <1>1, <1>3 DEF VuelvePor, Hallazgos
  <2> HIDE DEF v
  <2>2. v.ids = {} \/ Cerrados(v.ids)
    <3>1. CASE h.ids = {} \/ h.DEADLOCK_ENCONTRADO
      BY <2>1, <3>1 DEF Hallado
    <3>2. CASE ~(h.ids = {} \/ h.DEADLOCK_ENCONTRADO)
      <4>1. PICK c \in corte \cup {id} : h.ids \cap (corte \cup {id}) = {c} /\ Llevan(h.ids, b, c)
        BY <3>2 DEF Hallado
      <4>2. c = id
        BY <1>3, <3>2, <4>1
      <4>3. Encerrados(h.ids)
        BY <4>1, <4>2 DEF Llevan, Encerrados
      <4>4. ASSUME NEW f \in h.ids PROVE \E g \in h.ids : Bloqueante(g) = f
        BY <4>1, <4>2 DEF Llevan
      <4> QED
        BY <2>1, <4>3, <4>4 DEF Cerrados
    <3> QED
      BY <3>1, <3>2
  <2>3. Hallado(v, corte, id)
    BY <1>2, <2>1, <2>2 DEF Hallado
  <2> QED
    BY <2>3 DEF v
<1>4. CASE ~(h.ids = {} \/ id \in h.ids \/ h.DEADLOCK_ENCONTRADO)
  <2>1. v \in Hallazgos /\ v.ids = h.ids \cup {id} /\ ~v.DEADLOCK_ENCONTRADO
    BY <1>1, <1>4 DEF VuelvePor, Hallazgos
  <2>2. PICK c \in corte \cup {id} : h.ids \cap (corte \cup {id}) = {c} /\ Llevan(h.ids, b, c)
    BY <1>4 DEF Hallado
  <2>3. c \in corte /\ c # id
    BY <1>4, <2>2
  <2> HIDE DEF v
  <2>4. v.ids \cap corte = {c}
    BY <2>1, <2>2, <2>3
  <2>5. Llevan(v.ids, id, c)
    <3>1. ASSUME NEW f \in v.ids \ {c} PROVE Bloqueado(f) /\ Bloqueante(f) \in v.ids
      BY <2>1, <2>2 DEF Llevan
    <3>2. ASSUME NEW f \in v.ids \ {id} PROVE \E g \in v.ids \ {c} : Bloqueante(g) = f
      <4>1. CASE f = b
        BY <2>1, <2>3, <4>1
      <4>2. CASE f # b
        BY <2>1, <2>2, <4>2 DEF Llevan
      <4> QED
        BY <4>1, <4>2
    <3> QED
      BY <2>1, <2>2, <3>1, <3>2 DEF Llevan
  <2>6. ASSUME NEW ids \in SUBSET ESIs, id \in ids, Encerrados(ids)
        PROVE  v.ids # {} /\ v.ids \subseteq ids
    BY <1>2, <2>1, <2>6
  <2>7. Hallado(v, corte, id)
    BY <2>1, <2>3, <2>4, <2>5, <2>6 DEF Hallado
  <2> QED
    BY <2>7 DEF v
<1> QED
  BY <1>3, <1>4

LEMMA TodoHallado ==
  ASSUME Enlazados, NEW corte \in SUBSET ESIs, NEW id \in Buscables
  PROVE  Hallado(BuscarDeadlockEnLista[corte][id], corte, id)
<1> DEFINE F == BuscarDeadlockEnLista
           m == Cardinality(ESIs) + 1
           P == {n \in 0 .. m : \A c \in SUBSET ESIs : \A i \in Buscables :
                                  Restan(c) < n => Hallado(F[c][i], c, i)}
<1>1. m \in Nat /\ \A c \in SUBSET ESIs : Restan(c) \in Nat /\ Restan(c) < m
  BY NivelesDeSobra
<1>2. \A c \in SUBSET ESIs : \A i \in Buscables : F[c][i] = Respuesta(F, c, i)
  BY EsLaBusqueda
<1> HIDE DEF m, F
<1>3. 0 \in P
  BY <1>1
<1>4. ASSUME NEW n \in 1 .. m, n - 1 \in P PROVE n \in P
  <2> SUFFICES ASSUME NEW c \in SUBSET ESIs, NEW i \in Buscables, Restan(c) < n
               PROVE  Hallado(F[c][i], c, i)
    BY <1>1
  <2>1. F[c][i] = Respuesta(F, c, i)
    BY <1>2
  <2>2. CASE i \in c
    <3> DEFINE h == [Nada EXCEPT !.ids = {i}]
    <3>1. h \in Hallazgos /\ h.ids = {i} /\ ~h.DEADLOCK_ENCONTRADO
      BY <2>2 DEF Hallazgos, Nada
    <3>2. F[c][i] = h
      BY <2>1, <2>2 DEF Respuesta
    <3> HIDE DEF h
    <3>3. h.ids \cap c = {i} /\ Llevan(h.ids, i, i)
      BY <2>2, <3>1 DEF Llevan
    <3> QED
      BY <2>2, <3>1, <3>2, <3>3 DEF Hallado
  <2>3. CASE i \notin c /\ (~Bloqueado(i) \/ Bloqueante(i) = Nadie)
    <3> DEFINE muerta == [Nada EXCEPT !.muere = TRUE]
    <3>1. Nada \in Hallazgos /\ Nada.ids = {} /\ muerta \in Hallazgos /\ muerta.ids = {}
      BY DEF Hallazgos, Nada
    <3>2. F[c][i] \in Hallazgos /\ F[c][i].ids = {}
      <4>1. F[c][i] = Nada \/ F[c][i] = muerta
        BY <2>1, <2>3 DEF Respuesta
      <4> HIDE DEF muerta
      <4> QED
        BY <3>1, <4>1
    <3>3. \A ids \in SUBSET ESIs : ~(i \in ids /\ Encerrados(ids))
      BY <2>3, IdAssumption DEF Encerrados
    <3> QED
      BY <3>2, <3>3 DEF Hallado
  <2>4. CASE ~(i \in c \/ ~Bloqueado(i) \/ Bloqueante(i) = Nadie)
    <3> DEFINE d == c \cup {i}
    <3>1. i \in ESIs \ c
      BY <2>4 DEF Bloqueado, EnMapa
    <3>2. d \in SUBSET ESIs /\ Restan(d) < n - 1 /\ Bloqueante(i) \in Buscables
      <4>1. Restan(c) \in Nat /\ d \in SUBSET ESIs /\ Restan(d) = Restan(c) - 1
        BY <3>1, UnoMenos
      <4> QED
        BY <1>1, <2>4, <3>1, <4>1 DEF Enlazados
    <3> HIDE DEF d
    <3>3. Hallado(F[d][Bloqueante(i)], d, Bloqueante(i))
      BY <1>4, <3>2
    <3>4. F[c][i] = VuelvePor(i, F[d][Bloqueante(i)])
      BY <2>1, <2>4 DEF Respuesta, d
    <3> QED
      BY <2>4, <3>1, <3>3, <3>4, HalladoVuelve DEF d
  <2> QED
    BY <2>2, <2>3, <2>4
<1> QED
  <2> HIDE DEF P
  <2>1. \A n \in 0 .. m : n \in P
    BY <1>1, <1>3, <1>4, HastaElUltimo
  <2>2. m \in P
    BY <1>1, <2>1
  <2> QED
    BY <1>1, <2>2 DEF P, F

-----------------------------------------------------------------------------
(* Who is blocked, and the whole answer *)

\* Everybody that is blocked is in the blocked list, for a resource.
Bloqueados == \A e \in ESIs : estado[e] = "BLOQUEADO" =>
    e \in ToSet(BLOCKED_ESI_LIST) /\ blocking_resource[e] \in Recursos

LEMMA BloqueadosStay ==
  ASSUME Bloqueados, UNCHANGED <<BLOCKED_ESI_LIST, blocking_resource>>,
         \A e \in ESIs : estado'[e] = "BLOQUEADO" => estado[e] = "BLOQUEADO"
  PROVE  Bloqueados'
BY DEF Bloqueados

\* Whoever is taken out of the list is not blocked any more.
LEMMA SaleUno ==
  ASSUME TInv, Bloqueados, NEW e \in ESIs, NEW s, s # "BLOQUEADO",
         estado' = [estado EXCEPT ![e] = s],
         BLOCKED_ESI_LIST' = RemoveFirst(BLOCKED_ESI_LIST, e),
         \A f \in ESIs \ {e} : blocking_resource'[f] = blocking_resource[f]
  PROVE  Bloqueados'
<1> DEFINE lista == BLOCKED_ESI_LIST
<1>1. lista \in Seq(ESIs) /\ TipoMapa
  BY DEF TInv, TypeOK, TipoListas
<1>2. ASSUME NEW f \in ESIs, f # e, f \in ToSet(lista) PROVE f \in ToSet(RemoveFirst(lista, e))
  <2> DEFINE P == {i \in 1 .. Len(lista) : lista[i] = e}
  <2>1. CASE P = {}
    BY <1>2, <2>1 DEF RemoveFirst
  <2>2. CASE P # {}
    <3> DEFINE m == Min(P)
    <3>1. m \in 1 .. Len(lista) /\ lista[m] = e
      <4>1. Len(lista) \in Nat /\ P \in SUBSET (1 .. Len(lista))
        BY <1>1
      <4>2. m \in P
        <5> HIDE DEF P
        <5> QED
          BY <2>2, <4>1, FirstPlace
      <4> QED
        BY <4>2
    <3>2. RemoveFirst(lista, e) = RemoveAt(lista, m)
      BY <1>1, <2>2 DEF RemoveFirst, SelectInSeq
    <3> HIDE DEF m
    <3> DEFINE r == RemoveAt(lista, m)
    <3>3. /\ r \in Seq(ESIs) /\ Len(r) = Len(lista) - 1
          /\ \A j \in 1 .. Len(lista) - 1 : r[j] = IF j < m THEN lista[j] ELSE lista[j + 1]
      BY <1>1, <3>1, RemoveAtProperties
    <3> HIDE DEF r
    <3>4. PICK i \in 1 .. Len(lista) : lista[i] = f
      BY <1>1, <1>2 DEF ToSet
    <3>5. \E j \in 1 .. Len(r) : r[j] = f
      <4>1. CASE i < m
        BY <1>1, <3>1, <3>3, <3>4, <4>1
      <4>2. CASE i > m
        <5>1. i - 1 \in 1 .. Len(r) /\ ~(i - 1 < m) /\ i - 1 + 1 = i
          BY <1>1, <3>1, <3>3, <3>4, <4>2
        <5> QED
          BY <3>3, <3>4, <5>1
      <4> QED
        BY <1>2, <3>1, <3>4, <4>1, <4>2
    <3> QED
      BY <3>2, <3>3, <3>5 DEF ToSet, r
  <2> QED
    BY <2>1, <2>2
<1> QED
  BY <1>1, <1>2 DEF Bloqueados, TipoMapa

LEMMA SinBloqueados ==
  ASSUME Bloqueados, UNCHANGED mapa, UNCHANGED BLOCKED_ESI_LIST
  PROVE  Bloqueados'
BY BloqueadosStay DEF mapa

LEMMA MuereBloqueados == ASSUME Bloqueados, Muere PROVE Bloqueados'
BY SinBloqueados DEF Muere, listas

LEMMA LlamadaBloqueados ==
  ASSUME TInv, Bloqueados, NEW t \in Hilos, Llamada(t) PROVE Bloqueados'
<1>1. CASE FreeResource(t) /\ ~Muere
  <2>1. PICK r \in marco[t].recursos : DespiertaUno(r)
    BY <1>1 DEF FreeResource
  <2> DEFINE cola == DesdeElPrimeroValido(esis_bloqueados_por_recurso[r])
  <2>2. CASE cola = << >>
    BY <2>1, <2>2, SinBloqueados DEF DespiertaUno
  <2>3. CASE cola # << >>
    <3> DEFINE e == Head(cola)
    <3>1. e \in ESIs
      <4>1. r \in Recursos
        BY <1>1 DEF TInv, TypeOK, TipoHilos
      <4>2. cola \in Seq(ESIs)
        BY <4>1, DesdeElPrimeroValidoTipo DEF TInv, TypeOK, TipoRecursos
      <4> QED
        BY <2>3, <4>2
    <3>2. /\ blocking_resource' = [blocking_resource EXCEPT ![e] = SinRecurso]
          /\ UnblockEsi(e)
      BY <2>1, <2>3 DEF DespiertaUno, CambiarRecursoQueLoBloquea
    <3> HIDE DEF e
    <3>3. \A f \in ESIs \ {e} : blocking_resource'[f] = blocking_resource[f]
      BY <3>1, <3>2 DEF TInv, TypeOK, TipoMapa
    <3> QED
      BY <3>1, <3>2, <3>3, SaleUno DEF UnblockEsi
  <2> QED
    BY <2>2, <2>3
<1>2. CASE FinishEsi(t) /\ ~Muere
  <2> DEFINE e == marco[t].esi
  <2>1. /\ e \in ESIs /\ UNCHANGED blocking_resource
        /\ estado' = [estado EXCEPT ![e] = "FINALIZADO"]
        /\ \/ BLOCKED_ESI_LIST' = RemoveFirst(BLOCKED_ESI_LIST, e)
           \/ UNCHANGED BLOCKED_ESI_LIST
    BY <1>2 DEF FinishEsi, EnMapa
  <2> HIDE DEF e
  <2>2. \A f \in ESIs : estado'[f] = "BLOQUEADO" => estado[f] = "BLOQUEADO"
    BY <2>1 DEF TInv, TypeOK, TipoMapa
  <2> QED
    BY <2>1, <2>2, SaleUno, BloqueadosStay
<1>3. CASE FreeResourceQuita(t)
  BY <1>3, SinBloqueados DEF FreeResourceQuita, listas
<1>4. CASE FinishEsiRetorna(t) \/ FinishEsiReplanifica(t) \/ FinishEsiNotifica(t)
  BY <1>4, SinBloqueados DEF FinishEsiRetorna, FinishEsiReplanifica, FinishEsiNotifica, listas
<1> QED
  BY <1>1, <1>2, <1>3, <1>4, MuereBloqueados DEF Llamada

LEMMA GetSentenceBloqueados ==
  ASSUME TInv, Bloqueados, NEW e \in ESIs, GetSentence(e) PROVE Bloqueados'
<1> DEFINE r == pedido[e].recurso
<1>1. CASE ResourceTaken(r, e) /\ EnMapa(e)
  <2>1. BlockEsiByResource(e, r)
    BY <1>1 DEF GetSentence
  <2>2. r \in Recursos /\ TipoMapa /\ BLOCKED_ESI_LIST \in Seq(ESIs)
    BY DEF TInv, TypeOK, TipoListas, EnTurno, GetSentence
  <2> HIDE DEF r
  <2>3. /\ estado' = [estado EXCEPT ![e] = "BLOQUEADO"]
        /\ BLOCKED_ESI_LIST' = Append(BLOCKED_ESI_LIST, e)
        /\ blocking_resource' = [blocking_resource EXCEPT ![e] = r]
    BY <2>1 DEF BlockEsiByResource, CambiarRecursoQueLoBloquea
  <2>4. ToSet(BLOCKED_ESI_LIST') = ToSet(BLOCKED_ESI_LIST) \cup {e}
    <3> DEFINE s == BLOCKED_ESI_LIST
    <3>1. /\ Len(s) \in Nat /\ DOMAIN Append(s, e) = 1 .. Len(s) + 1 /\ DOMAIN s = 1 .. Len(s)
          /\ \A i \in 1 .. Len(s) : Append(s, e)[i] = s[i]
          /\ Append(s, e)[Len(s) + 1] = e
      BY <2>2
    <3> HIDE DEF s
    <3>2. ToSet(Append(s, e)) = ToSet(s) \cup {e}
      BY <3>1 DEF ToSet
    <3> QED
      BY <2>3, <3>2 DEF s
  <2> QED
    BY <2>2, <2>3, <2>4 DEF Bloqueados, TipoMapa
<1>2. CASE ~(ResourceTaken(r, e) /\ EnMapa(e))
  BY <1>2, SinBloqueados, MuereBloqueados DEF GetSentence, listas
<1> QED
  BY <1>1, <1>2

LEMMA NextBloqueados == TInv /\ Bloqueados /\ [Next]_vars => Bloqueados'
<1> SUFFICES ASSUME TInv, Bloqueados, [Next]_vars PROVE Bloqueados'
  OBVIOUS
<1>1. TipoMapa
  BY DEF TInv, TypeOK
<1>2. CASE UNCHANGED vars
  BY <1>2, SinBloqueados DEF vars, listas
<1>3. CASE HiloDespachador
  <2>1. CASE Despacha /\ ~Muere
    <3>1. PICK e : estado' = [estado EXCEPT ![e] = "CORRIENDO"]
      BY <2>1 DEF Despacha
    <3>2. UNCHANGED <<BLOCKED_ESI_LIST, blocking_resource>>
      BY <2>1 DEF Despacha
    <3>3. \A f \in ESIs : estado'[f] = "BLOQUEADO" => estado[f] = "BLOQUEADO"
      BY <1>1, <3>1 DEF TipoMapa
    <3> QED
      BY <3>2, <3>3, BloqueadosStay
  <2>2. CASE CierraTurno /\ ~Muere
    <3>1. estado' = BorradoDeFinish(estado) /\ UNCHANGED <<BLOCKED_ESI_LIST, blocking_resource>>
      BY <2>2 DEF CierraTurno
    <3>2. \A f \in ESIs : estado'[f] = "BLOQUEADO" => estado[f] = "BLOQUEADO"
      BY <1>1, <3>1 DEF BorradoDeFinish, TipoMapa
    <3> QED
      BY <3>1, <3>2, BloqueadosStay
  <2>3. CASE AcquireDispatcher \/ SinResultado \/ WaitExecutionResult \/ TerminaTurno
    BY <2>3, SinBloqueados
    DEF AcquireDispatcher, SinResultado, WaitExecutionResult, TerminaTurno, listas
  <2> QED
    BY <1>3, <2>1, <2>2, <2>3, MuereBloqueados, LlamadaBloqueados DEF HiloDespachador, Hilos
<1>4. CASE HiloCoordinador
  <2>1. ASSUME NEW e \in ESIs, SetSentence(e) \/ StoreSentence(e) \/ StoreSentenceResponde(e)
        PROVE  Bloqueados'
    BY <2>1, SinBloqueados, MuereBloqueados
    DEF SetSentence, StoreSentence, StoreSentenceResponde, listas
  <2> QED
    BY <1>4, <2>1, GetSentenceBloqueados, LlamadaBloqueados DEF HiloCoordinador, Llamada, Hilos
<1>5. CASE HiloConsola
  <2>1. ASSUME NEW r \in Recursos, UnblockCmd(r) PROVE Bloqueados'
    <3> DEFINE cola == DesdeElPrimeroValido(esis_bloqueados_por_recurso[r])
    <3>1. CASE cola = << >>
      BY <2>1, <3>1, SinBloqueados DEF UnblockCmd, listas
    <3>2. CASE cola # << >>
      <4>1. cola \in Seq(ESIs)
        BY DesdeElPrimeroValidoTipo DEF TInv, TypeOK, TipoRecursos
      <4>2. Head(cola) \in ESIs /\ UnblockEsi(Head(cola)) /\ UNCHANGED blocking_resource
        BY <2>1, <3>2, <4>1 DEF UnblockCmd
      <4> HIDE DEF cola
      <4> QED
        BY <4>2, SaleUno DEF UnblockEsi
    <3> QED
      BY <3>1, <3>2
  <2>2. ASSUME \/ \E e \in ESIs : KillCmd(e)
               \/ \E r \in Recursos : UnblockResource(r)
               \/ DeadlockCmd
        PROVE  Bloqueados'
    BY <2>2, SinBloqueados DEF KillCmd, UnblockResource, DeadlockCmd, listas
  <2> QED
    BY <1>5, <2>1, <2>2, LlamadaBloqueados DEF HiloConsola, Hilos
<1>6. ASSUME NEW e \in ESIs, HiloConexion(e) \/ ExecuteSentence(e) \/ Desconecta(e)
      PROVE  Bloqueados'
  <2>1. CASE NewEsi(e)
    <3>1. \A f \in ESIs : estado'[f] = "BLOQUEADO" => estado[f] = "BLOQUEADO"
      BY <1>1, <2>1 DEF NewEsi, TipoMapa
    <3> QED
      BY <2>1, <3>1, BloqueadosStay DEF NewEsi
  <2>2. CASE SendIdToEsi(e) \/ NotificaNuevo(e) \/ ExecuteSentence(e) \/ Desconecta(e)
    BY <2>2, SinBloqueados DEF SendIdToEsi, NotificaNuevo, ExecuteSentence, Desconecta, listas
  <2> QED
    BY <1>6, <2>1, <2>2 DEF HiloConexion
<1> QED
  BY <1>2, <1>3, <1>4, <1>5, <1>6 DEF Next

LEMMA LaBusquedaDice ==
  ASSUME TInv, Bloqueados
  PROVE  BuscarDeadlock = {e \in ESIs : EnCirculo(e)}
<1> DEFINE F == BuscarDeadlockEnLista
<1>1. Enlazados
  BY DEF TInv, TypeOK, TipoRecursos, Bloqueados, Bloqueado, Bloqueante, Enlazados, Buscables
<1>2. ASSUME NEW e \in ESIs PROVE Hallado(F[{}][e], {}, e)
  BY <1>1, TodoHallado DEF Buscables
<1>3. /\ ToSet(BLOCKED_ESI_LIST) \subseteq ESIs
      /\ BuscarDeadlock = UNION {F[{}][e].ids : e \in ToSet(BLOCKED_ESI_LIST)}
  <2>1. ToSet(BLOCKED_ESI_LIST) \subseteq ESIs
    BY DEF TInv, TypeOK, TipoListas, ToSet
  <2> QED
    BY <2>1 DEF BuscarDeadlock, Busquedas
<1> HIDE DEF F
<1>4. ASSUME NEW e \in ESIs, NEW x \in F[{}][e].ids PROVE x \in ESIs /\ EnCirculo(x)
  <2> DEFINE ids == F[{}][e].ids
  <2>1. ids \in SUBSET ESIs /\ Cerrados(ids)
    BY <1>2, <1>4 DEF Hallado, Hallazgos
  <2> HIDE DEF ids
  <2>2. ASSUME NEW f \in ids
        PROVE  EsperaPor(f) \cap ids # {} /\ \E g \in ids : f \in EsperaPor(g)
    BY <2>1 DEF Cerrados, Encerrados, EsperaPor
  <2>3. x \in ids
    BY <1>4 DEF ids
  <2> QED
    BY <2>1, <2>2, <2>3 DEF EnCirculo
<1>5. ASSUME NEW x \in ESIs, EnCirculo(x) PROVE x \in F[{}][x].ids /\ x \in ToSet(BLOCKED_ESI_LIST)
  <2>1. PICK C \in SUBSET ESIs :
          /\ x \in C
          /\ \A f \in C : EsperaPor(f) \cap C # {} /\ \E g \in C : f \in EsperaPor(g)
    BY <1>5 DEF EnCirculo
  <2>2. Encerrados(C) /\ \A f \in C : \E g \in C : Bloqueante(g) = f
    BY <2>1 DEF Encerrados, EsperaPor
  <2>3. ASSUME NEW f \in C, NEW g \in C, Bloqueante(f) = Bloqueante(g) PROVE f = g
    <3> DEFINE s == [f1 \in C |-> Bloqueante(f1)]
    <3>1. s \in Surjection(C, C)
      BY <2>2 DEF Encerrados, Surjection
    <3>2. s[f] = s[g]
      BY <2>3
    <3> HIDE DEF s
    <3>3. s \in Injection(C, C)
      BY <2>1, <3>1, EsisAssumption, FS_Subset, FS_SurjSameCardinalityImpliesInj
    <3> QED
      BY <3>2, <3>3 DEF Injection, IsInjective
  <2> DEFINE ids == F[{}][x].ids
  <2>4. ids # {} /\ ids \subseteq C /\ Cerrados(ids)
    BY <1>2, <2>1, <2>2 DEF Hallado
  <2> HIDE DEF ids
  <2>5. ASSUME x \notin ids PROVE FALSE
    <3>1. ASSUME NEW f \in C \ ids PROVE Bloqueado(f) /\ Bloqueante(f) \in C \ ids
      <4>1. Bloqueado(f) /\ Bloqueante(f) \in C
        BY <2>2, <3>1 DEF Encerrados
      <4>2. ASSUME Bloqueante(f) \in ids PROVE FALSE
        <5>1. PICK g \in ids : Bloqueante(g) = Bloqueante(f)
          BY <2>4, <4>2 DEF Cerrados
        <5> QED
          BY <2>3, <2>4, <3>1, <5>1
      <4> QED
        BY <4>1, <4>2
    <3>2. x \in C \ ids /\ Encerrados(C \ ids) /\ C \ ids \in SUBSET ESIs
      BY <2>1, <2>5, <3>1 DEF Encerrados
    <3>3. ids \subseteq C \ ids
      BY <1>2, <3>2 DEF Hallado, ids
    <3> QED
      BY <2>4, <3>3
  <2>6. x \in ToSet(BLOCKED_ESI_LIST)
    BY <2>1, <2>2 DEF Encerrados, Bloqueado, Bloqueados
  <2> QED
    BY <2>5, <2>6 DEF ids
<1> QED
  BY <1>3, <1>4, <1>5

\* What the console answers to deadlock are the ESIs that wait for each other in a
\* circle, all of them and nobody else, whatever users do (buscar_deadlock): the
\* search ends, passes over who waits for a circle from outside, and starts from
\* every ESI that is blocked.
THEOREM DeadlocksAreFound == Spec => []DeadlockEsCirculo
<1>1. Init => Bloqueados
  BY DEF Init, Bloqueados
<1>2. Spec => [](TInv /\ Bloqueados)
  BY <1>1, InitTInv, NextTInv, NextBloqueados, PTL DEF Spec
<1>3. TInv /\ Bloqueados => DeadlockEsCirculo
  BY LaBusquedaDice DEF DeadlockEsCirculo
<1> QED
  BY <1>2, <1>3, PTL

=============================================================================
