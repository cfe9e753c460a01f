----------------------- MODULE Sincronizacion_proofs -----------------------
(***************************************************************************)
(* The locks of the planifier, for any algorithm and any number of         *)
(* commands, connections and interruptions.  What a thread may do with the *)
(* rest of its program is a property of that program, of what the thread   *)
(* has locked and of where it is in its conversations with the others: the *)
(* greatest set closed under the instructions.  A handler keeps to it if   *)
(* what follows the handler does.                                          *)
(***************************************************************************)
EXTENDS Sincronizacion, TLAPS, SequenceTheorems

-----------------------------------------------------------------------------
(* Programs *)

EsPrograma(p) == \E S : p \in Seq(S)

LEMMA VacioEsPrograma == EsPrograma(<< >>)
<1>1. << >> \in Seq({})
  OBVIOUS
<1>. QED
  BY <1>1 DEF EsPrograma

LEMMA UnoEsPrograma == ASSUME NEW i PROVE EsPrograma(<<i>>)
<1>1. <<i>> \in Seq({i})
  OBVIOUS
<1>. QED
  BY <1>1 DEF EsPrograma

LEMMA MasInstrucciones ==
    ASSUME NEW S, NEW T, NEW p \in Seq(S), S \subseteq T
    PROVE  p \in Seq(T)
OBVIOUS

LEMMA UnidosSonPrograma ==
    ASSUME NEW p, NEW q, EsPrograma(p), EsPrograma(q)
    PROVE  EsPrograma(p \o q)
<1>1. PICK S, T : p \in Seq(S) /\ q \in Seq(T)
  BY DEF EsPrograma
<1>2. p \in Seq(S \cup T) /\ q \in Seq(S \cup T)
  BY <1>1, MasInstrucciones
<1>3. p \o q \in Seq(S \cup T)
  BY <1>2, ConcatProperties
<1>. QED
  BY <1>3 DEF EsPrograma

LEMMA UnidosDeTres ==
    ASSUME NEW p, NEW q, NEW r, EsPrograma(p), EsPrograma(q), EsPrograma(r)
    PROVE  (p \o q) \o r = p \o (q \o r)
<1>1. PICK S, T, U : p \in Seq(S) /\ q \in Seq(T) /\ r \in Seq(U)
  BY DEF EsPrograma
<1> DEFINE V == S \cup T \cup U
<1>2. S \subseteq V /\ T \subseteq V /\ U \subseteq V
  OBVIOUS
<1> HIDE DEF V
<1>3. p \in Seq(V) /\ q \in Seq(V) /\ r \in Seq(V)
  BY <1>1, <1>2, MasInstrucciones
<1>. QED
  BY <1>3, ConcatAssociative

LEMMA UnidosAlVacio ==
    ASSUME NEW p, EsPrograma(p)
    PROVE  << >> \o p = p /\ p \o << >> = p
BY ConcatEmptySeq DEF EsPrograma

LEMMA CabezaYCola ==
    ASSUME NEW i, NEW q, EsPrograma(q)
    PROVE  /\ <<i>> \o q # << >>
           /\ Head(<<i>> \o q) = i /\ Tail(<<i>> \o q) = q
<1>1. PICK S : q \in Seq(S)
  BY DEF EsPrograma
<1>2. PICK T : T = S \cup {i}
  OBVIOUS
<1>3. S \subseteq T /\ i \in T
  BY <1>2
<1>4. q \in Seq(T) /\ <<i>> \in Seq(T)
  BY <1>1, <1>3, MasInstrucciones
<1>5. /\ <<i>> \o q \in Seq(T) /\ Len(<<i>> \o q) = 1 + Len(q) /\ Len(q) \in Nat
      /\ \A n \in 1 .. 1 + Len(q) : (<<i>> \o q)[n] = IF n <= 1 THEN i ELSE q[n - 1]
  <2>1. Len(<<i>>) = 1 /\ <<i>>[1] = i
    OBVIOUS
  <2>2. Len(q) \in Nat
    BY <1>4
  <2>. QED
    BY <1>4, <2>1, <2>2, ConcatProperties
<1>6. PICK p : p = <<i>> \o q
  OBVIOUS
<1>7. /\ p \in Seq(T) /\ Len(p) = 1 + Len(q) /\ Len(q) \in Nat /\ p # << >>
      /\ p[1] = i /\ \A n \in 1 .. Len(q) : p[n + 1] = q[n]
  BY <1>5, <1>6
<1>8. Head(p) = i
  BY <1>7
<1>9. Tail(p) = q
  <2>1. Tail(p) \in Seq(T) /\ Len(Tail(p)) = Len(q) /\ \A n \in 1 .. Len(q) : Tail(p)[n] = q[n]
    BY <1>7, HeadTailProperties
  <2>. QED
    BY <1>4, <2>1
<1>. QED
  BY <1>6, <1>7, <1>8, <1>9

LEMMA ColaEsPrograma ==
    ASSUME NEW p, EsPrograma(p), p # << >>
    PROVE  EsPrograma(Tail(p)) /\ p = <<Head(p)>> \o Tail(p)
<1>1. PICK S : p \in Seq(S)
  BY DEF EsPrograma
<1>2. Tail(p) \in Seq(S) /\ Head(p) \in S /\ p = <<Head(p)>> \o Tail(p)
  BY <1>1
<1>. QED
  BY <1>2 DEF EsPrograma

LEMMA Pareja == ASSUME NEW i, NEW j PROVE <<i, j>> = <<i>> \o <<j>>
<1>1. PICK p : p = <<i, j>>
  OBVIOUS
<1>2. p \in Seq({i, j}) /\ p # << >> /\ Head(p) = i
  BY <1>1
<1>3. Tail(p) = <<j>>
  BY <1>1
<1>. QED
  BY <1>1, <1>2, <1>3, ColaEsPrograma DEF EsPrograma

LEMMA Terna == ASSUME NEW i, NEW j, NEW k PROVE <<i, j, k>> = <<i>> \o <<j, k>>
OBVIOUS

-----------------------------------------------------------------------------
(* What a thread may do *)

\* The order in which the mutexes of the data are locked, which is not the same
\* for every algorithm.
Rango(a, m) ==
    CASE m = "blocked_by_resource" -> 0
      [] m = "blocked_resources" -> 1
      [] m = "running_1" -> 2
      [] m = "next_2" -> IF a \in {"FIFO", "HRRN"} THEN 3 ELSE 4
      [] m = "blocked_3" -> IF a \in {"FIFO", "HRRN"} THEN 4 ELSE 3
      [] m = "ready_4" -> 5
      [] m = "finished_5" -> 6
      [] m = "esi_map_6" -> 7

\* Who has locked H may lock m: the queues of resources, or in order.
Puede(a, H, m) ==
    /\ m \in DeDatos \ H
    /\ m = "blocked_by_resource" \/ \A h \in H : Rango(a, h) < Rango(a, m)

\* Where each thread may be.  The dispatcher is in a turn, waits for a result, or
\* has told the console that it stops; the console has asked to block or to pause,
\* sleeps until it is told, and goes on; the coordinator's thread has a sentence.
FasesDe(t) ==
    CASE t = "despachador" -> {"turno", "espera", "avisado", "pausado"}
      [] t = "consola" -> {"teclado", "pide", "tiene", "dormida", "vuelve", "bloquea", "suelta",
                           "pausa", "pausa_tiene", "pausa_dormida", "pausa_vuelve", "reanuda"}
      [] t = "coordinador" -> {"oye", "atiende"}
      [] t = "conexion" -> {"conexion"}

Reposo == {"turno", "teclado", "oye", "conexion"}

\* An instruction that a thread may run with H locked, being in f.
Permite(a, i, H, f) ==
    /\ i.ins \in {"lock", "unlock", "pasa", "trylock", "wait", "duerme", "signal",
                  "pon", "si", "elige", "manda", "recibe"}
    /\ f \in {"tiene", "pausa_tiene"} => i.ins = "wait"
    /\ i.ins = "lock" =>
         /\ i.m \in Mutexes
         /\ i.m \in DeDatos => Puede(a, H, i.m)
         /\ i.m = "permission_to_block_manager" => f \in {"pide", "vuelve"}
         /\ i.m = "pause_manager" => f \in {"pausa", "pausa_vuelve"}
    /\ i.ins = "unlock" =>
         /\ i.m \in Mutexes
         /\ i.m \in DeDatos => i.m \in H
         /\ i.m = "permission_to_block_manager" => f = "suelta"
         /\ i.m = "pause_manager" => f = "reanuda"
    /\ i.ins = "pasa" => Puede(a, H, i.m)
    /\ i.ins = "trylock" => i.m = "dispatcher_manager" /\ f = "pausa"
    /\ i.ins = "wait" =>
         <<i.c, i.m, f>> \in {<<"permission_to_block", "permission_to_block_manager", "tiene">>,
                              <<"permission_to_block_released", "dispatcher_manager", "avisado">>,
                              <<"resume_planification", "dispatcher_manager", "pausado">>,
                              <<"paused_planification", "pause_manager", "pausa_tiene">>}
    /\ i.ins = "duerme" =>
         <<i.c, i.m, f>> \in {<<"permission_to_block", "permission_to_block_manager", "dormida">>,
                              <<"permission_to_block_released", "dispatcher_manager", "avisado">>,
                              <<"resume_planification", "dispatcher_manager", "pausado">>,
                              <<"paused_planification", "pause_manager", "pausa_dormida">>}
    /\ i.ins = "signal" =>
         <<i.c, f>> \in {<<"permission_to_block", "turno">>, <<"paused_planification", "turno">>,
                         <<"permission_to_block_released", "suelta">>,
                         <<"resume_planification", "reanuda">>}
    /\ i.ins = "pon" =>
         \/ i.b = "durmiendo" /\ i.valor \in BOOLEAN
         \/ i.b = "paused" /\ i.valor \in BOOLEAN /\ f = "teclado"
         \/ i.b = "permission_to_block_acquired" /\ i.valor = TRUE /\ f = "teclado"
         \/ i.b = "permission_to_block_acquired" /\ i.valor = FALSE /\ f = "bloquea"
    /\ i.ins = "manda" => <<i.msj, f>> \in {<<"sentencia", "turno">>, <<"resultado", "atiende">>}
    /\ i.ins = "recibe" =>
         H = {} /\ <<i.msj, f>> \in {<<"resultado", "espera">>, <<"sentencia", "oye">>}

\* Where it is then.
FaseTras(i, f) ==
    CASE i.ins = "lock" /\ f = "pide" /\ i.m = "permission_to_block_manager" -> "tiene"
      [] i.ins = "lock" /\ f = "vuelve" /\ i.m = "permission_to_block_manager" -> "bloquea"
      [] i.ins = "lock" /\ f = "pausa" /\ i.m = "pause_manager" -> "pausa_tiene"
      [] i.ins = "lock" /\ f = "pausa_vuelve" /\ i.m = "pause_manager" -> "teclado"
      [] i.ins = "unlock" /\ i.m \in {"permission_to_block_manager", "pause_manager"} -> "teclado"
      [] i.ins = "wait" /\ f = "tiene" -> "dormida"
      [] i.ins = "wait" /\ f = "pausa_tiene" -> "pausa_dormida"
      [] i.ins = "duerme" /\ f = "dormida" -> "vuelve"
      [] i.ins = "duerme" /\ f = "pausa_dormida" -> "pausa_vuelve"
      [] i.ins = "duerme" /\ f \in {"avisado", "pausado"} -> "turno"
      [] i.ins = "signal" /\ i.c = "permission_to_block" -> "avisado"
      [] i.ins = "signal" /\ i.c = "paused_planification" -> "pausado"
      [] i.ins = "pon" /\ i.b = "paused" /\ i.valor -> "pausa"
      [] i.ins = "pon" /\ i.b = "paused" /\ ~i.valor -> "reanuda"
      [] i.ins = "pon" /\ i.b = "permission_to_block_acquired" /\ i.valor -> "pide"
      [] i.ins = "pon" /\ i.b = "permission_to_block_acquired" /\ ~i.valor -> "suelta"
      [] i.ins = "manda" /\ f = "turno" -> "espera"
      [] i.ins = "manda" /\ f = "atiende" -> "oye"
      [] i.ins = "recibe" /\ f = "espera" -> "turno"
      [] i.ins = "recibe" /\ f = "oye" -> "atiende"
      [] OTHER -> f

\* What it may have to run then, with what is locked and where it is: x is a
\* program, a set of mutexes and a phase.
Sucesor(i, q, H, f, x) ==
    /\ i.ins = "lock" => x = <<q, IF i.m \in DeDatos THEN H \cup {i.m} ELSE H, FaseTras(i, f)>>
    /\ i.ins = "unlock" => x = <<q, H \ {i.m}, FaseTras(i, f)>>
    /\ i.ins \in {"pasa", "signal", "pon", "manda", "recibe"} => x = <<q, H, FaseTras(i, f)>>
    /\ i.ins = "trylock" => x \in {<<i.si \o q, H, f>>, <<q, H, "teclado">>}
    /\ i.ins = "wait" => x = <<<<Duerme(i.c, i.m)>> \o q, H, FaseTras(i, f)>>
    /\ i.ins = "duerme" => x = <<<<Lock(i.m)>> \o q, H, FaseTras(i, f)>>
    /\ i.ins = "si" => x \in {<<i.p \o q, H, f>>, <<q, H, f>>}
    /\ i.ins = "elige" => \E p \in i.programas : x = <<p \o q, H, f>>

\* A set of such triples that a thread does not leave.
Vale(a, R, p, H, f) ==
    /\ EsPrograma(p)
    /\ \/ p = << >> /\ H = {} /\ f \in Reposo
       \/ /\ p # << >>
          /\ Permite(a, Head(p), H, f)
          /\ \A r, K, g : Sucesor(Head(p), Tail(p), H, f, <<r, K, g>>) => <<r, K, g>> \in R

Cerrado(a, R) == \A p, H, f : <<p, H, f>> \in R => Vale(a, R, p, H, f)

Bien(a, p, H, f) == \E R : Cerrado(a, R) /\ <<p, H, f>> \in R

-----------------------------------------------------------------------------
(* Going on *)

LEMMA ValeEnMas ==
    ASSUME NEW a, NEW R, NEW T, R \subseteq T, NEW p, NEW H, NEW f, Vale(a, R, p, H, f)
    PROVE  Vale(a, T, p, H, f)
BY DEF Vale

\* What a thread does next is allowed, and what is left is right too.
LEMMA Desdobla ==
    ASSUME NEW a, NEW p, NEW H, NEW f, Bien(a, p, H, f)
    PROVE  /\ EsPrograma(p)
           /\ p = << >> => H = {} /\ f \in Reposo
           /\ p # << >> =>
                /\ Permite(a, Head(p), H, f)
                /\ \A r, K, g : Sucesor(Head(p), Tail(p), H, f, <<r, K, g>>) => Bien(a, r, K, g)
<1>1. PICK R : Cerrado(a, R) /\ <<p, H, f>> \in R
  BY DEF Bien
<1>2. Vale(a, R, p, H, f)
  BY <1>1 DEF Cerrado
<1>3. \A r, K, g : <<r, K, g>> \in R => Bien(a, r, K, g)
  BY <1>1 DEF Bien
<1>. QED
  BY <1>2, <1>3 DEF Vale

\* And a program is right if its first instruction is allowed and what may be
\* left is right.
LEMMA Adelante ==
    ASSUME NEW a, NEW i, NEW q, NEW H, NEW f, EsPrograma(q), Permite(a, i, H, f),
           \A r, K, g : Sucesor(i, q, H, f, <<r, K, g>>) => Bien(a, r, K, g)
    PROVE  Bien(a, <<i>> \o q, H, f)
<1> DEFINE programas == {q, <<Duerme(i.c, i.m)>> \o q, <<Lock(i.m)>> \o q, i.si \o q, i.p \o q}
                            \cup {p \o q : p \in i.programas}
           todos == programas \X {H, H \cup {i.m}, H \ {i.m}} \X {f, "teclado", FaseTras(i, f)}
           siguientes == {x \in todos : Sucesor(i, q, H, f, x)}
           Prueba(x) == CHOOSE R : Cerrado(a, R) /\ x \in R
           R == UNION {Prueba(x) : x \in siguientes}
           T == R \cup {<<<<i>> \o q, H, f>>}
<1>1. ASSUME NEW r, NEW K, NEW g, Sucesor(i, q, H, f, <<r, K, g>>)
      PROVE  <<r, K, g>> \in siguientes
  <2>1. i.ins \in {"lock", "unlock", "pasa", "trylock", "wait", "duerme", "signal",
                   "pon", "si", "elige", "manda", "recibe"}
    BY DEF Permite
  <2>2. <<r, K, g>> \in todos
    <3>1. CASE i.ins \in {"lock", "unlock"}
      BY <1>1, <3>1 DEF Sucesor
    <3>2. CASE i.ins \in {"pasa", "signal", "pon", "manda", "recibe"}
      BY <1>1, <3>2 DEF Sucesor
    <3>3. CASE i.ins \in {"trylock", "wait", "duerme", "si"}
      BY <1>1, <3>3 DEF Sucesor
    <3>4. CASE i.ins = "elige"
      BY <1>1, <3>4 DEF Sucesor
    <3>. QED
      BY <2>1, <3>1, <3>2, <3>3, <3>4
  <2> HIDE DEF todos
  <2>. QED
    BY <1>1, <2>2
<1>2. ASSUME NEW x \in siguientes
      PROVE  Cerrado(a, Prueba(x)) /\ x \in Prueba(x)
  <2>1. PICK r, K, g : x = <<r, K, g>>
    OBVIOUS
  <2>2. \E S : Cerrado(a, S) /\ x \in S
    <3>1. Sucesor(i, q, H, f, <<r, K, g>>)
      BY <2>1
    <3>. QED
      BY <2>1, <3>1 DEF Bien
  <2> HIDE DEF siguientes
  <2>. QED
    BY <2>2, Zenon
<1> HIDE DEF siguientes, Prueba
<1>3. Cerrado(a, T)
  <2> SUFFICES ASSUME NEW p, NEW K, NEW g, <<p, K, g>> \in T
               PROVE  Vale(a, T, p, K, g)
    BY DEF Cerrado
  <2>1. CASE <<p, K, g>> \in R
    <3>1. PICK x \in siguientes : <<p, K, g>> \in Prueba(x)
      BY <2>1
    <3>2. Vale(a, Prueba(x), p, K, g)
      BY <1>2, <3>1 DEF Cerrado
    <3>3. Prueba(x) \subseteq T
      OBVIOUS
    <3>. QED
      BY <3>2, <3>3, ValeEnMas
  <2>2. CASE <<p, K, g>> = <<<<i>> \o q, H, f>>
    <3>1. p = <<i>> \o q /\ K = H /\ g = f
      BY <2>2
    <3>2. p # << >> /\ Head(p) = i /\ Tail(p) = q
      BY <3>1, CabezaYCola
    <3>3. EsPrograma(p)
      BY <3>1, UnoEsPrograma, UnidosSonPrograma
    <3>4. \A r, L, h : Sucesor(i, q, H, f, <<r, L, h>>) => <<r, L, h>> \in T
      BY <1>1, <1>2
    <3>. QED
      BY <3>1, <3>2, <3>3, <3>4 DEF Vale
  <2>. QED
    BY <2>1, <2>2
<1>4. <<<<i>> \o q, H, f>> \in T
  OBVIOUS
<1> HIDE DEF T
<1>. QED
  BY <1>3, <1>4 DEF Bien

LEMMA AlFinal == ASSUME NEW a, NEW f \in Reposo PROVE Bien(a, << >>, {}, f)
<1> DEFINE R == {<<<< >>, {}, f>>}
<1>1. Cerrado(a, R)
  BY VacioEsPrograma DEF Cerrado, Vale
<1>. QED
  BY <1>1 DEF Bien

-----------------------------------------------------------------------------
(* One program after another *)

\* Run by who has locked H and is in f, p leaves K locked and goes to g, whatever
\* comes after it.
Lleva(a, p, H, f, K, g) ==
    /\ EsPrograma(p)
    /\ \A q : EsPrograma(q) /\ Bien(a, q, K, g) => Bien(a, p \o q, H, f)

\* It leaves things as they were.
Neutro(a, p, H, f) == Lleva(a, p, H, f, H, f)

LEMMA LlevaSeguido ==
    ASSUME NEW a, NEW p, NEW q, NEW H, NEW f, NEW K, NEW g, NEW L, NEW h,
           Lleva(a, p, H, f, K, g), Lleva(a, q, K, g, L, h)
    PROVE  Lleva(a, p \o q, H, f, L, h)
<1>1. EsPrograma(p) /\ EsPrograma(q) /\ EsPrograma(p \o q)
  BY UnidosSonPrograma DEF Lleva
<1>2. ASSUME NEW r, EsPrograma(r), Bien(a, r, L, h)
      PROVE  Bien(a, (p \o q) \o r, H, f)
  <2>1. EsPrograma(q \o r) /\ Bien(a, q \o r, K, g)
    BY <1>1, <1>2, UnidosSonPrograma DEF Lleva
  <2>2. Bien(a, p \o (q \o r), H, f)
    BY <2>1 DEF Lleva
  <2>3. (p \o q) \o r = p \o (q \o r)
    BY <1>1, <1>2, UnidosDeTres
  <2>. QED
    BY <2>2, <2>3
<1>. QED
  BY <1>1, <1>2 DEF Lleva

LEMMA NeutroSeguido ==
    ASSUME NEW a, NEW p, NEW q, NEW H, NEW f, Neutro(a, p, H, f), Neutro(a, q, H, f)
    PROVE  Neutro(a, p \o q, H, f)
BY LlevaSeguido DEF Neutro

LEMMA VacioNeutro == ASSUME NEW a, NEW H, NEW f PROVE Neutro(a, << >>, H, f)
BY VacioEsPrograma, UnidosAlVacio DEF Neutro, Lleva

\* A program that goes to where a thread rests is right by itself.
LEMMA LlevaAlFinal ==
    ASSUME NEW a, NEW p, NEW H, NEW f, NEW g \in Reposo, Lleva(a, p, H, f, {}, g)
    PROVE  Bien(a, p, H, f)
<1>1. Bien(a, p \o << >>, H, f)
  BY AlFinal, VacioEsPrograma DEF Lleva
<1>. QED
  BY <1>1, UnidosAlVacio DEF Lleva

\* One instruction that goes on at once, allowed and with one way on.
LEMMA LlevaUna ==
    ASSUME NEW a, NEW i, NEW H, NEW f, NEW K, NEW g, Permite(a, i, H, f),
           \A q, r, L, h : Sucesor(i, q, H, f, <<r, L, h>>) => r = q /\ L = K /\ h = g
    PROVE  Lleva(a, <<i>>, H, f, K, g)
<1>1. ASSUME NEW q, EsPrograma(q), Bien(a, q, K, g)
      PROVE  Bien(a, <<i>> \o q, H, f)
  <2>1. \A r, L, h : Sucesor(i, q, H, f, <<r, L, h>>) => Bien(a, r, L, h)
    BY <1>1
  <2>. QED
    BY <1>1, <2>1, Adelante
<1>. QED
  BY <1>1, UnoEsPrograma DEF Lleva

-----------------------------------------------------------------------------
(* Handlers that only lock what is later in the order *)

LEMMA Rangos ==
    ASSUME NEW a
    PROVE  /\ Rango(a, "blocked_by_resource") = 0 /\ Rango(a, "blocked_resources") = 1
           /\ Rango(a, "running_1") = 2 /\ Rango(a, "ready_4") = 5
           /\ Rango(a, "finished_5") = 6 /\ Rango(a, "esi_map_6") = 7
           /\ a \in {"FIFO", "HRRN"} => Rango(a, "next_2") = 3 /\ Rango(a, "blocked_3") = 4
           /\ a \notin {"FIFO", "HRRN"} => Rango(a, "next_2") = 4 /\ Rango(a, "blocked_3") = 3
BY DEF Rango

LEMMA LosDatos ==
    DeDatos = {"running_1", "next_2", "blocked_3", "ready_4", "finished_5", "esi_map_6",
               "blocked_by_resource", "blocked_resources"}
BY DEF DeDatos, Mutexes

LEMMA RangoNatural == ASSUME NEW a, NEW m \in DeDatos PROVE Rango(a, m) \in 0 .. 7
BY Rangos, LosDatos

\* Only mutexes before n are locked.
Bajo(a, H, n) == H \subseteq DeDatos /\ \A h \in H : Rango(a, h) < n

\* A phase in which a thread may do anything but what it is there for.
Libre(f) == f \notin {"tiene", "pausa_tiene"}

\* A handler that may be called with anything before n locked, and leaves it so.
Manso(a, p, n) ==
    /\ EsPrograma(p)
    /\ \A H, f : Bajo(a, H, n) /\ Libre(f) => Neutro(a, p, H, f)

LEMMA BajoMas ==
    ASSUME NEW a, NEW H, NEW m \in DeDatos, Bajo(a, H, Rango(a, m))
    PROVE  Puede(a, H, m) /\ Bajo(a, H \cup {m}, Rango(a, m) + 1)
<1>1. \A h \in H : Rango(a, h) \in Int /\ Rango(a, h) < Rango(a, m)
  BY RangoNatural DEF Bajo
<1>2. Rango(a, m) \in Int
  BY RangoNatural
<1>3. Puede(a, H, m)
  BY <1>1, <1>2 DEF Puede
<1>4. H \cup {m} \subseteq DeDatos
  BY DEF Bajo
<1>5. \A h \in H \cup {m} : Rango(a, h) < Rango(a, m) + 1
  BY <1>1, <1>2
<1>. QED
  BY <1>3, <1>4, <1>5 DEF Bajo

LEMMA BajoMenos ==
    ASSUME NEW a, NEW H, NEW n \in Nat, NEW k \in Nat, k <= n, Bajo(a, H, k)
    PROVE  Bajo(a, H, n)
<1>1. \A h \in H : Rango(a, h) \in Int
  BY RangoNatural DEF Bajo
<1>. QED
  BY <1>1 DEF Bajo

LEMMA MansoAntes ==
    ASSUME NEW a, NEW p, NEW n \in Nat, NEW k \in Nat, k <= n, Manso(a, p, n)
    PROVE  Manso(a, p, k)
BY BajoMenos DEF Manso

LEMMA MansoSeguido ==
    ASSUME NEW a, NEW p, NEW q, NEW n, Manso(a, p, n), Manso(a, q, n)
    PROVE  Manso(a, p \o q, n)
<1>1. EsPrograma(p \o q)
  BY UnidosSonPrograma DEF Manso
<1>. QED
  BY <1>1, NeutroSeguido DEF Manso

LEMMA VacioManso == ASSUME NEW a, NEW n PROVE Manso(a, << >>, n)
BY VacioEsPrograma, VacioNeutro DEF Manso

LEMMA NeutroPasa ==
    ASSUME NEW a, NEW H, NEW f, NEW m, Puede(a, H, m), Libre(f)
    PROVE  Neutro(a, <<Pasa(m)>>, H, f)
<1>1. PICK i : i = Pasa(m)
  OBVIOUS
<1>2. i.ins = "pasa" /\ i.m = m
  BY <1>1 DEF Pasa
<1>3. Permite(a, i, H, f)
  BY <1>2 DEF Permite, Libre
<1>4. FaseTras(i, f) = f
  BY <1>2 DEF FaseTras
<1>5. \A q, r, L, h : Sucesor(i, q, H, f, <<r, L, h>>) => r = q /\ L = H /\ h = f
  BY <1>2, <1>4 DEF Sucesor
<1>. QED
  BY <1>1, <1>3, <1>5, LlevaUna DEF Neutro

LEMMA LlevaLock ==
    ASSUME NEW a, NEW H, NEW f, NEW m, Puede(a, H, m), Libre(f)
    PROVE  Lleva(a, <<Lock(m)>>, H, f, H \cup {m}, f)
<1>1. PICK i : i = Lock(m)
  OBVIOUS
<1>2. i.ins = "lock" /\ i.m = m /\ m \in DeDatos
  BY <1>1 DEF Lock, Puede
<1>3. m \in Mutexes /\ m \notin {"permission_to_block_manager", "pause_manager", "dispatcher_manager"}
  BY <1>2 DEF DeDatos
<1>4. Permite(a, i, H, f)
  BY <1>2, <1>3 DEF Permite, Libre
<1>5. FaseTras(i, f) = f
  BY <1>2, <1>3 DEF FaseTras
<1>6. \A q, r, L, h : Sucesor(i, q, H, f, <<r, L, h>>) => r = q /\ L = H \cup {m} /\ h = f
  BY <1>2, <1>5 DEF Sucesor
<1>. QED
  BY <1>1, <1>4, <1>6, LlevaUna

LEMMA LlevaUnlock ==
    ASSUME NEW a, NEW H, NEW f, NEW m \in DeDatos, m \in H, Libre(f)
    PROVE  Lleva(a, <<Unlock(m)>>, H, f, H \ {m}, f)
<1>1. PICK i : i = Unlock(m)
  OBVIOUS
<1>2. i.ins = "unlock" /\ i.m = m
  BY <1>1 DEF Unlock
<1>3. m \in Mutexes /\ m \notin {"permission_to_block_manager", "pause_manager", "dispatcher_manager"}
  BY DEF DeDatos
<1>4. Permite(a, i, H, f)
  BY <1>2, <1>3 DEF Permite, Libre
<1>5. FaseTras(i, f) = f
  BY <1>2, <1>3 DEF FaseTras
<1>6. \A q, r, L, h : Sucesor(i, q, H, f, <<r, L, h>>) => r = q /\ L = H \ {m} /\ h = f
  BY <1>2, <1>5 DEF Sucesor
<1>. QED
  BY <1>1, <1>4, <1>6, LlevaUna

LEMMA NeutroCon ==
    ASSUME NEW a, NEW H, NEW f, NEW m, NEW p, Puede(a, H, m), Libre(f),
           Neutro(a, p, H \cup {m}, f)
    PROVE  Neutro(a, Con(m, p), H, f)
<1>1. m \in DeDatos /\ m \notin H
  BY DEF Puede
<1>2. PICK K : K = H \cup {m}
  OBVIOUS
<1>3. m \in K /\ K \ {m} = H
  BY <1>1, <1>2
<1>4. Lleva(a, <<Lock(m)>>, H, f, K, f)
  BY <1>2, LlevaLock
<1>5. Lleva(a, p, K, f, K, f)
  BY <1>2 DEF Neutro
<1>6. Lleva(a, <<Unlock(m)>>, K, f, H, f)
  BY <1>1, <1>3, LlevaUnlock
<1>7. Lleva(a, <<Lock(m)>> \o p, H, f, K, f)
  BY <1>4, <1>5, LlevaSeguido
<1>8. Lleva(a, (<<Lock(m)>> \o p) \o <<Unlock(m)>>, H, f, H, f)
  BY <1>6, <1>7, LlevaSeguido
<1>. QED
  BY <1>8 DEF Neutro, Con

LEMMA MansoPasa ==
    ASSUME NEW a, NEW m \in DeDatos PROVE Manso(a, <<Pasa(m)>>, Rango(a, m))
BY BajoMas, NeutroPasa, UnoEsPrograma DEF Manso

LEMMA MansoCon ==
    ASSUME NEW a, NEW m \in DeDatos, NEW p, Manso(a, p, Rango(a, m) + 1)
    PROVE  Manso(a, Con(m, p), Rango(a, m))
<1>1. EsPrograma(Con(m, p))
  <2>1. EsPrograma(<<Lock(m)>>) /\ EsPrograma(<<Unlock(m)>>) /\ EsPrograma(p)
    BY UnoEsPrograma DEF Manso
  <2>2. EsPrograma(<<Lock(m)>> \o p)
    BY <2>1, UnidosSonPrograma
  <2>. QED
    BY <2>1, <2>2, UnidosSonPrograma DEF Con
<1>2. ASSUME NEW H, NEW f, Bajo(a, H, Rango(a, m)), Libre(f)
      PROVE  Neutro(a, Con(m, p), H, f)
  <2>1. Puede(a, H, m) /\ Bajo(a, H \cup {m}, Rango(a, m) + 1)
    BY <1>2, BajoMas
  <2>2. Neutro(a, p, H \cup {m}, f)
    BY <1>2, <2>1 DEF Manso
  <2>. QED
    BY <1>2, <2>1, <2>2, NeutroCon
<1>. QED
  BY <1>1, <1>2 DEF Manso

\* A choice goes where all of its ways go.
LEMMA LlevaElige ==
    ASSUME NEW a, NEW P, NEW H, NEW f, NEW K, NEW g, Libre(f),
           \A p \in P : Lleva(a, p, H, f, K, g)
    PROVE  Lleva(a, <<Elige(P)>>, H, f, K, g)
<1>1. PICK i : i = Elige(P)
  OBVIOUS
<1>2. i.ins = "elige" /\ i.programas = P
  BY <1>1 DEF Elige
<1>3. Permite(a, i, H, f)
  BY <1>2 DEF Permite, Libre
<1>4. ASSUME NEW q, EsPrograma(q), Bien(a, q, K, g)
      PROVE  Bien(a, <<i>> \o q, H, f)
  <2>1. ASSUME NEW r, NEW L, NEW h, Sucesor(i, q, H, f, <<r, L, h>>)
        PROVE  Bien(a, r, L, h)
    <3>1. PICK p \in P : <<r, L, h>> = <<p \o q, H, f>>
      BY <1>2, <2>1 DEF Sucesor
    <3>2. Bien(a, p \o q, H, f)
      BY <1>4, <3>1 DEF Lleva
    <3>. QED
      BY <3>1, <3>2
  <2>. QED
    BY <1>3, <1>4, <2>1, Adelante
<1>. QED
  BY <1>1, <1>4, UnoEsPrograma DEF Lleva

LEMMA MansoElige ==
    ASSUME NEW a, NEW P, NEW n, \A p \in P : Manso(a, p, n)
    PROVE  Manso(a, <<Elige(P)>>, n)
<1>1. ASSUME NEW H, NEW f, Bajo(a, H, n), Libre(f) PROVE Neutro(a, <<Elige(P)>>, H, f)
  <2>1. \A p \in P : Lleva(a, p, H, f, H, f)
    BY <1>1 DEF Manso, Neutro
  <2>. QED
    BY <1>1, <2>1, LlevaElige DEF Neutro
<1>. QED
  BY <1>1, UnoEsPrograma DEF Manso

LEMMA NeutroSi ==
    ASSUME NEW a, NEW b, NEW p, NEW H, NEW f, Libre(f), Neutro(a, p, H, f)
    PROVE  Neutro(a, <<Si(b, p)>>, H, f)
<1>1. PICK i : i = Si(b, p)
  OBVIOUS
<1>2. i.ins = "si" /\ i.p = p
  BY <1>1 DEF Si
<1>3. Permite(a, i, H, f)
  BY <1>2 DEF Permite, Libre
<1>4. ASSUME NEW q, EsPrograma(q), Bien(a, q, H, f)
      PROVE  Bien(a, <<i>> \o q, H, f)
  <2>1. ASSUME NEW r, NEW L, NEW h, Sucesor(i, q, H, f, <<r, L, h>>)
        PROVE  Bien(a, r, L, h)
    <3>1. (r = p \o q \/ r = q) /\ L = H /\ h = f
      BY <1>2, <2>1 DEF Sucesor
    <3>2. Bien(a, p \o q, H, f)
      BY <1>4 DEF Neutro, Lleva
    <3>. QED
      BY <1>4, <3>1, <3>2
  <2>. QED
    BY <1>3, <1>4, <2>1, Adelante
<1>. QED
  BY <1>1, <1>4, UnoEsPrograma DEF Lleva, Neutro

LEMMA MansoSi ==
    ASSUME NEW a, NEW b, NEW p, NEW n, Manso(a, p, n)
    PROVE  Manso(a, <<Si(b, p)>>, n)
BY NeutroSi, UnoEsPrograma DEF Manso

\* The mutex of the dispatcher is nobody's.
LEMMA NeutroSuelta ==
    ASSUME NEW a, NEW H, NEW f, Libre(f), H \subseteq DeDatos
    PROVE  Neutro(a, <<Unlock("dispatcher_manager")>>, H, f)
<1>1. PICK i : i = Unlock("dispatcher_manager")
  OBVIOUS
<1>2. i.ins = "unlock" /\ i.m = "dispatcher_manager"
  BY <1>1 DEF Unlock
<1>3. Permite(a, i, H, f)
  BY <1>2 DEF Permite, Libre, DeDatos, Mutexes
<1>4. FaseTras(i, f) = f
  BY <1>2 DEF FaseTras
<1>5. H \ {i.m} = H
  BY <1>2 DEF DeDatos
<1>6. \A q, r, L, h : Sucesor(i, q, H, f, <<r, L, h>>) => r = q /\ L = H /\ h = f
  BY <1>2, <1>4, <1>5 DEF Sucesor
<1>. QED
  BY <1>1, <1>3, <1>6, LlevaUna DEF Neutro

LEMMA MansoSuelta == ASSUME NEW a, NEW n PROVE Manso(a, <<Unlock("dispatcher_manager")>>, n)
BY NeutroSuelta, UnoEsPrograma DEF Manso, Bajo

LEMMA EnElMapaManso == ASSUME NEW a PROVE Manso(a, EnElMapa, 7)
BY MansoPasa, Rangos, LosDatos DEF EnElMapa

LEMMA NotifyManso == ASSUME NEW a, NEW n PROVE Manso(a, NotifyDispatcher, n)
BY MansoSuelta, MansoSi DEF NotifyDispatcher

\* The list of the next ESIs and the ready list, with something inside.
LEMMA MansoProximos ==
    ASSUME NEW a, NEW p, Manso(a, p, 6)
    PROVE  /\ a \in {"FIFO", "HRRN"} => Manso(a, Con("next_2", Con("ready_4", p)), 3)
           /\ a \notin {"FIFO", "HRRN"} => Manso(a, Con("next_2", Con("ready_4", p)), 4)
<1>1. Manso(a, Con("ready_4", p), 5)
  BY MansoCon, Rangos, LosDatos
<1>2. CASE a \in {"FIFO", "HRRN"}
  <2>1. Manso(a, Con("ready_4", p), 4)
    BY <1>1, MansoAntes
  <2>2. Rango(a, "next_2") = 3
    BY <1>2, Rangos
  <2>. QED
    BY <1>2, <2>1, <2>2, MansoCon, LosDatos
<1>3. CASE a \notin {"FIFO", "HRRN"}
  <2>2. Rango(a, "next_2") = 4
    BY <1>3, Rangos
  <2>. QED
    BY <1>1, <1>3, <2>2, MansoCon, LosDatos
<1>. QED
  BY <1>2, <1>3

LEMMA SjfReplanManso ==
    ASSUME NEW a, a \notin {"FIFO", "HRRN"} PROVE Manso(a, SjfReplan, 4)
<1>1. Manso(a, EnElMapa, 6)
  BY EnElMapaManso, MansoAntes
<1>. QED
  BY <1>1, MansoProximos DEF SjfReplan

LEMMA HrrnReplanManso == ASSUME NEW a PROVE Manso(a, HrrnReplan, 7)
BY EnElMapaManso DEF HrrnReplan

LEMMA ReplanManso == Manso(algorithm, Replan, 4)
<1>1. CASE algorithm = "FIFO"
  BY <1>1, VacioManso DEF Replan
<1>2. CASE algorithm = "HRRN"
  <2>1. Replan = HrrnReplan
    BY <1>2 DEF Replan
  <2>. QED
    BY <2>1, HrrnReplanManso, MansoAntes
<1>3. CASE algorithm \notin {"FIFO", "HRRN"}
  <2>1. Replan = SjfReplan
    BY <1>3 DEF Replan
  <2>. QED
    BY <1>3, <2>1, SjfReplanManso
<1>. QED
  BY <1>1, <1>2, <1>3

LEMMA FinishRunningManso == Manso(algorithm, FinishRunningEsi, 3)
<1>1. CASE algorithm = "FIFO"
  <2>1. FinishRunningEsi = FifoFinishEsi
    BY <1>1 DEF FinishRunningEsi
  <2>2. Manso(algorithm, FifoFinishEsi, 3)
    BY <1>1, VacioManso, MansoProximos DEF FifoFinishEsi
  <2>. QED
    BY <2>1, <2>2
<1>2. CASE algorithm = "HRRN"
  <2>1. FinishRunningEsi = HrrnFinishEsi
    BY <1>2 DEF FinishRunningEsi
  <2>2. Manso(algorithm, HrrnReplan, 6)
    BY HrrnReplanManso, MansoAntes
  <2>3. Manso(algorithm, HrrnFinishEsi, 3)
    BY <1>2, <2>2, MansoProximos DEF HrrnFinishEsi
  <2>. QED
    BY <2>1, <2>3
<1>3. CASE algorithm \notin {"FIFO", "HRRN"}
  <2>1. FinishRunningEsi = SjfReplan
    BY <1>3 DEF FinishRunningEsi
  <2>. QED
    BY <1>3, <2>1, SjfReplanManso, MansoAntes
<1>. QED
  BY <1>1, <1>2, <1>3

\* fifo_block_esi and hrrn_block_esi.
LEMMA MansoTodasLasListas ==
    ASSUME NEW a, a \in {"FIFO", "HRRN"}, NEW p, Manso(a, p, 6)
    PROVE  Manso(a, Con("running_1", Con("next_2", Con("blocked_3", Con("ready_4", p)))), 2)
<1>1. Manso(a, Con("ready_4", p), 5)
  BY MansoCon, Rangos, LosDatos
<1>2. Manso(a, Con("blocked_3", Con("ready_4", p)), 4)
  BY <1>1, MansoCon, Rangos, LosDatos
<1>3. Manso(a, Con("next_2", Con("blocked_3", Con("ready_4", p))), 3)
  BY <1>2, MansoCon, Rangos, LosDatos
<1>. QED
  BY <1>3, MansoCon, Rangos, LosDatos

LEMMA BlockManso == Manso(algorithm, BlockByAlgorithm, 2)
<1>1. CASE algorithm = "FIFO"
  <2>1. BlockByAlgorithm = FifoBlockEsi
    BY <1>1 DEF BlockByAlgorithm
  <2>. QED
    BY <1>1, <2>1, VacioManso, MansoTodasLasListas DEF FifoBlockEsi
<1>2. CASE algorithm = "HRRN"
  <2>1. BlockByAlgorithm = HrrnBlockEsi
    BY <1>2 DEF BlockByAlgorithm
  <2>2. Manso(algorithm, HrrnReplan, 6) /\ Manso(algorithm, << >>, 6)
    BY HrrnReplanManso, VacioManso, MansoAntes
  <2>3. Manso(algorithm, <<Elige({HrrnReplan, << >>})>>, 6)
    BY <2>2, MansoElige
  <2>. QED
    BY <1>2, <2>1, <2>3, MansoTodasLasListas DEF HrrnBlockEsi
<1>3. CASE algorithm \notin {"FIFO", "HRRN"}
  <2>1. BlockByAlgorithm = SjfBlockEsi
    BY <1>3 DEF BlockByAlgorithm
  <2>2. Manso(algorithm, <<Pasa("ready_4")>>, 5)
    BY MansoPasa, Rangos, LosDatos
  <2>3. Manso(algorithm, <<Pasa("ready_4")>>, 4) /\ Manso(algorithm, SjfReplan, 4)
    BY <1>3, <2>2, MansoAntes, SjfReplanManso
  <2>4. Manso(algorithm, <<Elige({SjfReplan, <<Pasa("ready_4")>>})>>, 4)
    BY <2>3, MansoElige
  <2>5. Manso(algorithm, Con("blocked_3", <<Elige({SjfReplan, <<Pasa("ready_4")>>})>>), 3)
    BY <1>3, <2>4, MansoCon, Rangos, LosDatos
  <2>6. Manso(algorithm, SjfBlockEsi, 2)
    BY <2>5, MansoCon, Rangos, LosDatos DEF SjfBlockEsi
  <2>. QED
    BY <2>1, <2>6
<1>. QED
  BY <1>1, <1>2, <1>3

LEMMA AddEsiManso == Manso(algorithm, AddEsiByAlgorithm, 2)
<1>1. Manso(algorithm, SjfAddEsi, 5)
  <2>1. Manso(algorithm, EnElMapa, 6)
    BY EnElMapaManso, MansoAntes
  <2>. QED
    BY <2>1, MansoCon, Rangos, LosDatos DEF SjfAddEsi
<1>2. CASE algorithm = "FIFO"
  <2>1. Manso(algorithm, <<Pasa("ready_4")>>, 5)
    BY MansoPasa, Rangos, LosDatos
  <2>. QED
    BY <1>2, <2>1, MansoAntes DEF AddEsiByAlgorithm
<1>3. CASE algorithm = "SJF_DESALOJO"
  <2>1. AddEsiByAlgorithm = SjfDesaAddEsi
    BY <1>3 DEF AddEsiByAlgorithm
  <2>2. Manso(algorithm, SjfReplan, 3) /\ Manso(algorithm, << >>, 3)
    <3>1. Manso(algorithm, SjfReplan, 4)
      BY <1>3, SjfReplanManso
    <3>. QED
      BY <3>1, VacioManso, MansoAntes
  <2>3. Manso(algorithm, <<Elige({SjfReplan, << >>})>>, 3)
    BY <2>2, MansoElige
  <2>4. Manso(algorithm, Con("running_1", <<Elige({SjfReplan, << >>})>>), 2)
    BY <2>3, MansoCon, Rangos, LosDatos
  <2>5. Manso(algorithm, SjfAddEsi, 2)
    BY <1>1, MansoAntes
  <2>6. Manso(algorithm, SjfDesaAddEsi, 2)
    BY <2>4, <2>5, MansoSeguido DEF SjfDesaAddEsi
  <2>. QED
    BY <2>1, <2>6
<1>4. CASE algorithm \notin {"FIFO", "SJF_DESALOJO"}
  <2>1. AddEsiByAlgorithm = SjfAddEsi
    BY <1>4 DEF AddEsiByAlgorithm
  <2>. QED
    BY <1>1, <2>1, MansoAntes
<1>. QED
  BY <1>2, <1>3, <1>4

LEMMA UnblockEsiManso == Manso(algorithm, UnblockEsi, 2)
<1>1. Manso(algorithm, EnElMapa, 2) /\ Manso(algorithm, EnElMapa, 4) /\ Manso(algorithm, EnElMapa, 5)
  BY EnElMapaManso, MansoAntes
<1>2. Manso(algorithm, Con("blocked_3", EnElMapa), 2)
  <2>1. CASE algorithm \in {"FIFO", "HRRN"}
    <3>1. Manso(algorithm, Con("blocked_3", EnElMapa), 4)
      BY <1>1, <2>1, MansoCon, Rangos, LosDatos
    <3>. QED
      BY <3>1, MansoAntes
  <2>2. CASE algorithm \notin {"FIFO", "HRRN"}
    <3>1. Manso(algorithm, Con("blocked_3", EnElMapa), 3)
      BY <1>1, <2>2, MansoCon, Rangos, LosDatos
    <3>. QED
      BY <3>1, MansoAntes
  <2>. QED
    BY <2>1, <2>2
<1>3. Manso(algorithm, Con("blocked_3", EnElMapa) \o EnElMapa, 2)
  BY <1>1, <1>2, MansoSeguido
<1>4. Manso(algorithm, Con("blocked_3", EnElMapa) \o EnElMapa \o AddEsiByAlgorithm, 2)
  BY <1>3, AddEsiManso, MansoSeguido
<1>. QED
  BY <1>4, NotifyManso, MansoSeguido DEF UnblockEsi

LEMMA PasaRecursosManso == ASSUME NEW a PROVE Manso(a, <<Pasa("blocked_resources")>>, 1)
BY MansoPasa, Rangos, LosDatos

LEMMA FreeResourceManso == Manso(algorithm, FreeResource, 0)
<1>1. Manso(algorithm, EnElMapa, 2)
  BY EnElMapaManso, MansoAntes
<1>2. Manso(algorithm, Con("blocked_resources", EnElMapa), 1)
  BY <1>1, MansoCon, Rangos, LosDatos
<1>3. Manso(algorithm, Con("blocked_by_resource", Con("blocked_resources", EnElMapa)), 0)
  BY <1>2, MansoCon, Rangos, LosDatos
<1>4. Manso(algorithm, UnblockEsi, 0)
  BY UnblockEsiManso, MansoAntes
<1>5. Manso(algorithm, Con("blocked_by_resource", Con("blocked_resources", EnElMapa)) \o UnblockEsi, 0)
  BY <1>3, <1>4, MansoSeguido
<1>6. Manso(algorithm, Con("blocked_by_resource", <<Pasa("blocked_resources")>>), 0)
  BY PasaRecursosManso, MansoCon, Rangos, LosDatos
<1>. QED
  BY <1>5, <1>6, MansoElige DEF FreeResource

LEMMA FinishEsiManso ==
    ASSUME NEW quita, Manso(algorithm, quita, 0)
    PROVE  Manso(algorithm, FinishEsi(quita), 0)
<1>1. Manso(algorithm, EnElMapa, 0) /\ Manso(algorithm, << >>, 0)
  BY EnElMapaManso, VacioManso, MansoAntes
<1>2. Manso(algorithm, <<Pasa("finished_5"), Pasa("blocked_resources")>>, 0)
  <2>1. Manso(algorithm, <<Pasa("finished_5")>>, 6)
    BY MansoPasa, Rangos, LosDatos
  <2>2. Manso(algorithm, <<Pasa("finished_5")>>, 0) /\ Manso(algorithm, <<Pasa("blocked_resources")>>, 0)
    BY <2>1, PasaRecursosManso, MansoAntes
  <2>. QED
    BY <2>2, Pareja, MansoSeguido
<1>3. Manso(algorithm, <<Elige({FreeResource, << >>})>>, 0)
  BY <1>1, FreeResourceManso, MansoElige
<1>4. Manso(algorithm, Replan \o NotifyDispatcher, 0)
  <2>1. Manso(algorithm, Replan, 0)
    BY ReplanManso, MansoAntes
  <2>. QED
    BY <2>1, NotifyManso, MansoSeguido
<1>5. Manso(algorithm, <<Elige({Replan \o NotifyDispatcher, << >>})>>, 0)
  BY <1>1, <1>4, MansoElige
<1>6. Manso(algorithm, <<Si("durmiendo", <<Elige({Replan \o NotifyDispatcher, << >>})>>)>>, 0)
  BY <1>5, MansoSi
<1>7. Manso(algorithm, <<Elige({FreeResource, << >>}),
                         Si("durmiendo", <<Elige({Replan \o NotifyDispatcher, << >>})>>)>>, 0)
  BY <1>3, <1>6, Pareja, MansoSeguido
<1>8. Manso(algorithm, EnElMapa \o quita, 0)
  BY <1>1, MansoSeguido
<1>9. Manso(algorithm, EnElMapa \o quita \o EnElMapa, 0)
  BY <1>1, <1>8, MansoSeguido
<1>10. Manso(algorithm, EnElMapa \o quita \o EnElMapa
                            \o <<Pasa("finished_5"), Pasa("blocked_resources")>>, 0)
  BY <1>2, <1>9, MansoSeguido
<1>. QED
  BY <1>7, <1>10, MansoSeguido DEF FinishEsi

LEMMA FinishManso ==
    /\ Manso(algorithm, FinishEsi(FinishRunningEsi), 0)
    /\ Manso(algorithm, FinishEsi(<<Pasa("blocked_3")>>), 0)
<1>1. Manso(algorithm, FinishRunningEsi, 0)
  BY FinishRunningManso, MansoAntes
<1>2. Manso(algorithm, <<Pasa("blocked_3")>>, 0)
  <2>1. PICK n \in Nat : n = Rango(algorithm, "blocked_3")
    BY RangoNatural, LosDatos
  <2>2. Manso(algorithm, <<Pasa("blocked_3")>>, n)
    BY <2>1, MansoPasa, LosDatos
  <2>. QED
    BY <2>2, MansoAntes
<1>. QED
  BY <1>1, <1>2, FinishEsiManso

LEMMA BorradoManso == ASSUME NEW a PROVE Manso(a, BorradoDeFinish, 0)
<1>1. Manso(a, BorradoDeFinish, 6)
  <2>1. Manso(a, EnElMapa, Rango(a, "finished_5") + 1)
    BY EnElMapaManso, Rangos
  <2>2. Manso(a, Con("finished_5", EnElMapa), Rango(a, "finished_5"))
    BY <2>1, MansoCon, LosDatos
  <2>. QED
    BY <2>2, Rangos DEF BorradoDeFinish
<1>. QED
  BY <1>1, MansoAntes

\* With nothing locked.
LEMMA MansoSolo ==
    ASSUME NEW a, NEW p, NEW n \in Nat, NEW f, Libre(f), Manso(a, p, n)
    PROVE  Neutro(a, p, {}, f)
BY DEF Manso, Bajo

LEMMA BloquearNeutro ==
    ASSUME NEW f, Libre(f)
    PROVE  Neutro(algorithm, BloquearRecurso, {}, f)
<1> DEFINE bloquea == EnElMapa \o BlockByAlgorithm \o <<Pasa("blocked_by_resource")>> \o EnElMapa
           K == {"blocked_resources"}
<1>1. Bajo(algorithm, K, 2)
  BY Rangos, LosDatos DEF Bajo
<1>2. Neutro(algorithm, EnElMapa, K, f) /\ Neutro(algorithm, BlockByAlgorithm, K, f)
  <2>1. Manso(algorithm, EnElMapa, 2)
    BY EnElMapaManso, MansoAntes
  <2>. QED
    BY <1>1, <2>1, BlockManso DEF Manso
<1>3. Neutro(algorithm, <<Pasa("blocked_by_resource")>>, K, f)
  <2>1. Puede(algorithm, K, "blocked_by_resource")
    BY LosDatos DEF Puede
  <2>. QED
    BY <2>1, NeutroPasa
<1>4. Puede(algorithm, {}, "blocked_resources") /\ {} \cup {"blocked_resources"} = K
  BY LosDatos DEF Puede
<1> HIDE DEF K
<1>5. Neutro(algorithm, EnElMapa \o BlockByAlgorithm, K, f)
  BY <1>2, NeutroSeguido
<1>6. Neutro(algorithm, EnElMapa \o BlockByAlgorithm \o <<Pasa("blocked_by_resource")>>, K, f)
  BY <1>3, <1>5, NeutroSeguido
<1>7. Neutro(algorithm, bloquea, K, f)
  BY <1>2, <1>6, NeutroSeguido
<1>8. Neutro(algorithm, Con("blocked_resources", bloquea), {}, f)
  BY <1>4, <1>7, NeutroCon
<1>9. Neutro(algorithm, <<Pasa("blocked_resources")>>, {}, f)
  BY PasaRecursosManso, MansoSolo
<1>10. PICK P : P = { <<Pasa("blocked_resources")>>, Con("blocked_resources", bloquea) }
  OBVIOUS
<1>11. \A p \in P : Lleva(algorithm, p, {}, f, {}, f)
  BY <1>8, <1>9, <1>10 DEF Neutro
<1>12. Neutro(algorithm, <<Elige(P)>>, {}, f)
  BY <1>11, LlevaElige DEF Neutro
<1>. QED
  BY <1>10, <1>12 DEF BloquearRecurso

-----------------------------------------------------------------------------
(* What the threads say to each other *)

\* Whatever locks no mutex of the data goes on with nothing locked.
LEMMA LlevaComun ==
    ASSUME NEW a, NEW i, NEW f, Permite(a, i, {}, f),
           \/ i.ins \in {"signal", "pon", "manda", "recibe", "unlock"}
           \/ i.ins = "lock" /\ i.m \notin DeDatos
    PROVE  Lleva(a, <<i>>, {}, f, {}, FaseTras(i, f))
<1>1. PICK g : g = FaseTras(i, f)
  OBVIOUS
<1>2. \A q, r, L, h : Sucesor(i, q, {}, f, <<r, L, h>>) => r = q /\ L = {} /\ h = g
  <2>1. CASE i.ins \in {"signal", "pon", "manda", "recibe"}
    BY <1>1, <2>1 DEF Sucesor
  <2>2. CASE i.ins = "unlock"
    BY <1>1, <2>2 DEF Sucesor
  <2>3. CASE i.ins = "lock" /\ i.m \notin DeDatos
    BY <1>1, <2>3 DEF Sucesor
  <2>. QED
    BY <2>1, <2>2, <2>3
<1>. QED
  BY <1>1, <1>2, LlevaUna

\* A wait sleeps until it is signalled, and locks again.
LEMMA LlevaWait ==
    ASSUME NEW a, NEW c, NEW m, NEW f, NEW k,
           Permite(a, Wait(c, m), {}, f),
           Permite(a, Duerme(c, m), {}, FaseTras(Wait(c, m), f)),
           Lleva(a, <<Lock(m)>>, {}, FaseTras(Duerme(c, m), FaseTras(Wait(c, m), f)), {}, k)
    PROVE  Lleva(a, <<Wait(c, m)>>, {}, f, {}, k)
<1>1. PICK i, d, g, h : /\ i = Wait(c, m) /\ d = Duerme(c, m)
                        /\ g = FaseTras(i, f) /\ h = FaseTras(d, g)
  OBVIOUS
<1>2. i.ins = "wait" /\ i.c = c /\ i.m = m /\ d.ins = "duerme" /\ d.c = c /\ d.m = m
  BY <1>1 DEF Wait, Duerme
<1>3. Permite(a, i, {}, f) /\ Permite(a, d, {}, g) /\ Lleva(a, <<Lock(m)>>, {}, h, {}, k)
  BY <1>1
<1>4. ASSUME NEW q, EsPrograma(q), Bien(a, q, {}, k)
      PROVE  Bien(a, <<i>> \o q, {}, f)
  <2>1. EsPrograma(<<Lock(m)>> \o q) /\ EsPrograma(<<d>> \o q)
    BY <1>4, UnoEsPrograma, UnidosSonPrograma
  <2>2. Bien(a, <<Lock(m)>> \o q, {}, h)
    BY <1>3, <1>4 DEF Lleva
  <2>3. \A r, L, e : Sucesor(d, q, {}, g, <<r, L, e>>) => r = <<Lock(m)>> \o q /\ L = {} /\ e = h
    BY <1>1, <1>2 DEF Sucesor
  <2>4. Bien(a, <<d>> \o q, {}, g)
    <3>1. \A r, L, e : Sucesor(d, q, {}, g, <<r, L, e>>) => Bien(a, r, L, e)
      BY <2>2, <2>3
    <3>. QED
      BY <1>3, <1>4, <3>1, Adelante
  <2>5. \A r, L, e : Sucesor(i, q, {}, f, <<r, L, e>>) => r = <<d>> \o q /\ L = {} /\ e = g
    BY <1>1, <1>2 DEF Sucesor
  <2>6. \A r, L, e : Sucesor(i, q, {}, f, <<r, L, e>>) => Bien(a, r, L, e)
    BY <2>4, <2>5
  <2>. QED
    BY <1>3, <1>4, <2>6, Adelante
<1>. QED
  BY <1>1, <1>4, UnoEsPrograma DEF Lleva

\* The locks that are not of the data, and where the thread is then.
LEMMA LlevaOtroLock ==
    ASSUME NEW a
    PROVE  /\ Neutro(a, <<Lock("dispatcher_manager")>>, {}, "turno")
           /\ Lleva(a, <<Lock("permission_to_block_manager")>>, {}, "pide", {}, "tiene")
           /\ Lleva(a, <<Lock("permission_to_block_manager")>>, {}, "vuelve", {}, "bloquea")
           /\ Lleva(a, <<Lock("pause_manager")>>, {}, "pausa", {}, "pausa_tiene")
           /\ Lleva(a, <<Lock("pause_manager")>>, {}, "pausa_vuelve", {}, "teclado")
<1>1. ASSUME NEW m \in {"dispatcher_manager", "permission_to_block_manager", "pause_manager"}, NEW f,
             f \notin {"tiene", "pausa_tiene"},
             m = "permission_to_block_manager" => f \in {"pide", "vuelve"},
             m = "pause_manager" => f \in {"pausa", "pausa_vuelve"}
      PROVE  Lleva(a, <<Lock(m)>>, {}, f, {}, FaseTras(Lock(m), f))
  <2>1. PICK i : i = Lock(m)
    OBVIOUS
  <2>2. i.ins = "lock" /\ i.m = m /\ m \notin DeDatos /\ m \in Mutexes
    BY <2>1 DEF Lock, DeDatos, Mutexes
  <2>3. Permite(a, i, {}, f)
    BY <1>1, <2>2 DEF Permite
  <2>4. Lleva(a, <<i>>, {}, f, {}, FaseTras(i, f))
    BY <2>2, <2>3, LlevaComun
  <2>. QED
    BY <2>1, <2>4
<1>2. /\ FaseTras(Lock("dispatcher_manager"), "turno") = "turno"
      /\ FaseTras(Lock("permission_to_block_manager"), "pide") = "tiene"
      /\ FaseTras(Lock("permission_to_block_manager"), "vuelve") = "bloquea"
      /\ FaseTras(Lock("pause_manager"), "pausa") = "pausa_tiene"
      /\ FaseTras(Lock("pause_manager"), "pausa_vuelve") = "teclado"
  BY DEF FaseTras, Lock
<1>3. Neutro(a, <<Lock("dispatcher_manager")>>, {}, "turno")
  BY <1>1, <1>2 DEF Neutro
<1>4. /\ Lleva(a, <<Lock("permission_to_block_manager")>>, {}, "pide", {}, "tiene")
      /\ Lleva(a, <<Lock("permission_to_block_manager")>>, {}, "vuelve", {}, "bloquea")
  BY <1>1, <1>2
<1>5. /\ Lleva(a, <<Lock("pause_manager")>>, {}, "pausa", {}, "pausa_tiene")
      /\ Lleva(a, <<Lock("pause_manager")>>, {}, "pausa_vuelve", {}, "teclado")
  BY <1>1, <1>2
<1>. QED
  BY <1>3, <1>4, <1>5

\* And their unlocks.
LEMMA LlevaOtroUnlock ==
    ASSUME NEW a
    PROVE  /\ Lleva(a, <<Unlock("permission_to_block_manager")>>, {}, "suelta", {}, "teclado")
           /\ Lleva(a, <<Unlock("pause_manager")>>, {}, "reanuda", {}, "teclado")
<1>1. ASSUME NEW m, NEW f, <<m, f>> \in {<<"permission_to_block_manager", "suelta">>,
                                         <<"pause_manager", "reanuda">>}
      PROVE  Lleva(a, <<Unlock(m)>>, {}, f, {}, "teclado")
  <2>1. PICK i : i = Unlock(m)
    OBVIOUS
  <2>2. i.ins = "unlock" /\ i.m = m
    BY <2>1 DEF Unlock
  <2>3. Permite(a, i, {}, f) /\ FaseTras(i, f) = "teclado"
    BY <1>1, <2>2 DEF Permite, FaseTras, DeDatos, Mutexes
  <2>4. Lleva(a, <<i>>, {}, f, {}, FaseTras(i, f))
    BY <2>2, <2>3, LlevaComun
  <2>. QED
    BY <2>1, <2>3, <2>4
<1>. QED
  BY <1>1

LEMMA LlevaSignal ==
    ASSUME NEW a
    PROVE  /\ Lleva(a, <<Signal("permission_to_block")>>, {}, "turno", {}, "avisado")
           /\ Lleva(a, <<Signal("paused_planification")>>, {}, "turno", {}, "pausado")
           /\ Neutro(a, <<Signal("permission_to_block_released")>>, {}, "suelta")
           /\ Neutro(a, <<Signal("resume_planification")>>, {}, "reanuda")
<1>1. ASSUME NEW c, NEW f, NEW g,
             <<c, f, g>> \in {<<"permission_to_block", "turno", "avisado">>,
                              <<"paused_planification", "turno", "pausado">>,
                              <<"permission_to_block_released", "suelta", "suelta">>,
                              <<"resume_planification", "reanuda", "reanuda">>}
      PROVE  Lleva(a, <<Signal(c)>>, {}, f, {}, g)
  <2>1. PICK i : i = Signal(c)
    OBVIOUS
  <2>2. i.ins = "signal" /\ i.c = c
    BY <2>1 DEF Signal
  <2>3. Permite(a, i, {}, f) /\ FaseTras(i, f) = g
    BY <1>1, <2>2 DEF Permite, FaseTras
  <2>4. Lleva(a, <<i>>, {}, f, {}, FaseTras(i, f))
    BY <2>2, <2>3, LlevaComun
  <2>. QED
    BY <2>1, <2>3, <2>4
<1>. QED
  BY <1>1 DEF Neutro

LEMMA LlevaPon ==
    ASSUME NEW a
    PROVE  /\ Neutro(a, <<Pon("durmiendo", TRUE)>>, {}, "turno")
           /\ Neutro(a, <<Pon("durmiendo", FALSE)>>, {}, "turno")
           /\ Lleva(a, <<Pon("paused", TRUE)>>, {}, "teclado", {}, "pausa")
           /\ Lleva(a, <<Pon("paused", FALSE)>>, {}, "teclado", {}, "reanuda")
           /\ Lleva(a, <<Pon("permission_to_block_acquired", TRUE)>>, {}, "teclado", {}, "pide")
           /\ Lleva(a, <<Pon("permission_to_block_acquired", FALSE)>>, {}, "bloquea", {}, "suelta")
<1>1. ASSUME NEW i, NEW f, NEW g, i.ins = "pon", Permite(a, i, {}, f), FaseTras(i, f) = g
      PROVE  Lleva(a, <<i>>, {}, f, {}, g)
  BY <1>1, LlevaComun
<1>2. \A b, v : Pon(b, v).ins = "pon"
  BY DEF Pon
<1>3. /\ Permite(a, Pon("durmiendo", TRUE), {}, "turno") /\ FaseTras(Pon("durmiendo", TRUE), "turno") = "turno"
      /\ Permite(a, Pon("durmiendo", FALSE), {}, "turno") /\ FaseTras(Pon("durmiendo", FALSE), "turno") = "turno"
  BY DEF Permite, FaseTras, Pon
<1>4. /\ Permite(a, Pon("paused", TRUE), {}, "teclado") /\ FaseTras(Pon("paused", TRUE), "teclado") = "pausa"
      /\ Permite(a, Pon("paused", FALSE), {}, "teclado") /\ FaseTras(Pon("paused", FALSE), "teclado") = "reanuda"
  BY DEF Permite, FaseTras, Pon
<1>5. /\ Permite(a, Pon("permission_to_block_acquired", TRUE), {}, "teclado")
      /\ FaseTras(Pon("permission_to_block_acquired", TRUE), "teclado") = "pide"
      /\ Permite(a, Pon("permission_to_block_acquired", FALSE), {}, "bloquea")
      /\ FaseTras(Pon("permission_to_block_acquired", FALSE), "bloquea") = "suelta"
  BY DEF Permite, FaseTras, Pon
<1>6. Lleva(a, <<Pon("durmiendo", TRUE)>>, {}, "turno", {}, "turno")
  BY <1>1, <1>2, <1>3
<1>7. Lleva(a, <<Pon("durmiendo", FALSE)>>, {}, "turno", {}, "turno")
  BY <1>1, <1>2, <1>3
<1>8. /\ Lleva(a, <<Pon("paused", TRUE)>>, {}, "teclado", {}, "pausa")
      /\ Lleva(a, <<Pon("paused", FALSE)>>, {}, "teclado", {}, "reanuda")
  BY <1>1, <1>2, <1>4
<1>9. /\ Lleva(a, <<Pon("permission_to_block_acquired", TRUE)>>, {}, "teclado", {}, "pide")
      /\ Lleva(a, <<Pon("permission_to_block_acquired", FALSE)>>, {}, "bloquea", {}, "suelta")
  BY <1>1, <1>2, <1>5
<1>. QED
  BY <1>6, <1>7, <1>8, <1>9 DEF Neutro

LEMMA LlevaMensaje ==
    ASSUME NEW a
    PROVE  /\ Lleva(a, <<Manda("sentencia")>>, {}, "turno", {}, "espera")
           /\ Lleva(a, <<Recibe("resultado")>>, {}, "espera", {}, "turno")
           /\ Lleva(a, <<Recibe("sentencia")>>, {}, "oye", {}, "atiende")
           /\ Lleva(a, <<Manda("resultado")>>, {}, "atiende", {}, "oye")
<1>1. /\ Permite(a, Manda("sentencia"), {}, "turno") /\ FaseTras(Manda("sentencia"), "turno") = "espera"
      /\ Permite(a, Manda("resultado"), {}, "atiende") /\ FaseTras(Manda("resultado"), "atiende") = "oye"
  BY DEF Permite, FaseTras, Manda
<1>2. /\ Permite(a, Recibe("resultado"), {}, "espera") /\ FaseTras(Recibe("resultado"), "espera") = "turno"
      /\ Permite(a, Recibe("sentencia"), {}, "oye") /\ FaseTras(Recibe("sentencia"), "oye") = "atiende"
  BY DEF Permite, FaseTras, Recibe
<1>3. \A msj : Manda(msj).ins = "manda" /\ Recibe(msj).ins = "recibe"
  BY DEF Manda, Recibe
<1>4. ASSUME NEW i, NEW f, i.ins \in {"manda", "recibe"}, Permite(a, i, {}, f)
      PROVE  Lleva(a, <<i>>, {}, f, {}, FaseTras(i, f))
  BY <1>4, LlevaComun
<1>5. /\ Lleva(a, <<Manda("sentencia")>>, {}, "turno", {}, "espera")
      /\ Lleva(a, <<Manda("resultado")>>, {}, "atiende", {}, "oye")
  BY <1>1, <1>3, <1>4
<1>6. /\ Lleva(a, <<Recibe("resultado")>>, {}, "espera", {}, "turno")
      /\ Lleva(a, <<Recibe("sentencia")>>, {}, "oye", {}, "atiende")
  BY <1>2, <1>3, <1>4
<1>. QED
  BY <1>5, <1>6

\* The four waits.
LEMMA LlevaWaits ==
    ASSUME NEW a
    PROVE  /\ Lleva(a, <<Wait("permission_to_block_released", "dispatcher_manager")>>, {}, "avisado", {}, "turno")
           /\ Lleva(a, <<Wait("resume_planification", "dispatcher_manager")>>, {}, "pausado", {}, "turno")
           /\ Lleva(a, <<Wait("permission_to_block", "permission_to_block_manager")>>, {}, "tiene", {}, "bloquea")
           /\ Lleva(a, <<Wait("paused_planification", "pause_manager")>>, {}, "pausa_tiene", {}, "teclado")
<1>1. ASSUME NEW c, NEW m, NEW f, NEW g, NEW h,
             <<c, m, f, g, h>> \in
                 {<<"permission_to_block_released", "dispatcher_manager", "avisado", "avisado", "turno">>,
                  <<"resume_planification", "dispatcher_manager", "pausado", "pausado", "turno">>,
                  <<"permission_to_block", "permission_to_block_manager", "tiene", "dormida", "vuelve">>,
                  <<"paused_planification", "pause_manager", "pausa_tiene", "pausa_dormida", "pausa_vuelve">>}
      PROVE  /\ Permite(a, Wait(c, m), {}, f) /\ FaseTras(Wait(c, m), f) = g
             /\ Permite(a, Duerme(c, m), {}, g) /\ FaseTras(Duerme(c, m), g) = h
  <2>1. PICK i : i = Wait(c, m)
    OBVIOUS
  <2>2. i.ins = "wait" /\ i.c = c /\ i.m = m
    BY <2>1 DEF Wait
  <2>3. PICK d : d = Duerme(c, m)
    OBVIOUS
  <2>4. d.ins = "duerme" /\ d.c = c /\ d.m = m
    BY <2>3 DEF Duerme
  <2>5. Permite(a, i, {}, f)
    BY <1>1, <2>2 DEF Permite
  <2>6. FaseTras(i, f) = g
    BY <1>1, <2>2 DEF FaseTras
  <2>7. Permite(a, d, {}, g)
    BY <1>1, <2>4 DEF Permite
  <2>8. FaseTras(d, g) = h
    BY <1>1, <2>4 DEF FaseTras
  <2>. QED
    BY <2>1, <2>3, <2>5, <2>6, <2>7, <2>8
<1>2. Lleva(a, <<Wait("permission_to_block_released", "dispatcher_manager")>>, {}, "avisado", {}, "turno")
  <2>1. Lleva(a, <<Lock("dispatcher_manager")>>, {}, "turno", {}, "turno")
    BY LlevaOtroLock DEF Neutro
  <2>. QED
    BY <1>1, <2>1, LlevaWait
<1>3. Lleva(a, <<Wait("resume_planification", "dispatcher_manager")>>, {}, "pausado", {}, "turno")
  <2>1. Lleva(a, <<Lock("dispatcher_manager")>>, {}, "turno", {}, "turno")
    BY LlevaOtroLock DEF Neutro
  <2>. QED
    BY <1>1, <2>1, LlevaWait
<1>4. Lleva(a, <<Wait("permission_to_block", "permission_to_block_manager")>>, {}, "tiene", {}, "bloquea")
  BY <1>1, LlevaOtroLock, LlevaWait
<1>5. Lleva(a, <<Wait("paused_planification", "pause_manager")>>, {}, "pausa_tiene", {}, "teclado")
  BY <1>1, LlevaOtroLock, LlevaWait
<1>. QED
  BY <1>2, <1>3, <1>4, <1>5

-----------------------------------------------------------------------------
(* The programs of the threads *)

LEMMA AtomicExecutionNeutro == ASSUME NEW a PROVE Neutro(a, AtomicExecution, {}, "turno")
<1>1. Neutro(a, <<Signal("paused_planification"), Wait("resume_planification", "dispatcher_manager")>>,
             {}, "turno")
  BY LlevaSignal, LlevaWaits, LlevaSeguido, Pareja DEF Neutro
<1>2. Neutro(a, <<Signal("permission_to_block"),
                  Wait("permission_to_block_released", "dispatcher_manager")>>, {}, "turno")
  BY LlevaSignal, LlevaWaits, LlevaSeguido, Pareja DEF Neutro
<1>3. PICK p, q : /\ p = <<Signal("paused_planification"), Wait("resume_planification", "dispatcher_manager")>>
                  /\ q = <<Signal("permission_to_block"),
                           Wait("permission_to_block_released", "dispatcher_manager")>>
  OBVIOUS
<1>4. Neutro(a, <<Si("paused", p)>>, {}, "turno") /\ Neutro(a, <<Si("permission_to_block_acquired", q)>>, {}, "turno")
  BY <1>1, <1>2, <1>3, NeutroSi DEF Libre
<1>5. Neutro(a, <<Si("paused", p), Si("permission_to_block_acquired", q)>>, {}, "turno")
  BY <1>4, NeutroSeguido, Pareja
<1>. QED
  BY <1>3, <1>5 DEF AtomicExecution

LEMMA SinResultadoNeutro == Neutro(algorithm, SinResultado, {}, "turno")
<1>1. Neutro(algorithm, <<Unlock("dispatcher_manager")>>, {}, "turno")
  BY NeutroSuelta DEF Libre
<1>2. Neutro(algorithm, FinishEsi(FinishRunningEsi), {}, "turno")
  BY FinishManso, MansoSolo DEF Libre
<1>. QED
  BY <1>1, <1>2, NeutroSeguido DEF SinResultado

LEMMA ResultadoNeutro ==
    Neutro(algorithm, CheckExecutionError \o BorradoDeFinish \o CierraTurno, {}, "turno")
<1>1. /\ Neutro(algorithm, FinishEsi(FinishRunningEsi), {}, "turno")
      /\ Neutro(algorithm, << >>, {}, "turno")
  BY FinishManso, VacioNeutro, MansoSolo DEF Libre
<1>2. Neutro(algorithm, CheckExecutionError, {}, "turno")
  BY <1>1, LlevaElige DEF Neutro, Libre, CheckExecutionError
<1>3. Neutro(algorithm, BorradoDeFinish, {}, "turno")
  BY BorradoManso, MansoSolo DEF Libre
<1>4. Neutro(algorithm, <<Unlock("dispatcher_manager")>>, {}, "turno")
  BY NeutroSuelta DEF Libre
<1>5. Neutro(algorithm, <<Elige({<<Pon("durmiendo", TRUE)>>, <<Unlock("dispatcher_manager")>>})>>, {}, "turno")
  <2>1. PICK P : P = {<<Pon("durmiendo", TRUE)>>, <<Unlock("dispatcher_manager")>>}
    OBVIOUS
  <2>2. \A p \in P : Lleva(algorithm, p, {}, "turno", {}, "turno")
    BY <1>4, <2>1, LlevaPon DEF Neutro
  <2>. QED
    BY <2>1, <2>2, LlevaElige DEF Neutro, Libre
<1>6. Neutro(algorithm, <<Elige({FinishEsi(FinishRunningEsi), << >>})>>, {}, "turno")
  BY <1>2 DEF CheckExecutionError
<1>7. Neutro(algorithm, CierraTurno, {}, "turno")
  <2>1. PICK i, j : /\ i = Elige({FinishEsi(FinishRunningEsi), << >>})
                    /\ j = Elige({<<Pon("durmiendo", TRUE)>>, <<Unlock("dispatcher_manager")>>})
    OBVIOUS
  <2>2. Neutro(algorithm, <<i, j>>, {}, "turno")
    BY <1>5, <1>6, <2>1, NeutroSeguido, Pareja
  <2>. QED
    BY <2>1, <2>2 DEF CierraTurno
<1>8. Neutro(algorithm, CheckExecutionError \o BorradoDeFinish, {}, "turno")
  BY <1>2, <1>3, NeutroSeguido
<1>. QED
  BY <1>7, <1>8, NeutroSeguido

LEMMA SentenciaNeutra ==
    Neutro(algorithm, <<Manda("sentencia"), Recibe("resultado")>> \o CheckExecutionError
                          \o BorradoDeFinish \o CierraTurno, {}, "turno")
<1>1. PICK m : m = <<Manda("sentencia"), Recibe("resultado")>>
  OBVIOUS
<1>2. Neutro(algorithm, m, {}, "turno")
  BY <1>1, LlevaMensaje, LlevaSeguido, Pareja DEF Neutro
<1>3. EsPrograma(m) /\ EsPrograma(CheckExecutionError) /\ EsPrograma(BorradoDeFinish) /\ EsPrograma(CierraTurno)
  <2>1. EsPrograma(CheckExecutionError)
    BY UnoEsPrograma DEF CheckExecutionError
  <2>2. EsPrograma(CierraTurno)
    BY UnoEsPrograma, UnidosSonPrograma, Pareja DEF CierraTurno
  <2>. QED
    BY <1>2, <2>1, <2>2, BorradoManso DEF Neutro, Lleva, Manso
<1>4. PICK c, b, t : c = CheckExecutionError /\ b = BorradoDeFinish /\ t = CierraTurno
  OBVIOUS
<1>5. m \o c \o b \o t = m \o (c \o b \o t)
  <2>1. EsPrograma(c \o b) /\ EsPrograma(m) /\ EsPrograma(c) /\ EsPrograma(b) /\ EsPrograma(t)
    BY <1>3, <1>4, UnidosSonPrograma
  <2>2. (m \o c) \o b = m \o (c \o b)
    BY <2>1, UnidosDeTres
  <2>3. (m \o (c \o b)) \o t = m \o ((c \o b) \o t)
    BY <2>1, UnidosDeTres
  <2>. QED
    BY <2>2, <2>3
<1>6. Neutro(algorithm, c \o b \o t, {}, "turno")
  BY <1>4, ResultadoNeutro
<1>7. Neutro(algorithm, m \o (c \o b \o t), {}, "turno")
  BY <1>2, <1>6, NeutroSeguido
<1>. QED
  BY <1>1, <1>4, <1>5, <1>7

LEMMA DispatchBien == Bien(algorithm, Dispatch, {}, "turno")
<1>1. Neutro(algorithm, <<Lock("dispatcher_manager")>> \o AtomicExecution, {}, "turno")
  BY LlevaOtroLock, AtomicExecutionNeutro, NeutroSeguido
<1>2. Neutro(algorithm, <<Si("durmiendo", Replan), Pon("durmiendo", FALSE)>>, {}, "turno")
  <2>1. Neutro(algorithm, <<Si("durmiendo", Replan)>>, {}, "turno")
    BY ReplanManso, MansoSolo, NeutroSi DEF Libre
  <2>. QED
    BY <2>1, LlevaPon, NeutroSeguido, Pareja
<1>3. Neutro(algorithm, EnElMapa, {}, "turno")
  BY EnElMapaManso, MansoSolo DEF Libre
<1>4. PICK P : P = { SinResultado,
                     <<Manda("sentencia"), Recibe("resultado")>> \o CheckExecutionError
                         \o BorradoDeFinish \o CierraTurno }
  OBVIOUS
<1>5. Neutro(algorithm, <<Elige(P)>>, {}, "turno")
  <2>1. \A p \in P : Lleva(algorithm, p, {}, "turno", {}, "turno")
    BY <1>4, SinResultadoNeutro, SentenciaNeutra DEF Neutro
  <2>. QED
    BY <2>1, LlevaElige DEF Neutro, Libre
<1>6. Neutro(algorithm, <<Lock("dispatcher_manager")>> \o AtomicExecution
                            \o <<Si("durmiendo", Replan), Pon("durmiendo", FALSE)>>, {}, "turno")
  BY <1>1, <1>2, NeutroSeguido
<1>7. Neutro(algorithm, <<Lock("dispatcher_manager")>> \o AtomicExecution
                            \o <<Si("durmiendo", Replan), Pon("durmiendo", FALSE)>> \o EnElMapa, {}, "turno")
  BY <1>3, <1>6, NeutroSeguido
<1>8. Neutro(algorithm, <<Lock("dispatcher_manager")>> \o AtomicExecution
                            \o <<Si("durmiendo", Replan), Pon("durmiendo", FALSE)>> \o EnElMapa
                            \o <<Elige(P)>>, {}, "turno")
  BY <1>5, <1>7, NeutroSeguido
<1>9. Neutro(algorithm, Dispatch, {}, "turno")
  BY <1>4, <1>8 DEF Dispatch
<1>. QED
  BY <1>9, LlevaAlFinal DEF Neutro, Reposo

\* After the interruption of the ESI.
LEMMA SinResultadoBien == Bien(algorithm, SinResultado, {}, "turno")
BY SinResultadoNeutro, LlevaAlFinal DEF Neutro, Reposo

LEMMA ConnectBien == Bien(algorithm, ConnectToCoordinator, {}, "oye")
<1>1. PICK P : P = {BloquearRecurso, <<Pasa("blocked_resources")>>, FreeResource}
  OBVIOUS
<1>2. \A p \in P : Lleva(algorithm, p, {}, "atiende", {}, "atiende")
  <2>1. /\ Neutro(algorithm, BloquearRecurso, {}, "atiende")
        /\ Neutro(algorithm, <<Pasa("blocked_resources")>>, {}, "atiende")
        /\ Neutro(algorithm, FreeResource, {}, "atiende")
    BY BloquearNeutro, PasaRecursosManso, FreeResourceManso, MansoSolo DEF Libre
  <2>. QED
    BY <1>1, <2>1 DEF Neutro
<1>3. Lleva(algorithm, <<Elige(P)>>, {}, "atiende", {}, "atiende")
  BY <1>2, LlevaElige DEF Libre
<1>4. Lleva(algorithm, <<Elige(P), Manda("resultado")>>, {}, "atiende", {}, "oye")
  BY <1>3, LlevaMensaje, LlevaSeguido, Pareja
<1>5. Lleva(algorithm, <<Recibe("sentencia"), Elige(P), Manda("resultado")>>, {}, "oye", {}, "oye")
  <2>1. Lleva(algorithm, <<Recibe("sentencia")>> \o <<Elige(P), Manda("resultado")>>, {}, "oye", {}, "oye")
    BY <1>4, LlevaMensaje, LlevaSeguido
  <2>. QED
    BY <2>1, Terna
<1>6. Lleva(algorithm, ConnectToCoordinator, {}, "oye", {}, "oye")
  BY <1>1, <1>5 DEF ConnectToCoordinator
<1>. QED
  BY <1>6, LlevaAlFinal DEF Reposo

LEMMA ConexionBien == Bien(algorithm, EsiConnectionHandler, {}, "conexion")
<1>1. Manso(algorithm, EnElMapa, 0) /\ Manso(algorithm, AddEsiByAlgorithm, 0)
  BY EnElMapaManso, AddEsiManso, MansoAntes
<1>2. Manso(algorithm, EnElMapa \o AddEsiByAlgorithm, 0)
  BY <1>1, MansoSeguido
<1>3. Manso(algorithm, EsiConnectionHandler, 0)
  BY <1>2, NotifyManso, MansoSeguido DEF EsiConnectionHandler
<1>4. Neutro(algorithm, EsiConnectionHandler, {}, "conexion")
  BY <1>3, MansoSolo DEF Libre
<1>. QED
  BY <1>4, LlevaAlFinal DEF Neutro, Reposo

-----------------------------------------------------------------------------
(* The commands *)

LEMMA PauseBien == ASSUME NEW a PROVE Bien(a, PauseDispatcher, {}, "teclado")
<1>1. PICK p : p = <<Unlock("dispatcher_manager"), Lock("pause_manager"),
                     Wait("paused_planification", "pause_manager")>>
  OBVIOUS
<1>2. Lleva(a, p, {}, "pausa", {}, "teclado")
  <2>1. Lleva(a, <<Unlock("dispatcher_manager")>>, {}, "pausa", {}, "pausa")
    BY NeutroSuelta DEF Libre, Neutro
  <2>2. Lleva(a, <<Lock("pause_manager"), Wait("paused_planification", "pause_manager")>>,
              {}, "pausa", {}, "teclado")
    BY LlevaOtroLock, LlevaWaits, LlevaSeguido, Pareja
  <2>. QED
    BY <1>1, <2>1, <2>2, LlevaSeguido, Terna
<1>3. PICK i : i = TryLock("dispatcher_manager", p)
  OBVIOUS
<1>4. i.ins = "trylock" /\ i.m = "dispatcher_manager" /\ i.si = p
  BY <1>3 DEF TryLock
<1>5. Permite(a, i, {}, "pausa")
  BY <1>4 DEF Permite
<1>6. ASSUME NEW q, EsPrograma(q), Bien(a, q, {}, "teclado")
      PROVE  Bien(a, <<i>> \o q, {}, "pausa")
  <2>1. Bien(a, p \o q, {}, "pausa")
    BY <1>2, <1>6 DEF Lleva
  <2>2. ASSUME NEW r, NEW L, NEW h, Sucesor(i, q, {}, "pausa", <<r, L, h>>)
        PROVE  Bien(a, r, L, h)
    <3>1. \/ r = p \o q /\ L = {} /\ h = "pausa"
          \/ r = q /\ L = {} /\ h = "teclado"
      BY <1>4, <2>2 DEF Sucesor
    <3>. QED
      BY <1>6, <2>1, <3>1
  <2>. QED
    BY <1>5, <1>6, <2>2, Adelante
<1>7. Lleva(a, <<i>>, {}, "pausa", {}, "teclado")
  BY <1>6, UnoEsPrograma DEF Lleva
<1>8. Lleva(a, <<Pon("paused", TRUE), i>>, {}, "teclado", {}, "teclado")
  BY <1>7, LlevaPon, LlevaSeguido, Pareja
<1>. QED
  BY <1>1, <1>3, <1>8, LlevaAlFinal DEF PauseDispatcher, Reposo

LEMMA ResumeBien == ASSUME NEW a PROVE Bien(a, ResumeDispatcher, {}, "teclado")
<1>1. Lleva(a, <<Signal("resume_planification"), Unlock("pause_manager")>>, {}, "reanuda", {}, "teclado")
  BY LlevaSignal, LlevaOtroUnlock, LlevaSeguido, Pareja DEF Neutro
<1>2. Lleva(a, <<Pon("paused", FALSE)>> \o <<Signal("resume_planification"), Unlock("pause_manager")>>,
            {}, "teclado", {}, "teclado")
  BY <1>1, LlevaPon, LlevaSeguido
<1>3. Lleva(a, ResumeDispatcher, {}, "teclado", {}, "teclado")
  BY <1>2, Terna DEF ResumeDispatcher
<1>. QED
  BY <1>3, LlevaAlFinal DEF Reposo

LEMMA BlockBien == Bien(algorithm, BlockCmd, {}, "teclado")
<1>1. Lleva(algorithm, AcquirePermissionToBlock, {}, "teclado", {}, "bloquea")
  <2>1. Lleva(algorithm, <<Lock("permission_to_block_manager"),
                           Wait("permission_to_block", "permission_to_block_manager")>>,
              {}, "pide", {}, "bloquea")
    BY LlevaOtroLock, LlevaWaits, LlevaSeguido, Pareja
  <2>2. Lleva(algorithm, <<Pon("permission_to_block_acquired", TRUE)>>
                             \o <<Lock("permission_to_block_manager"),
                                  Wait("permission_to_block", "permission_to_block_manager")>>,
              {}, "teclado", {}, "bloquea")
    BY <2>1, LlevaPon, LlevaSeguido
  <2>. QED
    BY <2>2, Terna DEF AcquirePermissionToBlock
<1>2. Lleva(algorithm, ReleasePermissionToBlock, {}, "bloquea", {}, "teclado")
  <2>1. Lleva(algorithm, <<Signal("permission_to_block_released"), Unlock("permission_to_block_manager")>>,
              {}, "suelta", {}, "teclado")
    BY LlevaSignal, LlevaOtroUnlock, LlevaSeguido, Pareja DEF Neutro
  <2>2. Lleva(algorithm, <<Pon("permission_to_block_acquired", FALSE)>>
                             \o <<Signal("permission_to_block_released"),
                                  Unlock("permission_to_block_manager")>>,
              {}, "bloquea", {}, "teclado")
    BY <2>1, LlevaPon, LlevaSeguido
  <2>. QED
    BY <2>2, Terna DEF ReleasePermissionToBlock
<1>3. /\ Lleva(algorithm, BloquearRecurso, {}, "bloquea", {}, "bloquea")
      /\ Lleva(algorithm, BloquearRecurso, {}, "teclado", {}, "teclado")
  BY BloquearNeutro DEF Libre, Neutro
<1>4. Lleva(algorithm, AcquirePermissionToBlock \o BloquearRecurso, {}, "teclado", {}, "bloquea")
  BY <1>1, <1>3, LlevaSeguido
<1>5. Lleva(algorithm, AcquirePermissionToBlock \o BloquearRecurso \o ReleasePermissionToBlock,
            {}, "teclado", {}, "teclado")
  BY <1>2, <1>4, LlevaSeguido
<1>6. PICK P : P = { AcquirePermissionToBlock \o BloquearRecurso \o ReleasePermissionToBlock,
                     BloquearRecurso }
  OBVIOUS
<1>7. Neutro(algorithm, <<Elige(P)>>, {}, "teclado")
  <2>1. \A p \in P : Lleva(algorithm, p, {}, "teclado", {}, "teclado")
    BY <1>3, <1>5, <1>6
  <2>. QED
    BY <2>1, LlevaElige DEF Neutro, Libre
<1>8. Neutro(algorithm, EnElMapa \o <<Pasa("blocked_resources")>>, {}, "teclado")
  <2>1. Neutro(algorithm, EnElMapa, {}, "teclado") /\ Neutro(algorithm, <<Pasa("blocked_resources")>>, {}, "teclado")
    BY EnElMapaManso, PasaRecursosManso, MansoSolo DEF Libre
  <2>. QED
    BY <2>1, NeutroSeguido
<1>9. Neutro(algorithm, EnElMapa \o <<Pasa("blocked_resources")>> \o <<Elige(P)>>, {}, "teclado")
  BY <1>7, <1>8, NeutroSeguido
<1>. QED
  BY <1>6, <1>9, LlevaAlFinal DEF Neutro, Reposo, BlockCmd

\* Of a command that only locks in order.
LEMMA MansoBien ==
    ASSUME NEW a, NEW p, NEW n \in Nat, Manso(a, p, n)
    PROVE  Bien(a, p, {}, "teclado")
<1>1. Neutro(a, p, {}, "teclado")
  BY MansoSolo DEF Libre
<1>. QED
  BY <1>1, LlevaAlFinal DEF Neutro, Reposo

LEMMA UnblockBien == Bien(algorithm, UnblockCmd, {}, "teclado")
<1>1. Manso(algorithm, EnElMapa \o UnblockEsi, 1)
  <2>1. Manso(algorithm, EnElMapa, 1) /\ Manso(algorithm, UnblockEsi, 1)
    BY EnElMapaManso, UnblockEsiManso, MansoAntes
  <2>. QED
    BY <2>1, MansoSeguido
<1>2. Manso(algorithm, <<Elige({EnElMapa \o UnblockEsi, <<Pasa("blocked_resources")>>})>>, 1)
  BY <1>1, PasaRecursosManso, MansoElige
<1>3. Manso(algorithm, UnblockCmd, 0)
  <2>1. Manso(algorithm, <<Elige({EnElMapa \o UnblockEsi, <<Pasa("blocked_resources")>>})>>,
              Rango(algorithm, "blocked_by_resource") + 1)
    BY <1>2, Rangos
  <2>2. Manso(algorithm, UnblockCmd, Rango(algorithm, "blocked_by_resource"))
    BY <2>1, MansoCon, LosDatos DEF UnblockCmd
  <2>. QED
    BY <2>2, Rangos
<1>. QED
  BY <1>3, MansoBien

LEMMA KillBien == Bien(algorithm, KillCmd, {}, "teclado")
<1>1. Manso(algorithm, EnElMapa, 0)
  BY EnElMapaManso, MansoAntes
<1>2. Manso(algorithm, KillCmd, 0)
  BY <1>1, FinishManso, MansoSeguido DEF KillCmd
<1>. QED
  BY <1>2, MansoBien

LEMMA ListBien ==
    ASSUME NEW a PROVE Bien(a, ListCmd, {}, "teclado") /\ Bien(a, StatusCmd, {}, "teclado")
<1>1. Manso(a, ListCmd, 0)
  BY MansoPasa, Rangos, LosDatos DEF ListCmd
<1>2. Manso(a, StatusCmd, 0)
  BY <1>1, VacioManso, MansoElige DEF StatusCmd
<1>. QED
  BY <1>1, <1>2, MansoBien

\* The map of the queues last.
LEMMA DeadlockBien == ASSUME NEW a PROVE Bien(a, DeadlockCmd, {}, "teclado")
<1>1. PICK K, L : K = {"blocked_3"} /\ L = {"blocked_3", "esi_map_6"}
  OBVIOUS
<1>2. Puede(a, L, "blocked_by_resource")
  BY <1>1, LosDatos DEF Puede
<1>3. Puede(a, K, "esi_map_6") /\ K \cup {"esi_map_6"} = L
  BY <1>1, LosDatos, Rangos DEF Puede
<1>4. Puede(a, {}, "blocked_3") /\ {} \cup {"blocked_3"} = K
  BY <1>1, LosDatos DEF Puede
<1>5. Neutro(a, <<Pasa("blocked_by_resource")>>, L, "teclado")
  BY <1>2, NeutroPasa DEF Libre
<1>6. Neutro(a, Con("esi_map_6", <<Pasa("blocked_by_resource")>>), K, "teclado")
  BY <1>3, <1>5, NeutroCon DEF Libre
<1>7. Neutro(a, DeadlockCmd, {}, "teclado")
  BY <1>4, <1>6, NeutroCon DEF Libre, DeadlockCmd
<1>. QED
  BY <1>7, LlevaAlFinal DEF Neutro, Reposo

LEMMA ComandosBien ==
    ASSUME NEW p \in Comandos PROVE Bien(algorithm, p, {}, "teclado")
BY PauseBien, ResumeBien, BlockBien, UnblockBien, KillBien, DeadlockBien, ListBien DEF Comandos

-----------------------------------------------------------------------------
(* The invariant *)

\* The mutexes of the data that a thread has locked.
Tiene(t) == {m \in DeDatos : dueno[m] = t}

Tipos ==
    /\ algorithm \in Algoritmos
    /\ programa = [t \in Hilos |-> programa[t]]
    /\ dueno \in [Mutexes -> Hilos \cup {"nadie", "principal"}]
    /\ bandera \in [{"paused", "permission_to_block_acquired", "durmiendo"} -> BOOLEAN]
    /\ mensajes \in [{"sentencia", "resultado", "perdido"} -> Nat]
    /\ cuenta \in [{"comandos", "conexiones", "interrupciones"} -> Nat]

\* A thread that is in f can go on with what it has to run.
Encaminado(t, f) == f \in FasesDe(t) /\ Bien(algorithm, programa[t], Tiene(t), f)

Encaminados(F) == F = [t \in Hilos |-> F[t]] /\ \A t \in Hilos : Encaminado(t, F[t])

\* What the console, in c, knows of the dispatcher, in d.
Acuerdos(c, d) ==
    /\ c \in {"vuelve", "bloquea"} => d = "avisado"
    /\ bandera["permission_to_block_acquired"] => c \in {"pide", "tiene", "dormida", "vuelve", "bloquea"}
    /\ dueno["permission_to_block_manager"] = "consola" => c \in {"tiene", "bloquea", "suelta"}
    /\ c = "pausa_vuelve" => d = "pausado"
    /\ dueno["pause_manager"] = "consola" => c \in {"pausa_tiene", "reanuda"} \/ d = "pausado"

Uno(b) == IF b THEN 1 ELSE 0

\* Every sentence has its answer on the way, waited for by the dispatcher, in d,
\* or lost.  The coordinator's thread is in k.
Cuentas(k, d) ==
    /\ mensajes["sentencia"] + Uno(k = "atiende") + mensajes["resultado"]
           = mensajes["perdido"] + Uno(d = "espera")
    /\ mensajes["perdido"] <= cuenta["interrupciones"]
    /\ cuenta["interrupciones"] <= MaxInterrupciones

Estado(F) ==
    /\ Encaminados(F)
    /\ Acuerdos(F["consola"], F["despachador"])
    /\ Cuentas(F["coordinador"], F["despachador"])

IInv == Tipos /\ \E F : Estado(F)

-----------------------------------------------------------------------------
(* Steps *)

LEMMA Permitido ==
    ASSUME NEW t, NEW f, Encaminado(t, f), programa[t] # << >>
    PROVE  Permite(algorithm, Head(programa[t]), Tiene(t), f)
BY Desdobla DEF Encaminado

LEMMA PasoEncaminado ==
    ASSUME NEW t, NEW f, Encaminado(t, f), programa[t] # << >>, NEW g \in FasesDe(t),
           algorithm' = algorithm,
           Sucesor(Head(programa[t]), Tail(programa[t]), Tiene(t), f, <<programa'[t], Tiene(t)', g>>)
    PROVE  Encaminado(t, g)'
<1>1. PICK r, K : r = programa'[t] /\ K = Tiene(t)'
  OBVIOUS
<1>2. Bien(algorithm, r, K, g)
  BY <1>1, Desdobla DEF Encaminado
<1>. QED
  BY <1>1, <1>2 DEF Encaminado

LEMMA OtroEncaminado ==
    ASSUME NEW h, NEW f, Encaminado(h, f), algorithm' = algorithm,
           programa'[h] = programa[h], Tiene(h)' = Tiene(h)
    PROVE  Encaminado(h, f)'
BY DEF Encaminado

\* One thread moves.
LEMMA UnHilo ==
    ASSUME NEW F, Encaminados(F), NEW t \in Hilos, NEW g, Encaminado(t, g)', algorithm' = algorithm,
           \A h \in Hilos \ {t} : programa'[h] = programa[h] /\ Tiene(h)' = Tiene(h)
    PROVE  Encaminados([F EXCEPT ![t] = g])'
<1>1. PICK G : G = [F EXCEPT ![t] = g]
  OBVIOUS
<1>2. F = [h \in Hilos |-> F[h]]
  BY DEF Encaminados
<1>3. G = [h \in Hilos |-> G[h]] /\ G[t] = g /\ \A h \in Hilos \ {t} : G[h] = F[h]
  BY <1>1, <1>2 DEF Encaminados
<1>4. ASSUME NEW h \in Hilos PROVE Encaminado(h, G[h])'
  <2>1. CASE h = t
    BY <1>3, <2>1
  <2>2. CASE h # t
    <3>1. Encaminado(h, F[h])
      BY DEF Encaminados
    <3>2. Encaminado(h, F[h])'
      BY <2>2, <3>1, OtroEncaminado
    <3>. QED
      BY <1>3, <2>2, <3>2
  <2>. QED
    BY <2>1, <2>2
<1>5. Encaminados(G)'
  BY <1>3, <1>4 DEF Encaminados
<1>. QED
  BY <1>1, <1>5

LEMMA TieneIgual == ASSUME UNCHANGED dueno, NEW h PROVE Tiene(h)' = Tiene(h)
BY DEF Tiene

LEMMA TieneTrasLock ==
    ASSUME Tipos, NEW t \in Hilos, NEW m \in Mutexes, dueno[m] = "nadie",
           dueno' = [dueno EXCEPT ![m] = t]
    PROVE  /\ Tiene(t)' = IF m \in DeDatos THEN Tiene(t) \cup {m} ELSE Tiene(t)
           /\ \A h \in Hilos \ {t} : Tiene(h)' = Tiene(h)
<1>1. \A n \in Mutexes : dueno'[n] = IF n = m THEN t ELSE dueno[n]
  BY DEF Tipos
<1>2. DeDatos \subseteq Mutexes
  BY DEF DeDatos
<1>3. \A h \in Hilos : h # "nadie"
  BY DEF Hilos
<1>. QED
  BY <1>1, <1>2, <1>3 DEF Tiene

LEMMA TieneTrasUnlock ==
    ASSUME Tipos, NEW t \in Hilos, NEW m \in Mutexes, m \in DeDatos => m \in Tiene(t),
           dueno' = [dueno EXCEPT ![m] = "nadie"]
    PROVE  /\ Tiene(t)' = Tiene(t) \ {m}
           /\ \A h \in Hilos \ {t} : Tiene(h)' = Tiene(h)
<1>1. \A n \in Mutexes : dueno'[n] = IF n = m THEN "nadie" ELSE dueno[n]
  BY DEF Tipos
<1>2. DeDatos \subseteq Mutexes
  BY DEF DeDatos
<1>3. \A h \in Hilos : h # "nadie"
  BY DEF Hilos
<1>. QED
  BY <1>1, <1>2, <1>3 DEF Tiene

LEMMA AcuerdosIgual ==
    ASSUME NEW c, NEW d, Acuerdos(c, d),
           bandera'["permission_to_block_acquired"] = bandera["permission_to_block_acquired"],
           dueno'["permission_to_block_manager"] = dueno["permission_to_block_manager"],
           dueno'["pause_manager"] = dueno["pause_manager"]
    PROVE  Acuerdos(c, d)'
BY Zenon DEF Acuerdos

LEMMA CuentasIgual ==
    ASSUME NEW k, NEW d, Cuentas(k, d), UNCHANGED <<mensajes, cuenta>>
    PROVE  Cuentas(k, d)'
BY DEF Cuentas

\* Whose a phase is.
LEMMA DeQuienEs ==
    ASSUME NEW t \in Hilos, NEW f \in FasesDe(t)
    PROVE  /\ f \in {"pide", "tiene", "dormida", "vuelve", "bloquea", "suelta", "teclado", "pausa",
                     "pausa_tiene", "pausa_dormida", "pausa_vuelve", "reanuda"} => t = "consola"
           /\ f \in {"turno", "espera", "avisado", "pausado"} => t = "despachador"
           /\ f \in {"oye", "atiende"} => t = "coordinador"
           /\ t = "consola" => f \in {"pide", "tiene", "dormida", "vuelve", "bloquea", "suelta", "teclado",
                     "pausa", "pausa_tiene", "pausa_dormida", "pausa_vuelve", "reanuda"}
           /\ t = "despachador" => f \in {"turno", "espera", "avisado", "pausado"}
           /\ t = "coordinador" => f \in {"oye", "atiende"}
BY DEF FasesDe, Hilos

\* The other threads' phases when t goes to g.
LEMMA FasesTras ==
    ASSUME NEW F, F = [h \in Hilos |-> F[h]], NEW t \in Hilos, NEW g
    PROVE  /\ [F EXCEPT ![t] = g]["consola"] = IF t = "consola" THEN g ELSE F["consola"]
           /\ [F EXCEPT ![t] = g]["despachador"] = IF t = "despachador" THEN g ELSE F["despachador"]
           /\ [F EXCEPT ![t] = g]["coordinador"] = IF t = "coordinador" THEN g ELSE F["coordinador"]
BY DEF Hilos

LEMMA ProgramaTras ==
    ASSUME Tipos, NEW t \in Hilos, NEW p, programa' = [programa EXCEPT ![t] = p]
    PROVE  /\ programa' = [h \in Hilos |-> programa'[h]]
           /\ programa'[t] = p /\ \A h \in Hilos \ {t} : programa'[h] = programa[h]
BY DEF Tipos

LEMMA SigueTras ==
    ASSUME Tipos, NEW t \in Hilos, NEW p, Sigue(t, p)
    PROVE  /\ programa' = [h \in Hilos |-> programa'[h]]
           /\ programa'[t] = p \o Tail(programa[t])
           /\ \A h \in Hilos \ {t} : programa'[h] = programa[h]
<1>1. PICK q : q = p \o Tail(programa[t])
  OBVIOUS
<1>2. programa' = [programa EXCEPT ![t] = q]
  BY <1>1 DEF Sigue
<1>. QED
  BY <1>1, <1>2, ProgramaTras

\* What is left after an instruction that adds nothing.
LEMMA SigueIgual ==
    ASSUME Tipos, NEW t \in Hilos, EsPrograma(programa[t]), programa[t] # << >>, Sigue(t, << >>)
    PROVE  programa'[t] = Tail(programa[t])
<1>1. EsPrograma(Tail(programa[t]))
  BY ColaEsPrograma
<1>. QED
  BY <1>1, SigueTras, UnidosAlVacio

LEMMA EncaminadoEsPrograma ==
    ASSUME NEW t, NEW f, Encaminado(t, f) PROVE EsPrograma(programa[t])
BY Desdobla DEF Encaminado

\* A thread that moves and leaves the rest of what was agreed alone.
LEMMA MueveUno ==
    ASSUME NEW F, Estado(F), NEW t \in Hilos, NEW g, Encaminado(t, g)', algorithm' = algorithm,
           \A h \in Hilos \ {t} : programa'[h] = programa[h] /\ Tiene(h)' = Tiene(h),
           Acuerdos(IF t = "consola" THEN g ELSE F["consola"],
                    IF t = "despachador" THEN g ELSE F["despachador"])',
           Cuentas(IF t = "coordinador" THEN g ELSE F["coordinador"],
                   IF t = "despachador" THEN g ELSE F["despachador"])'
    PROVE  \E G : Estado(G)'
<1>1. PICK G : G = [F EXCEPT ![t] = g]
  OBVIOUS
<1>2. Encaminados(G)'
  BY <1>1, UnHilo DEF Estado
<1>3. F = [h \in Hilos |-> F[h]]
  BY DEF Estado, Encaminados
<1>4. PICK c, d, k : c = G["consola"] /\ d = G["despachador"] /\ k = G["coordinador"]
  OBVIOUS
<1>5. /\ c = IF t = "consola" THEN g ELSE F["consola"]
      /\ d = IF t = "despachador" THEN g ELSE F["despachador"]
      /\ k = IF t = "coordinador" THEN g ELSE F["coordinador"]
  BY <1>1, <1>3, <1>4, FasesTras
<1>6. Acuerdos(c, d)' /\ Cuentas(k, d)'
  BY <1>5
<1>. QED
  BY <1>2, <1>4, <1>6 DEF Estado

\* The same without a new phase.
LEMMA MismaFase ==
    ASSUME NEW F, Estado(F), NEW t \in Hilos, Encaminado(t, F[t])', algorithm' = algorithm,
           \A h \in Hilos \ {t} : programa'[h] = programa[h] /\ Tiene(h)' = Tiene(h),
           Acuerdos(F["consola"], F["despachador"])',
           UNCHANGED <<mensajes, cuenta>>
    PROVE  \E G : Estado(G)'
<1>1. Cuentas(F["coordinador"], F["despachador"])'
  BY CuentasIgual DEF Estado
<1>2. \A h \in Hilos \ {t} : Encaminado(h, F[h])
  BY DEF Estado, Encaminados
<1>3. \A h \in Hilos \ {t} : Encaminado(h, F[h])'
  BY <1>2, OtroEncaminado
<1>4. Encaminados(F)'
  BY <1>3 DEF Estado, Encaminados
<1>. QED
  BY <1>1, <1>4 DEF Estado


LEMMA LasDosNoSonDatos ==
    /\ "permission_to_block_manager" \in Mutexes \ DeDatos
    /\ "pause_manager" \in Mutexes \ DeDatos /\ "dispatcher_manager" \in Mutexes \ DeDatos
    /\ \A m \in Mutexes : m \in DeDatos \/ m \in {"permission_to_block_manager", "pause_manager", "dispatcher_manager"}
BY DEF Mutexes, DeDatos

LEMMA PasaAvanza ==
    ASSUME Tipos, NEW F, Estado(F), NEW t \in Hilos, PasaStep(t), UNCHANGED <<algorithm, cuenta>>
    PROVE  \E G : Estado(G)'
<1>1. PICK f, i, q : f = F[t] /\ i = Head(programa[t]) /\ q = Tail(programa[t])
  OBVIOUS
<1>2. Encaminado(t, f) /\ programa[t] # << >> /\ i.ins = "pasa"
  BY <1>1 DEF Estado, Encaminados, PasaStep, Corre
<1>3. programa'[t] = q /\ \A h \in Hilos \ {t} : programa'[h] = programa[h]
  BY <1>1, <1>2, EncaminadoEsPrograma, SigueIgual, SigueTras DEF PasaStep
<1>4. \A h : Tiene(h)' = Tiene(h)
  BY TieneIgual DEF PasaStep
<1>5. Sucesor(i, q, Tiene(t), f, <<programa'[t], Tiene(t)', f>>)
  BY <1>2, <1>3, <1>4 DEF Sucesor, FaseTras
<1>6. Encaminado(t, f)'
  BY <1>1, <1>2, <1>5, PasoEncaminado DEF Encaminado
<1>7. Acuerdos(F["consola"], F["despachador"])'
  BY AcuerdosIgual DEF Estado, PasaStep
<1>. QED
  BY <1>1, <1>3, <1>4, <1>6, <1>7, MismaFase DEF PasaStep

LEMMA SiAvanza ==
    ASSUME Tipos, NEW F, Estado(F), NEW t \in Hilos, SiStep(t), UNCHANGED <<algorithm, cuenta>>
    PROVE  \E G : Estado(G)'
<1>1. PICK f, i, q : f = F[t] /\ i = Head(programa[t]) /\ q = Tail(programa[t])
  OBVIOUS
<1>2. Encaminado(t, f) /\ programa[t] # << >> /\ i.ins = "si"
  BY <1>1 DEF Estado, Encaminados, SiStep, Corre
<1>3. Sigue(t, i.p) \/ Sigue(t, << >>)
  BY <1>1 DEF SiStep
<1>4. /\ programa'[t] = i.p \o q \/ programa'[t] = q
      /\ \A h \in Hilos \ {t} : programa'[h] = programa[h]
  <2>1. CASE Sigue(t, i.p)
    BY <1>1, <2>1, SigueTras
  <2>2. CASE Sigue(t, << >>)
    BY <1>1, <1>2, <2>2, EncaminadoEsPrograma, SigueIgual, SigueTras
  <2>. QED
    BY <1>3, <2>1, <2>2
<1>5. \A h : Tiene(h)' = Tiene(h)
  BY TieneIgual DEF SiStep
<1>6. Sucesor(i, q, Tiene(t), f, <<programa'[t], Tiene(t)', f>>)
  BY <1>2, <1>4, <1>5 DEF Sucesor
<1>7. Encaminado(t, f)'
  BY <1>1, <1>2, <1>6, PasoEncaminado DEF Encaminado
<1>8. Acuerdos(F["consola"], F["despachador"])'
  BY AcuerdosIgual DEF Estado, SiStep
<1>. QED
  BY <1>1, <1>4, <1>5, <1>7, <1>8, MismaFase DEF SiStep

LEMMA EligeAvanza ==
    ASSUME Tipos, NEW F, Estado(F), NEW t \in Hilos, EligeStep(t), UNCHANGED <<algorithm, cuenta>>
    PROVE  \E G : Estado(G)'
<1>1. PICK f, i, q : f = F[t] /\ i = Head(programa[t]) /\ q = Tail(programa[t])
  OBVIOUS
<1>2. Encaminado(t, f) /\ programa[t] # << >> /\ i.ins = "elige"
  BY <1>1 DEF Estado, Encaminados, EligeStep, Corre
<1>3. PICK p \in i.programas : Sigue(t, p)
  BY <1>1 DEF EligeStep
<1>4. /\ programa'[t] = p \o q
      /\ \A h \in Hilos \ {t} : programa'[h] = programa[h]
  BY <1>1, <1>3, SigueTras
<1>5. \A h : Tiene(h)' = Tiene(h)
  BY TieneIgual DEF EligeStep
<1>6. Sucesor(i, q, Tiene(t), f, <<programa'[t], Tiene(t)', f>>)
  BY <1>2, <1>3, <1>4, <1>5 DEF Sucesor
<1>7. Encaminado(t, f)'
  BY <1>1, <1>2, <1>6, PasoEncaminado DEF Encaminado
<1>8. Acuerdos(F["consola"], F["despachador"])'
  BY AcuerdosIgual DEF Estado, EligeStep
<1>. QED
  BY <1>1, <1>4, <1>5, <1>7, <1>8, MismaFase DEF EligeStep

\* The phases that no instruction but these touch.
LEMMA FaseDeMensajes ==
    ASSUME NEW a, NEW i, NEW H, NEW f, Permite(a, i, H, f), i.ins \notin {"manda", "recibe"}
    PROVE  /\ FaseTras(i, f) = "espera" <=> f = "espera"
           /\ FaseTras(i, f) = "atiende" <=> f = "atiende"
BY DEF Permite, FaseTras

\* With the messages alone, the balance is kept.
LEMMA CuentasTras ==
    ASSUME NEW F, Estado(F), NEW t \in Hilos, NEW g, UNCHANGED <<mensajes, cuenta>>,
           g = "espera" <=> F[t] = "espera", g = "atiende" <=> F[t] = "atiende"
    PROVE  Cuentas(IF t = "coordinador" THEN g ELSE F["coordinador"],
                   IF t = "despachador" THEN g ELSE F["despachador"])'
<1>1. PICK k, d : /\ k = IF t = "coordinador" THEN g ELSE F["coordinador"]
                  /\ d = IF t = "despachador" THEN g ELSE F["despachador"]
  OBVIOUS
<1>2. (k = "atiende" <=> F["coordinador"] = "atiende") /\ (d = "espera" <=> F["despachador"] = "espera")
  BY <1>1
<1>3. Cuentas(F["coordinador"], F["despachador"])
  BY DEF Estado
<1>4. Uno(k = "atiende") = Uno(F["coordinador"] = "atiende") /\ Uno(d = "espera") = Uno(F["despachador"] = "espera")
  BY <1>2 DEF Uno
<1>5. Cuentas(k, d)
  BY <1>3, <1>4 DEF Cuentas
<1>6. Cuentas(k, d)'
  BY <1>5, CuentasIgual
<1>. QED
  BY <1>1, <1>6

LEMMA LockAvanza ==
    ASSUME Tipos, NEW F, Estado(F), NEW t \in Hilos, LockStep(t), UNCHANGED <<algorithm, cuenta>>
    PROVE  \E G : Estado(G)'
<1>1. PICK f, i, q, m, H : /\ f = F[t] /\ i = Head(programa[t]) /\ q = Tail(programa[t]) /\ m = i.m
                           /\ H = Tiene(t)
  OBVIOUS
<1>2. Encaminado(t, f) /\ programa[t] # << >> /\ i.ins = "lock" /\ f \in FasesDe(t)
  BY <1>1 DEF Estado, Encaminados, LockStep, Corre, Encaminado
<1>3. programa'[t] = q /\ \A h \in Hilos \ {t} : programa'[h] = programa[h]
  BY <1>1, <1>2, EncaminadoEsPrograma, SigueIgual, SigueTras DEF LockStep
<1>4. Permite(algorithm, i, H, f)
  BY <1>1, <1>2, Permitido
<1>5. /\ m \in Mutexes
      /\ m = "permission_to_block_manager" => f \in {"pide", "vuelve"}
      /\ m = "pause_manager" => f \in {"pausa", "pausa_vuelve"}
  BY <1>1, <1>2, <1>4 DEF Permite
<1>6. dueno[m] = "nadie" /\ dueno' = [dueno EXCEPT ![m] = t] /\ bandera' = bandera /\ mensajes' = mensajes
  BY <1>1 DEF LockStep
<1>7. /\ Tiene(t)' = IF m \in DeDatos THEN H \cup {m} ELSE H
      /\ \A h \in Hilos \ {t} : Tiene(h)' = Tiene(h)
  BY <1>1, <1>5, <1>6, TieneTrasLock
<1>8. PICK g : g = FaseTras(i, f)
  OBVIOUS
<1>9. Sucesor(i, q, H, f, <<programa'[t], Tiene(t)', g>>)
  BY <1>1, <1>2, <1>3, <1>7, <1>8 DEF Sucesor
<1>10. \A n \in Mutexes : dueno'[n] = IF n = m THEN t ELSE dueno[n]
  BY <1>6 DEF Tipos
<1>11. Acuerdos(F["consola"], F["despachador"])
  BY DEF Estado
<1>12. /\ g \in FasesDe(t)
       /\ Acuerdos(IF t = "consola" THEN g ELSE F["consola"],
                   IF t = "despachador" THEN g ELSE F["despachador"])'
  <2>1. CASE m \notin {"permission_to_block_manager", "pause_manager"}
    <3>1. g = f
      BY <1>1, <1>2, <1>8, <2>1 DEF FaseTras
    <3>2. Acuerdos(F["consola"], F["despachador"])'
      BY <1>6, <1>10, <1>11, <2>1, AcuerdosIgual, LasDosNoSonDatos
    <3>3. /\ F["consola"] = IF t = "consola" THEN g ELSE F["consola"]
          /\ F["despachador"] = IF t = "despachador" THEN g ELSE F["despachador"]
      BY <1>1, <3>1
    <3>. QED
      BY <1>2, <3>1, <3>2, <3>3
  <2>2. CASE m = "permission_to_block_manager"
    <3>1. t = "consola" /\ F["consola"] = f
      BY <1>1, <1>2, <1>5, <2>2, DeQuienEs
    <3>2. (f = "pide" /\ g = "tiene") \/ (f = "vuelve" /\ g = "bloquea")
      BY <1>1, <1>2, <1>5, <1>8, <2>2 DEF FaseTras
    <3>3. g \in FasesDe(t)
      BY <3>1, <3>2 DEF FasesDe
    <3>4. dueno'["pause_manager"] = dueno["pause_manager"]
      BY <1>10, <2>2, LasDosNoSonDatos
    <3>5. Acuerdos(g, F["despachador"])'
      BY <1>6, <1>11, <3>1, <3>2, <3>4 DEF Acuerdos
    <3>. QED
      BY <3>1, <3>3, <3>5
  <2>3. CASE m = "pause_manager"
    <3>1. t = "consola" /\ F["consola"] = f
      BY <1>1, <1>2, <1>5, <2>3, DeQuienEs
    <3>2. (f = "pausa" /\ g = "pausa_tiene") \/ (f = "pausa_vuelve" /\ g = "teclado")
      BY <1>1, <1>2, <1>5, <1>8, <2>3 DEF FaseTras
    <3>3. g \in FasesDe(t)
      BY <3>1, <3>2 DEF FasesDe
    <3>4. dueno'["permission_to_block_manager"] = dueno["permission_to_block_manager"]
      BY <1>10, <2>3, LasDosNoSonDatos
    <3>5. Acuerdos(g, F["despachador"])'
      BY <1>6, <1>11, <3>1, <3>2, <3>4 DEF Acuerdos
    <3>. QED
      BY <3>1, <3>3, <3>5
  <2>. QED
    BY <2>1, <2>2, <2>3
<1>13. Encaminado(t, g)'
  BY <1>1, <1>2, <1>9, <1>12, PasoEncaminado
<1>14. (g = "espera" <=> F[t] = "espera") /\ (g = "atiende" <=> F[t] = "atiende")
  BY <1>1, <1>2, <1>4, <1>8, FaseDeMensajes
<1>15. Cuentas(IF t = "coordinador" THEN g ELSE F["coordinador"],
               IF t = "despachador" THEN g ELSE F["despachador"])'
  BY <1>6, <1>14, CuentasTras
<1>. QED
  BY <1>3, <1>7, <1>12, <1>13, <1>15, MueveUno

LEMMA UnlockAvanza ==
    ASSUME Tipos, NEW F, Estado(F), NEW t \in Hilos, UnlockStep(t), UNCHANGED <<algorithm, cuenta>>
    PROVE  \E G : Estado(G)'
<1>1. PICK f, i, q, m, H : /\ f = F[t] /\ i = Head(programa[t]) /\ q = Tail(programa[t]) /\ m = i.m
                           /\ H = Tiene(t)
  OBVIOUS
<1>2. Encaminado(t, f) /\ programa[t] # << >> /\ i.ins = "unlock" /\ f \in FasesDe(t)
  BY <1>1 DEF Estado, Encaminados, UnlockStep, Corre, Encaminado
<1>3. programa'[t] = q /\ \A h \in Hilos \ {t} : programa'[h] = programa[h]
  BY <1>1, <1>2, EncaminadoEsPrograma, SigueIgual, SigueTras DEF UnlockStep
<1>4. Permite(algorithm, i, H, f)
  BY <1>1, <1>2, Permitido
<1>5. /\ m \in Mutexes /\ (m \in DeDatos => m \in H)
      /\ m = "permission_to_block_manager" => f = "suelta"
      /\ m = "pause_manager" => f = "reanuda"
  BY <1>1, <1>2, <1>4 DEF Permite
<1>6. dueno' = [dueno EXCEPT ![m] = "nadie"] /\ bandera' = bandera /\ mensajes' = mensajes
  BY <1>1 DEF UnlockStep
<1>7. /\ Tiene(t)' = H \ {m}
      /\ \A h \in Hilos \ {t} : Tiene(h)' = Tiene(h)
  BY <1>1, <1>5, <1>6, TieneTrasUnlock
<1>8. PICK g : g = FaseTras(i, f)
  OBVIOUS
<1>9. Sucesor(i, q, H, f, <<programa'[t], Tiene(t)', g>>)
  BY <1>1, <1>2, <1>3, <1>7, <1>8 DEF Sucesor
<1>10. \A n \in Mutexes : dueno'[n] = IF n = m THEN "nadie" ELSE dueno[n]
  BY <1>6 DEF Tipos
<1>11. Acuerdos(F["consola"], F["despachador"])
  BY DEF Estado
<1>12. /\ g \in FasesDe(t)
       /\ Acuerdos(IF t = "consola" THEN g ELSE F["consola"],
                   IF t = "despachador" THEN g ELSE F["despachador"])'
  <2>1. CASE m \notin {"permission_to_block_manager", "pause_manager"}
    <3>1. g = f
      BY <1>1, <1>2, <1>8, <2>1 DEF FaseTras
    <3>2. Acuerdos(F["consola"], F["despachador"])'
      BY <1>6, <1>10, <1>11, <2>1, AcuerdosIgual, LasDosNoSonDatos
    <3>3. /\ F["consola"] = IF t = "consola" THEN g ELSE F["consola"]
          /\ F["despachador"] = IF t = "despachador" THEN g ELSE F["despachador"]
      BY <1>1, <3>1
    <3>. QED
      BY <1>2, <3>1, <3>2, <3>3
  <2>2. CASE m = "permission_to_block_manager"
    <3>1. t = "consola" /\ F["consola"] = f
      BY <1>1, <1>2, <1>5, <2>2, DeQuienEs
    <3>2. f = "suelta" /\ g = "teclado"
      BY <1>1, <1>2, <1>5, <1>8, <2>2 DEF FaseTras
    <3>3. g \in FasesDe(t)
      BY <3>1, <3>2 DEF FasesDe
    <3>4. /\ dueno'["pause_manager"] = dueno["pause_manager"]
          /\ dueno'["permission_to_block_manager"] = "nadie"
      BY <1>10, <2>2, LasDosNoSonDatos
    <3>5. Acuerdos(g, F["despachador"])'
      BY <1>6, <1>11, <3>1, <3>2, <3>4 DEF Acuerdos
    <3>. QED
      BY <3>1, <3>3, <3>5
  <2>3. CASE m = "pause_manager"
    <3>1. t = "consola" /\ F["consola"] = f
      BY <1>1, <1>2, <1>5, <2>3, DeQuienEs
    <3>2. f = "reanuda" /\ g = "teclado"
      BY <1>1, <1>2, <1>5, <1>8, <2>3 DEF FaseTras
    <3>3. g \in FasesDe(t)
      BY <3>1, <3>2 DEF FasesDe
    <3>4. /\ dueno'["permission_to_block_manager"] = dueno["permission_to_block_manager"]
          /\ dueno'["pause_manager"] = "nadie"
      BY <1>10, <2>3, LasDosNoSonDatos
    <3>5. Acuerdos(g, F["despachador"])'
      BY <1>6, <1>11, <3>1, <3>2, <3>4 DEF Acuerdos
    <3>. QED
      BY <3>1, <3>3, <3>5
  <2>. QED
    BY <2>1, <2>2, <2>3
<1>13. Encaminado(t, g)'
  BY <1>1, <1>2, <1>9, <1>12, PasoEncaminado
<1>14. (g = "espera" <=> F[t] = "espera") /\ (g = "atiende" <=> F[t] = "atiende")
  BY <1>1, <1>2, <1>4, <1>8, FaseDeMensajes
<1>15. Cuentas(IF t = "coordinador" THEN g ELSE F["coordinador"],
               IF t = "despachador" THEN g ELSE F["despachador"])'
  BY <1>6, <1>14, CuentasTras
<1>. QED
  BY <1>3, <1>7, <1>12, <1>13, <1>15, MueveUno

LEMMA TryLockAvanza ==
    ASSUME Tipos, NEW F, Estado(F), NEW t \in Hilos, TryLockStep(t), UNCHANGED <<algorithm, cuenta>>
    PROVE  \E G : Estado(G)'
<1>1. PICK f, i, q, H : f = F[t] /\ i = Head(programa[t]) /\ q = Tail(programa[t]) /\ H = Tiene(t)
  OBVIOUS
<1>2. Encaminado(t, f) /\ programa[t] # << >> /\ i.ins = "trylock" /\ f \in FasesDe(t)
  BY <1>1 DEF Estado, Encaminados, TryLockStep, Corre, Encaminado
<1>3. Permite(algorithm, i, H, f)
  BY <1>1, <1>2, Permitido
<1>4. i.m = "dispatcher_manager" /\ f = "pausa" /\ t = "consola" /\ F["consola"] = "pausa"
  <2>1. i.m = "dispatcher_manager" /\ f = "pausa"
    BY <1>2, <1>3 DEF Permite
  <2>. QED
    BY <1>1, <1>2, <2>1, DeQuienEs
<1>5. \A h \in Hilos : Tiene(h)' = Tiene(h)
  <2>1. CASE dueno["dispatcher_manager"] = "nadie"
    <3>1. dueno' = [dueno EXCEPT !["dispatcher_manager"] = t]
      BY <1>1, <1>4, <2>1 DEF TryLockStep
    <3>2. "dispatcher_manager" \in Mutexes /\ "dispatcher_manager" \notin DeDatos
      BY LasDosNoSonDatos
    <3>. QED
      BY <2>1, <3>1, <3>2, TieneTrasLock
  <2>2. CASE dueno["dispatcher_manager"] # "nadie"
    BY <1>1, <1>4, <2>2, TieneIgual DEF TryLockStep
  <2>. QED
    BY <2>1, <2>2
<1>6. /\ bandera' = bandera /\ mensajes' = mensajes
      /\ dueno'["permission_to_block_manager"] = dueno["permission_to_block_manager"]
      /\ dueno'["pause_manager"] = dueno["pause_manager"]
  <2>1. dueno' = dueno \/ dueno' = [dueno EXCEPT !["dispatcher_manager"] = t]
    BY <1>1, <1>4 DEF TryLockStep
  <2>. QED
    BY <2>1, LasDosNoSonDatos DEF TryLockStep, Tipos
<1>7. Acuerdos(F["consola"], F["despachador"])
  BY DEF Estado
<1>8. PICK g : g = IF dueno["dispatcher_manager"] = "nadie" THEN "pausa" ELSE "teclado"
  OBVIOUS
<1>9. Acuerdos(g, F["despachador"])'
  BY <1>4, <1>6, <1>7, <1>8 DEF Acuerdos
<1>10. \/ programa'[t] = i.si \o q /\ g = "pausa"
       \/ programa'[t] = q /\ g = "teclado"
  <2>1. CASE dueno["dispatcher_manager"] = "nadie"
    <3>1. Sigue(t, i.si)
      BY <1>1, <1>4, <2>1 DEF TryLockStep
    <3>. QED
      BY <1>1, <1>8, <2>1, <3>1, SigueTras
  <2>2. CASE dueno["dispatcher_manager"] # "nadie"
    <3>1. Sigue(t, << >>)
      BY <1>1, <1>4, <2>2 DEF TryLockStep
    <3>. QED
      BY <1>1, <1>2, <1>8, <2>2, <3>1, EncaminadoEsPrograma, SigueIgual
  <2>. QED
    BY <2>1, <2>2
<1>11. \A h \in Hilos \ {t} : programa'[h] = programa[h]
  <2>1. \E p : Sigue(t, p)
    BY DEF TryLockStep
  <2>. QED
    BY <2>1, SigueTras
<1>12. Sucesor(i, q, H, f, <<programa'[t], Tiene(t)', g>>)
  <2>1. Tiene(t)' = H
    BY <1>1, <1>5
  <2>. QED
    BY <1>2, <1>4, <1>10, <2>1 DEF Sucesor
<1>13. g \in FasesDe(t) /\ g # "espera" /\ g # "atiende"
  BY <1>4, <1>8 DEF FasesDe
<1>14. Encaminado(t, g)'
  BY <1>1, <1>2, <1>12, <1>13, PasoEncaminado
<1>15. Cuentas(IF t = "coordinador" THEN g ELSE F["coordinador"],
               IF t = "despachador" THEN g ELSE F["despachador"])'
  BY <1>4, <1>6, <1>13, CuentasTras
<1>16. Acuerdos(IF t = "consola" THEN g ELSE F["consola"],
                IF t = "despachador" THEN g ELSE F["despachador"])'
  BY <1>4, <1>9
<1>. QED
  BY <1>5, <1>11, <1>14, <1>15, <1>16, MueveUno

LEMMA WaitAvanza ==
    ASSUME Tipos, NEW F, Estado(F), NEW t \in Hilos, WaitStep(t), UNCHANGED <<algorithm, cuenta>>
    PROVE  \E G : Estado(G)'
<1>1. PICK f, i, q, m, H : /\ f = F[t] /\ i = Head(programa[t]) /\ q = Tail(programa[t]) /\ m = i.m
                           /\ H = Tiene(t)
  OBVIOUS
<1>2. Encaminado(t, f) /\ programa[t] # << >> /\ i.ins = "wait" /\ f \in FasesDe(t)
  BY <1>1 DEF Estado, Encaminados, WaitStep, Corre, Encaminado
<1>3. Permite(algorithm, i, H, f)
  BY <1>1, <1>2, Permitido
<1>4. PICK g : g = FaseTras(i, f)
  OBVIOUS
<1>5. \/ m = "permission_to_block_manager" /\ f = "tiene" /\ g = "dormida"
      \/ m = "pause_manager" /\ f = "pausa_tiene" /\ g = "pausa_dormida"
      \/ m = "dispatcher_manager" /\ f \in {"avisado", "pausado"} /\ g = f
  <2>1. <<i.c, m, f>> \in {<<"permission_to_block", "permission_to_block_manager", "tiene">>,
                           <<"permission_to_block_released", "dispatcher_manager", "avisado">>,
                           <<"resume_planification", "dispatcher_manager", "pausado">>,
                           <<"paused_planification", "pause_manager", "pausa_tiene">>}
    BY <1>1, <1>2, <1>3 DEF Permite
  <2>2. \/ m = "permission_to_block_manager" /\ f = "tiene"
        \/ m = "pause_manager" /\ f = "pausa_tiene"
        \/ m = "dispatcher_manager" /\ f \in {"avisado", "pausado"}
    BY <2>1
  <2>. QED
    BY <1>2, <1>4, <2>2 DEF FaseTras
<1>6. dueno' = [dueno EXCEPT ![m] = "nadie"] /\ bandera' = bandera /\ mensajes' = mensajes
  BY <1>1 DEF WaitStep
<1>7. m \in Mutexes /\ m \notin DeDatos
  BY <1>5, LasDosNoSonDatos
<1>8. \A h \in Hilos : Tiene(h)' = Tiene(h)
  <2>1. Tiene(t)' = Tiene(t) \ {m} /\ \A h \in Hilos \ {t} : Tiene(h)' = Tiene(h)
    BY <1>6, <1>7, TieneTrasUnlock
  <2>2. m \notin Tiene(t)
    BY <1>7 DEF Tiene
  <2>. QED
    BY <2>1, <2>2
<1>9. Sigue(t, <<Duerme(i.c, m)>>)
  BY <1>1 DEF WaitStep
<1>10. programa'[t] = <<Duerme(i.c, m)>> \o q /\ \A h \in Hilos \ {t} : programa'[h] = programa[h]
  BY <1>1, <1>9, SigueTras
<1>11. Sucesor(i, q, H, f, <<programa'[t], Tiene(t)', g>>)
  BY <1>1, <1>2, <1>4, <1>8, <1>10 DEF Sucesor
<1>12. \A n \in Mutexes : dueno'[n] = IF n = m THEN "nadie" ELSE dueno[n]
  BY <1>6 DEF Tipos
<1>13. /\ "permission_to_block_manager" \in Mutexes /\ "pause_manager" \in Mutexes
  BY LasDosNoSonDatos
<1>14. Acuerdos(F["consola"], F["despachador"])
  BY DEF Estado
<1>15. /\ g \in FasesDe(t)
       /\ Acuerdos(IF t = "consola" THEN g ELSE F["consola"],
                   IF t = "despachador" THEN g ELSE F["despachador"])'
  <2>1. CASE m = "permission_to_block_manager"
    <3>1. t = "consola" /\ F["consola"] = "tiene" /\ g = "dormida"
      BY <1>1, <1>2, <1>5, <2>1, DeQuienEs
    <3>2. /\ dueno'["permission_to_block_manager"] = "nadie"
          /\ dueno'["pause_manager"] = dueno["pause_manager"]
      BY <1>12, <1>13, <2>1
    <3>3. Acuerdos("dormida", F["despachador"])'
      BY <1>6, <1>14, <3>1, <3>2 DEF Acuerdos
    <3>. QED
      BY <3>1, <3>3 DEF FasesDe
  <2>2. CASE m = "pause_manager"
    <3>1. t = "consola" /\ F["consola"] = "pausa_tiene" /\ g = "pausa_dormida"
      BY <1>1, <1>2, <1>5, <2>2, DeQuienEs
    <3>2. /\ dueno'["permission_to_block_manager"] = dueno["permission_to_block_manager"]
          /\ dueno'["pause_manager"] = "nadie"
      BY <1>12, <1>13, <2>2
    <3>3. Acuerdos("pausa_dormida", F["despachador"])'
      BY <1>6, <1>14, <3>1, <3>2 DEF Acuerdos
    <3>. QED
      BY <3>1, <3>3 DEF FasesDe
  <2>3. CASE m = "dispatcher_manager"
    <3>1. t = "despachador" /\ g = f /\ F["despachador"] = f
      BY <1>1, <1>2, <1>5, <2>3, DeQuienEs
    <3>2. Acuerdos(F["consola"], f)'
      BY <1>6, <1>12, <1>13, <1>14, <2>3, <3>1, AcuerdosIgual
    <3>. QED
      BY <1>2, <3>1, <3>2
  <2>. QED
    BY <1>5, <2>1, <2>2, <2>3
<1>16. Encaminado(t, g)'
  BY <1>1, <1>2, <1>11, <1>15, PasoEncaminado
<1>17. (g = "espera" <=> F[t] = "espera") /\ (g = "atiende" <=> F[t] = "atiende")
  BY <1>1, <1>2, <1>3, <1>4, FaseDeMensajes
<1>18. Cuentas(IF t = "coordinador" THEN g ELSE F["coordinador"],
               IF t = "despachador" THEN g ELSE F["despachador"])'
  BY <1>6, <1>17, CuentasTras
<1>. QED
  BY <1>8, <1>10, <1>15, <1>16, <1>18, MueveUno

LEMMA PonAvanza ==
    ASSUME Tipos, NEW F, Estado(F), NEW t \in Hilos, PonStep(t), UNCHANGED <<algorithm, cuenta>>
    PROVE  \E G : Estado(G)'
<1>1. PICK f, i, q, H : f = F[t] /\ i = Head(programa[t]) /\ q = Tail(programa[t]) /\ H = Tiene(t)
  OBVIOUS
<1>2. Encaminado(t, f) /\ programa[t] # << >> /\ i.ins = "pon" /\ f \in FasesDe(t)
  BY <1>1 DEF Estado, Encaminados, PonStep, Corre, Encaminado
<1>3. programa'[t] = q /\ \A h \in Hilos \ {t} : programa'[h] = programa[h]
  BY <1>1, <1>2, EncaminadoEsPrograma, SigueIgual, SigueTras DEF PonStep
<1>4. Permite(algorithm, i, H, f)
  BY <1>1, <1>2, Permitido
<1>5. \A h : Tiene(h)' = Tiene(h)
  BY TieneIgual DEF PonStep
<1>6. PICK g : g = FaseTras(i, f)
  OBVIOUS
<1>7. Sucesor(i, q, H, f, <<programa'[t], Tiene(t)', g>>)
  BY <1>1, <1>2, <1>3, <1>5, <1>6 DEF Sucesor
<1>8. bandera' = [bandera EXCEPT ![i.b] = i.valor] /\ dueno' = dueno /\ mensajes' = mensajes
  BY <1>1 DEF PonStep
<1>9. Acuerdos(F["consola"], F["despachador"])
  BY DEF Estado
<1>10. /\ g \in FasesDe(t)
       /\ Acuerdos(IF t = "consola" THEN g ELSE F["consola"],
                   IF t = "despachador" THEN g ELSE F["despachador"])'
  <2>1. CASE i.b \notin {"paused", "permission_to_block_acquired"}
    <3>1. g = f
      BY <1>2, <1>6, <2>1 DEF FaseTras
    <3>2. bandera'["permission_to_block_acquired"] = bandera["permission_to_block_acquired"]
      BY <1>8, <2>1 DEF Tipos
    <3>3. Acuerdos(F["consola"], F["despachador"])'
      BY <1>8, <1>9, <3>2, AcuerdosIgual
    <3>4. /\ F["consola"] = IF t = "consola" THEN g ELSE F["consola"]
          /\ F["despachador"] = IF t = "despachador" THEN g ELSE F["despachador"]
      BY <1>1, <3>1
    <3>. QED
      BY <1>2, <3>1, <3>3, <3>4
  <2>2. CASE i.b = "paused"
    <3>1. f = "teclado"
      BY <1>2, <1>4, <2>2 DEF Permite
    <3>2. t = "consola" /\ F["consola"] = "teclado"
      BY <1>1, <1>2, <3>1, DeQuienEs
    <3>3. g \in {"pausa", "reanuda"}
      BY <1>2, <1>6, <2>2, <3>1 DEF FaseTras
    <3>4. bandera'["permission_to_block_acquired"] = bandera["permission_to_block_acquired"]
      BY <1>8, <2>2 DEF Tipos
    <3>5. Acuerdos(g, F["despachador"])
      BY <1>9, <3>2, <3>3 DEF Acuerdos
    <3>6. Acuerdos(g, F["despachador"])'
      BY <1>8, <3>4, <3>5, AcuerdosIgual
    <3>. QED
      BY <3>2, <3>3, <3>6 DEF FasesDe
  <2>3. CASE i.b = "permission_to_block_acquired"
    <3>1. (i.valor = TRUE /\ f = "teclado") \/ (i.valor = FALSE /\ f = "bloquea")
      BY <1>2, <1>4, <2>3 DEF Permite
    <3>2. t = "consola" /\ F["consola"] = f
      BY <1>1, <1>2, <3>1, DeQuienEs
    <3>3. CASE i.valor = TRUE /\ f = "teclado"
      <4>1. g = "pide"
        BY <1>2, <1>6, <2>3, <3>3 DEF FaseTras
      <4>2. Acuerdos(g, F["despachador"])'
        BY <1>8, <1>9, <3>2, <3>3, <4>1 DEF Acuerdos
      <4>. QED
        BY <3>2, <4>1, <4>2 DEF FasesDe
    <3>4. CASE i.valor = FALSE /\ f = "bloquea"
      <4>1. g = "suelta"
        BY <1>2, <1>6, <2>3, <3>4 DEF FaseTras
      <4>2. ~bandera'["permission_to_block_acquired"]
        BY <1>8, <2>3, <3>4 DEF Tipos
      <4>3. Acuerdos(g, F["despachador"])'
        BY <1>8, <1>9, <3>2, <3>4, <4>1, <4>2 DEF Acuerdos
      <4>. QED
        BY <3>2, <4>1, <4>3 DEF FasesDe
    <3>. QED
      BY <3>1, <3>3, <3>4
  <2>. QED
    BY <2>1, <2>2, <2>3
<1>11. Encaminado(t, g)'
  BY <1>1, <1>2, <1>7, <1>10, PasoEncaminado DEF PonStep
<1>12. (g = "espera" <=> F[t] = "espera") /\ (g = "atiende" <=> F[t] = "atiende")
  BY <1>1, <1>2, <1>4, <1>6, FaseDeMensajes
<1>13. Cuentas(IF t = "coordinador" THEN g ELSE F["coordinador"],
               IF t = "despachador" THEN g ELSE F["despachador"])'
  BY <1>8, <1>12, CuentasTras
<1>. QED
  BY <1>3, <1>5, <1>10, <1>11, <1>13, MueveUno

\* The dispatcher sends a sentence and reads its result, the other way round
\* the coordinator's thread.
LEMMA MandaAvanza ==
    ASSUME Tipos, NEW F, Estado(F), NEW t \in Hilos, MandaStep(t), UNCHANGED <<algorithm, cuenta>>
    PROVE  \E G : Estado(G)'
<1>1. PICK f, i, q, H : f = F[t] /\ i = Head(programa[t]) /\ q = Tail(programa[t]) /\ H = Tiene(t)
  OBVIOUS
<1>2. Encaminado(t, f) /\ programa[t] # << >> /\ i.ins = "manda" /\ f \in FasesDe(t)
  BY <1>1 DEF Estado, Encaminados, MandaStep, Corre, Encaminado
<1>3. programa'[t] = q /\ \A h \in Hilos \ {t} : programa'[h] = programa[h]
  BY <1>1, <1>2, EncaminadoEsPrograma, SigueIgual, SigueTras DEF MandaStep
<1>4. Permite(algorithm, i, H, f)
  BY <1>1, <1>2, Permitido
<1>5. \A h : Tiene(h)' = Tiene(h)
  BY TieneIgual DEF MandaStep
<1>6. PICK g : g = FaseTras(i, f)
  OBVIOUS
<1>7. Sucesor(i, q, H, f, <<programa'[t], Tiene(t)', g>>)
  BY <1>1, <1>2, <1>3, <1>5, <1>6 DEF Sucesor
<1>8. \/ i.msj = "sentencia" /\ f = "turno" /\ t = "despachador" /\ g = "espera"
      \/ i.msj = "resultado" /\ f = "atiende" /\ t = "coordinador" /\ g = "oye"
  <2>1. (i.msj = "sentencia" /\ f = "turno") \/ (i.msj = "resultado" /\ f = "atiende")
    BY <1>2, <1>4 DEF Permite
  <2>2. (f = "turno" => t = "despachador") /\ (f = "atiende" => t = "coordinador")
    BY <1>2, DeQuienEs
  <2>3. (f = "turno" => g = "espera") /\ (f = "atiende" => g = "oye")
    BY <1>2, <1>6 DEF FaseTras
  <2>. QED
    BY <2>1, <2>2, <2>3
<1>9. dueno' = dueno /\ bandera' = bandera /\ cuenta' = cuenta
  BY DEF MandaStep
<1>10. Acuerdos(F["consola"], F["despachador"]) /\ Cuentas(F["coordinador"], F["despachador"])
  BY DEF Estado
<1>11. mensajes["sentencia"] \in Nat /\ mensajes["resultado"] \in Nat /\ mensajes["perdido"] \in Nat
  BY DEF Tipos
<1>12. CASE i.msj = "sentencia" /\ f = "turno" /\ t = "despachador" /\ g = "espera"
  <2>1. F["despachador"] = "turno"
    BY <1>1, <1>12
  <2>2. /\ mensajes'["sentencia"] = mensajes["sentencia"] + 1
        /\ mensajes'["resultado"] = mensajes["resultado"] /\ mensajes'["perdido"] = mensajes["perdido"]
    BY <1>1, <1>12 DEF MandaStep, Tipos
  <2>3. Acuerdos(F["consola"], "espera")'
    <3>1. Acuerdos(F["consola"], "espera")
      BY <1>10, <2>1 DEF Acuerdos
    <3>. QED
      BY <1>9, <3>1, AcuerdosIgual
  <2>4. Cuentas(F["coordinador"], "espera")'
    <3>1. Uno(F["coordinador"] = "atiende") \in Nat
      BY DEF Uno
    <3>. QED
      BY <1>9, <1>10, <1>11, <2>1, <2>2, <3>1 DEF Cuentas, Uno
  <2>5. Encaminado(t, g)'
    BY <1>1, <1>2, <1>7, <1>12, PasoEncaminado DEF FasesDe
  <2>6. /\ Acuerdos(IF t = "consola" THEN g ELSE F["consola"],
                    IF t = "despachador" THEN g ELSE F["despachador"])'
        /\ Cuentas(IF t = "coordinador" THEN g ELSE F["coordinador"],
                   IF t = "despachador" THEN g ELSE F["despachador"])'
    BY <1>12, <2>3, <2>4
  <2>. QED
    BY <1>3, <1>5, <2>5, <2>6, MueveUno
<1>13. CASE i.msj = "resultado" /\ f = "atiende" /\ t = "coordinador" /\ g = "oye"
  <2>1. F["coordinador"] = "atiende"
    BY <1>1, <1>13
  <2>2. /\ mensajes'["sentencia"] = mensajes["sentencia"]
        /\ \/ /\ mensajes["perdido"] > 0 /\ mensajes'["perdido"] = mensajes["perdido"] - 1
              /\ mensajes'["resultado"] = mensajes["resultado"]
           \/ /\ mensajes'["perdido"] = mensajes["perdido"]
              /\ mensajes'["resultado"] = mensajes["resultado"] + 1
    BY <1>1, <1>13 DEF MandaStep, Tipos
  <2>3. Acuerdos(F["consola"], F["despachador"])'
    BY <1>9, <1>10, AcuerdosIgual
  <2>4. Cuentas("oye", F["despachador"])'
    <3>1. Uno(F["despachador"] = "espera") \in Nat
      BY DEF Uno
    <3>2. Uno(F["coordinador"] = "atiende") = 1 /\ Uno("oye" = "atiende") = 0
      BY <2>1 DEF Uno
    <3>3. cuenta["interrupciones"] \in Nat
      BY DEF Tipos
    <3>. QED
      BY <1>9, <1>10, <1>11, <2>2, <3>1, <3>2, <3>3 DEF Cuentas
  <2>5. Encaminado(t, g)'
    BY <1>1, <1>2, <1>7, <1>13, PasoEncaminado DEF FasesDe
  <2>6. /\ Acuerdos(IF t = "consola" THEN g ELSE F["consola"],
                    IF t = "despachador" THEN g ELSE F["despachador"])'
        /\ Cuentas(IF t = "coordinador" THEN g ELSE F["coordinador"],
                   IF t = "despachador" THEN g ELSE F["despachador"])'
    BY <1>13, <2>3, <2>4
  <2>. QED
    BY <1>3, <1>5, <2>5, <2>6, MueveUno
<1>. QED
  BY <1>8, <1>12, <1>13

LEMMA RecibeAvanza ==
    ASSUME Tipos, NEW F, Estado(F), NEW t \in Hilos, RecibeStep(t), UNCHANGED <<algorithm, cuenta>>
    PROVE  \E G : Estado(G)'
<1>1. PICK f, i, q, H : f = F[t] /\ i = Head(programa[t]) /\ q = Tail(programa[t]) /\ H = Tiene(t)
  OBVIOUS
<1>2. Encaminado(t, f) /\ programa[t] # << >> /\ i.ins = "recibe" /\ f \in FasesDe(t)
  BY <1>1 DEF Estado, Encaminados, RecibeStep, Corre, Encaminado
<1>3. programa'[t] = q /\ \A h \in Hilos \ {t} : programa'[h] = programa[h]
  BY <1>1, <1>2, EncaminadoEsPrograma, SigueIgual, SigueTras DEF RecibeStep
<1>4. Permite(algorithm, i, H, f)
  BY <1>1, <1>2, Permitido
<1>5. \A h : Tiene(h)' = Tiene(h)
  BY TieneIgual DEF RecibeStep
<1>6. PICK g : g = FaseTras(i, f)
  OBVIOUS
<1>7. Sucesor(i, q, H, f, <<programa'[t], Tiene(t)', g>>)
  BY <1>1, <1>2, <1>3, <1>5, <1>6 DEF Sucesor
<1>8. \/ i.msj = "resultado" /\ f = "espera" /\ t = "despachador" /\ g = "turno"
      \/ i.msj = "sentencia" /\ f = "oye" /\ t = "coordinador" /\ g = "atiende"
  <2>1. (i.msj = "resultado" /\ f = "espera") \/ (i.msj = "sentencia" /\ f = "oye")
    BY <1>2, <1>4 DEF Permite
  <2>2. (f = "espera" => t = "despachador") /\ (f = "oye" => t = "coordinador")
    BY <1>2, DeQuienEs
  <2>3. (f = "espera" => g = "turno") /\ (f = "oye" => g = "atiende")
    BY <1>2, <1>6 DEF FaseTras
  <2>. QED
    BY <2>1, <2>2, <2>3
<1>9. dueno' = dueno /\ bandera' = bandera /\ cuenta' = cuenta
  BY DEF RecibeStep
<1>10. Acuerdos(F["consola"], F["despachador"]) /\ Cuentas(F["coordinador"], F["despachador"])
  BY DEF Estado
<1>11. mensajes["sentencia"] \in Nat /\ mensajes["resultado"] \in Nat /\ mensajes["perdido"] \in Nat
  BY DEF Tipos
<1>12. CASE i.msj = "resultado" /\ f = "espera" /\ t = "despachador" /\ g = "turno"
  <2>1. F["despachador"] = "espera"
    BY <1>1, <1>12
  <2>2. /\ mensajes'["resultado"] = mensajes["resultado"] - 1
        /\ mensajes'["sentencia"] = mensajes["sentencia"] /\ mensajes'["perdido"] = mensajes["perdido"]
    BY <1>1, <1>12 DEF RecibeStep, Tipos
  <2>3. Acuerdos(F["consola"], "turno")'
    <3>1. Acuerdos(F["consola"], "turno")
      BY <1>10, <2>1 DEF Acuerdos
    <3>. QED
      BY <1>9, <3>1, AcuerdosIgual
  <2>4. Cuentas(F["coordinador"], "turno")'
    <3>1. Uno(F["coordinador"] = "atiende") \in Nat
      BY DEF Uno
    <3>. QED
      BY <1>9, <1>10, <1>11, <2>1, <2>2, <3>1 DEF Cuentas, Uno
  <2>5. Encaminado(t, g)'
    BY <1>1, <1>2, <1>7, <1>12, PasoEncaminado DEF FasesDe
  <2>6. /\ Acuerdos(IF t = "consola" THEN g ELSE F["consola"],
                    IF t = "despachador" THEN g ELSE F["despachador"])'
        /\ Cuentas(IF t = "coordinador" THEN g ELSE F["coordinador"],
                   IF t = "despachador" THEN g ELSE F["despachador"])'
    BY <1>12, <2>3, <2>4
  <2>. QED
    BY <1>3, <1>5, <2>5, <2>6, MueveUno
<1>13. CASE i.msj = "sentencia" /\ f = "oye" /\ t = "coordinador" /\ g = "atiende"
  <2>1. F["coordinador"] = "oye"
    BY <1>1, <1>13
  <2>2. /\ mensajes'["sentencia"] = mensajes["sentencia"] - 1
        /\ mensajes'["resultado"] = mensajes["resultado"] /\ mensajes'["perdido"] = mensajes["perdido"]
    BY <1>1, <1>13 DEF RecibeStep, Tipos
  <2>3. Acuerdos(F["consola"], F["despachador"])'
    BY <1>9, <1>10, AcuerdosIgual
  <2>4. Cuentas("atiende", F["despachador"])'
    <3>1. Uno(F["despachador"] = "espera") \in Nat
      BY DEF Uno
    <3>2. Uno(F["coordinador"] = "atiende") = 0 /\ Uno("atiende" = "atiende") = 1
      BY <2>1 DEF Uno
    <3>. QED
      BY <1>9, <1>10, <1>11, <2>2, <3>1, <3>2 DEF Cuentas
  <2>5. Encaminado(t, g)'
    BY <1>1, <1>2, <1>7, <1>13, PasoEncaminado DEF FasesDe
  <2>6. /\ Acuerdos(IF t = "consola" THEN g ELSE F["consola"],
                    IF t = "despachador" THEN g ELSE F["despachador"])'
        /\ Cuentas(IF t = "coordinador" THEN g ELSE F["coordinador"],
                   IF t = "despachador" THEN g ELSE F["despachador"])'
    BY <1>13, <2>3, <2>4
  <2>. QED
    BY <1>3, <1>5, <2>5, <2>6, MueveUno
<1>. QED
  BY <1>8, <1>12, <1>13

\* Who sleeps on c is woken, and knows why.
Despierta(h, c) == Corre(h, "duerme") /\ Head(programa[h]).c = c

Vuelta(c, f, g) ==
    <<c, f, g>> \in {<<"permission_to_block", "dormida", "vuelve">>,
                     <<"permission_to_block_released", "avisado", "turno">>,
                     <<"resume_planification", "pausado", "turno">>,
                     <<"paused_planification", "pausa_dormida", "pausa_vuelve">>}

LEMMA DormidoDespierta ==
    ASSUME NEW h \in Hilos, NEW f, Encaminado(h, f), NEW c, Despierta(h, c),
           NEW g, g = FaseTras(Head(programa[h]), f), algorithm' = algorithm, UNCHANGED dueno,
           programa'[h] = <<Lock(Head(programa[h]).m)>> \o Tail(programa[h])
    PROVE  Vuelta(c, f, g) /\ Encaminado(h, g)'
<1>1. PICK i, q, H : i = Head(programa[h]) /\ q = Tail(programa[h]) /\ H = Tiene(h)
  OBVIOUS
<1>2. programa[h] # << >> /\ i.ins = "duerme" /\ i.c = c /\ f \in FasesDe(h)
  BY <1>1 DEF Despierta, Corre, Encaminado
<1>3. Permite(algorithm, i, H, f)
  BY <1>1, <1>2, Permitido
<1>4. <<c, f>> \in {<<"permission_to_block", "dormida">>, <<"permission_to_block_released", "avisado">>,
                    <<"resume_planification", "pausado">>, <<"paused_planification", "pausa_dormida">>}
  BY <1>2, <1>3 DEF Permite
<1>5. /\ f = "dormida" => g = "vuelve"
      /\ f \in {"avisado", "pausado"} => g = "turno"
      /\ f = "pausa_dormida" => g = "pausa_vuelve"
  BY <1>1, <1>2 DEF FaseTras
<1>6. Vuelta(c, f, g)
  BY <1>4, <1>5 DEF Vuelta
<1>7. g \in FasesDe(h)
  <2>1. /\ f \in {"dormida", "pausa_dormida"} => h = "consola"
        /\ f \in {"avisado", "pausado"} => h = "despachador"
    BY <1>2, DeQuienEs
  <2>. QED
    BY <1>4, <1>5, <2>1 DEF FasesDe
<1>8. Tiene(h)' = H
  BY <1>1, TieneIgual
<1>9. Sucesor(i, q, H, f, <<programa'[h], Tiene(h)', g>>)
  BY <1>1, <1>2, <1>8 DEF Sucesor
<1>. QED
  BY <1>1, <1>2, <1>6, <1>7, <1>9, PasoEncaminado

LEMMA SignalAvanza ==
    ASSUME Tipos, NEW F, Estado(F), NEW t \in Hilos, SignalStep(t), UNCHANGED <<algorithm, cuenta>>
    PROVE  \E G : Estado(G)'
<1>1. PICK f, i, q, c, H : /\ f = F[t] /\ i = Head(programa[t]) /\ q = Tail(programa[t]) /\ c = i.c
                           /\ H = Tiene(t)
  OBVIOUS
<1>2. Encaminado(t, f) /\ programa[t] # << >> /\ i.ins = "signal" /\ f \in FasesDe(t)
  BY <1>1 DEF Estado, Encaminados, SignalStep, Corre, Encaminado
<1>3. Permite(algorithm, i, H, f)
  BY <1>1, <1>2, Permitido
<1>4. PICK g : g = FaseTras(i, f)
  OBVIOUS
<1>5. \/ c = "permission_to_block" /\ f = "turno" /\ g = "avisado" /\ t = "despachador"
      \/ c = "paused_planification" /\ f = "turno" /\ g = "pausado" /\ t = "despachador"
      \/ c = "permission_to_block_released" /\ f = "suelta" /\ g = "suelta" /\ t = "consola"
      \/ c = "resume_planification" /\ f = "reanuda" /\ g = "reanuda" /\ t = "consola"
  <2>1. <<c, f>> \in {<<"permission_to_block", "turno">>, <<"paused_planification", "turno">>,
                      <<"permission_to_block_released", "suelta">>, <<"resume_planification", "reanuda">>}
    BY <1>1, <1>2, <1>3 DEF Permite
  <2>2. \/ c = "permission_to_block" /\ f = "turno"
        \/ c = "paused_planification" /\ f = "turno"
        \/ c = "permission_to_block_released" /\ f = "suelta"
        \/ c = "resume_planification" /\ f = "reanuda"
    BY <2>1
  <2>3. (f = "turno" => t = "despachador") /\ (f \in {"suelta", "reanuda"} => t = "consola")
    BY <1>2, DeQuienEs
  <2>4. /\ c = "permission_to_block" => g = "avisado"
        /\ c = "paused_planification" => g = "pausado"
        /\ c \in {"permission_to_block_released", "resume_planification"} => g = f
    BY <1>1, <1>2, <1>4, <2>2 DEF FaseTras
  <2>. QED
    BY <2>2, <2>3, <2>4
<1>6. UNCHANGED <<dueno, bandera, mensajes, cuenta>> /\ algorithm' = algorithm
  BY DEF SignalStep
<1>7. programa' = [h \in Hilos |-> CASE h = t -> q
                                     [] h # t /\ Despierta(h, c) ->
                                          <<Lock(Head(programa[h]).m)>> \o Tail(programa[h])
                                     [] OTHER -> programa[h]]
  BY <1>1 DEF SignalStep, Despierta
<1>8. PICK G : G = [h \in Hilos |-> IF h = t THEN g
                                    ELSE IF Despierta(h, c) THEN FaseTras(Head(programa[h]), F[h])
                                    ELSE F[h]]
  OBVIOUS
<1>9. Encaminado(t, g)'
  <2>1. programa'[t] = q
    BY <1>7
  <2>2. Tiene(t)' = H
    BY <1>1, <1>6, TieneIgual
  <2>3. Sucesor(i, q, H, f, <<programa'[t], Tiene(t)', g>>)
    BY <1>2, <1>4, <2>1, <2>2 DEF Sucesor
  <2>4. g \in FasesDe(t)
    BY <1>5 DEF FasesDe
  <2>. QED
    BY <1>1, <1>2, <1>6, <2>3, <2>4, PasoEncaminado
<1>10. ASSUME NEW h \in Hilos, h # t
       PROVE  Encaminado(h, G[h])' /\ (G[h] = F[h] \/ Vuelta(c, F[h], G[h]))
  <2>1. Encaminado(h, F[h])
    BY DEF Estado, Encaminados
  <2>2. CASE Despierta(h, c)
    <3>1. programa'[h] = <<Lock(Head(programa[h]).m)>> \o Tail(programa[h])
      BY <1>7, <1>10, <2>2
    <3>2. G[h] = FaseTras(Head(programa[h]), F[h])
      BY <1>8, <1>10, <2>2
    <3>. QED
      BY <1>6, <2>1, <2>2, <3>1, <3>2, DormidoDespierta
  <2>3. CASE ~Despierta(h, c)
    <3>1. programa'[h] = programa[h]
      BY <1>7, <1>10, <2>3
    <3>2. G[h] = F[h]
      BY <1>8, <1>10, <2>3
    <3>3. Tiene(h)' = Tiene(h)
      BY <1>6, TieneIgual
    <3>4. Encaminado(h, F[h])'
      BY <1>6, <2>1, <3>1, <3>3, OtroEncaminado
    <3>. QED
      BY <3>2, <3>4
  <2>. QED
    BY <2>2, <2>3
<1>11. G = [h \in Hilos |-> G[h]] /\ G[t] = g
  BY <1>8
<1>12. Encaminados(G)'
  <2>1. \A h \in Hilos : Encaminado(h, G[h])'
    BY <1>9, <1>10, <1>11
  <2>. QED
    BY <1>11, <2>1 DEF Encaminados
<1>13. PICK c0, d0, k0 : c0 = F["consola"] /\ d0 = F["despachador"] /\ k0 = F["coordinador"]
  OBVIOUS
<1>14. PICK c1, d1, k1 : c1 = G["consola"] /\ d1 = G["despachador"] /\ k1 = G["coordinador"]
  OBVIOUS
<1>15. Acuerdos(c0, d0) /\ Cuentas(k0, d0)
  BY <1>13 DEF Estado
<1>16. k1 = k0
  <2>1. "coordinador" \in Hilos /\ "coordinador" # t
    BY <1>5 DEF Hilos
  <2>2. k1 = k0 \/ Vuelta(c, k0, k1)
    BY <1>10, <1>13, <1>14, <2>1
  <2>3. k0 \in {"oye", "atiende"}
    <3>1. k0 \in FasesDe("coordinador")
      BY <1>13, <2>1 DEF Estado, Encaminados, Encaminado
    <3>. QED
      BY <3>1 DEF FasesDe
  <2>. QED
    BY <2>2, <2>3 DEF Vuelta
<1>17. CASE t = "despachador"
  <2>1. d0 = "turno" /\ d1 = g /\ f = "turno" /\ g # "espera"
    BY <1>1, <1>5, <1>11, <1>13, <1>14, <1>17
  <2>2. c1 = c0 \/ Vuelta(c, c0, c1)
    BY <1>10, <1>13, <1>14, <1>17 DEF Hilos
  <2>3. Acuerdos(c1, d1)
    <3>1. CASE c = "permission_to_block"
      <4>1. d1 = "avisado" /\ (c1 = c0 \/ (c0 = "dormida" /\ c1 = "vuelve"))
        BY <1>5, <2>1, <2>2, <3>1 DEF Vuelta
      <4>. QED
        BY <1>15, <2>1, <4>1 DEF Acuerdos
    <3>2. CASE c = "paused_planification"
      <4>1. d1 = "pausado" /\ (c1 = c0 \/ (c0 = "pausa_dormida" /\ c1 = "pausa_vuelve"))
        BY <1>5, <2>1, <2>2, <3>2 DEF Vuelta
      <4>. QED
        BY <1>15, <2>1, <4>1 DEF Acuerdos
    <3>. QED
      BY <1>5, <1>17, <3>1, <3>2
  <2>4. Uno(d1 = "espera") = Uno(d0 = "espera")
    BY <2>1 DEF Uno
  <2>5. Cuentas(k1, d1)
    BY <1>15, <1>16, <2>4 DEF Cuentas
  <2>. QED
    BY <1>6, <1>12, <1>14, <2>3, <2>5, AcuerdosIgual, CuentasIgual DEF Estado
<1>18. CASE t = "consola"
  <2>1. c0 = g /\ c1 = g
    BY <1>1, <1>5, <1>11, <1>13, <1>14, <1>18
  <2>2. d1 = d0 \/ Vuelta(c, d0, d1)
    BY <1>10, <1>13, <1>14, <1>18 DEF Hilos
  <2>3. \/ g = "suelta" /\ (d1 = d0 \/ (d0 = "avisado" /\ d1 = "turno"))
        \/ g = "reanuda" /\ (d1 = d0 \/ (d0 = "pausado" /\ d1 = "turno"))
    BY <1>5, <1>18, <2>2 DEF Vuelta
  <2>4. Acuerdos(c1, d1)
    BY <1>15, <2>1, <2>3 DEF Acuerdos
  <2>5. Uno(d1 = "espera") = Uno(d0 = "espera")
    BY <2>3 DEF Uno
  <2>6. Cuentas(k1, d1)
    BY <1>15, <1>16, <2>5 DEF Cuentas
  <2>. QED
    BY <1>6, <1>12, <1>14, <2>4, <2>6, AcuerdosIgual, CuentasIgual DEF Estado
<1>. QED
  BY <1>5, <1>17, <1>18

LEMMA PasoAvanza ==
    ASSUME Tipos, NEW F, Estado(F), NEW t \in Hilos, Paso(t)
    PROVE  \E G : Estado(G)'
<1>1. UNCHANGED <<algorithm, cuenta>>
  BY DEF Paso
<1>2. CASE LockStep(t)
  BY <1>1, <1>2, LockAvanza
<1>3. CASE UnlockStep(t)
  BY <1>1, <1>3, UnlockAvanza
<1>4. CASE PasaStep(t)
  BY <1>1, <1>4, PasaAvanza
<1>5. CASE TryLockStep(t)
  BY <1>1, <1>5, TryLockAvanza
<1>6. CASE WaitStep(t)
  BY <1>1, <1>6, WaitAvanza
<1>7. CASE SignalStep(t)
  BY <1>1, <1>7, SignalAvanza
<1>8. CASE PonStep(t)
  BY <1>1, <1>8, PonAvanza
<1>9. CASE SiStep(t)
  BY <1>1, <1>9, SiAvanza
<1>10. CASE EligeStep(t)
  BY <1>1, <1>10, EligeAvanza
<1>11. CASE MandaStep(t)
  BY <1>1, <1>11, MandaAvanza
<1>12. CASE RecibeStep(t)
  BY <1>1, <1>12, RecibeAvanza
<1>. QED
  BY <1>2, <1>3, <1>4, <1>5, <1>6, <1>7, <1>8, <1>9, <1>10, <1>11, <1>12 DEF Paso

\* A thread that goes round its loop does so from where it rests.
LEMMA EmpiezaAvanza ==
    ASSUME Tipos, NEW F, Estado(F), NEW t \in Hilos, NEW p, Empieza(t, p),
           \A f \in FasesDe(t) \cap Reposo : Bien(algorithm, p, {}, f),
           cuenta'["interrupciones"] = cuenta["interrupciones"]
    PROVE  \E G : Estado(G)'
<1>1. PICK f : f = F[t]
  OBVIOUS
<1>2. Encaminado(t, f) /\ programa[t] = << >>
  BY <1>1 DEF Estado, Encaminados, Empieza
<1>3. Tiene(t) = {} /\ f \in FasesDe(t) \cap Reposo
  BY <1>2, Desdobla DEF Encaminado
<1>4. programa'[t] = p /\ \A h \in Hilos \ {t} : programa'[h] = programa[h]
  BY ProgramaTras DEF Empieza
<1>5. UNCHANGED <<algorithm, dueno, bandera, mensajes>>
  BY DEF Empieza
<1>6. \A h : Tiene(h)' = Tiene(h)
  BY <1>5, TieneIgual
<1>7. Encaminado(t, f)'
  <2>1. Bien(algorithm, p, {}, f)
    BY <1>3
  <2>2. Tiene(t)' = {}
    BY <1>3, <1>6
  <2>. QED
    BY <1>3, <1>4, <1>5, <2>1, <2>2 DEF Encaminado
<1>8. \A h \in Hilos : Encaminado(h, F[h])'
  <2>1. \A h \in Hilos : Encaminado(h, F[h])
    BY DEF Estado, Encaminados
  <2>. QED
    BY <1>1, <1>4, <1>5, <1>6, <1>7, <2>1, OtroEncaminado
<1>9. Encaminados(F)'
  BY <1>8 DEF Estado, Encaminados
<1>10. Acuerdos(F["consola"], F["despachador"])'
  BY <1>5, AcuerdosIgual DEF Estado
<1>11. Cuentas(F["coordinador"], F["despachador"])'
  BY <1>5 DEF Estado, Cuentas
<1>. QED
  BY <1>9, <1>10, <1>11 DEF Estado

LEMMA VueltasAvanzan ==
    ASSUME Tipos, NEW F, Estado(F), Vuelve \/ Teclea \/ Conecta
    PROVE  \E G : Estado(G)'
<1>1. ASSUME NEW suceso \in {"comandos", "conexiones"}, NEW limite, Sucede(suceso, limite)
      PROVE  cuenta'["interrupciones"] = cuenta["interrupciones"]
  BY <1>1 DEF Sucede, Tipos
<1>2. /\ FasesDe("despachador") \cap Reposo = {"turno"} /\ FasesDe("coordinador") \cap Reposo = {"oye"}
      /\ FasesDe("consola") \cap Reposo = {"teclado"} /\ FasesDe("conexion") \cap Reposo = {"conexion"}
  BY DEF FasesDe, Reposo
<1>3. CASE Empieza("despachador", Dispatch) /\ UNCHANGED cuenta
  BY <1>2, <1>3, DispatchBien, EmpiezaAvanza DEF Hilos
<1>4. CASE Empieza("coordinador", ConnectToCoordinator) /\ UNCHANGED cuenta
  BY <1>2, <1>4, ConnectBien, EmpiezaAvanza DEF Hilos
<1>5. CASE Teclea
  <2>1. PICK p \in Comandos : Empieza("consola", p)
    BY <1>5 DEF Teclea
  <2>2. Bien(algorithm, p, {}, "teclado")
    BY ComandosBien
  <2>3. cuenta'["interrupciones"] = cuenta["interrupciones"]
    BY <1>1, <1>5 DEF Teclea
  <2>. QED
    BY <1>2, <2>1, <2>2, <2>3, EmpiezaAvanza DEF Hilos
<1>6. CASE Conecta
  <2>1. Empieza("conexion", EsiConnectionHandler)
    BY <1>6 DEF Conecta
  <2>2. cuenta'["interrupciones"] = cuenta["interrupciones"]
    BY <1>1, <1>6 DEF Conecta
  <2>. QED
    BY <1>2, <2>1, <2>2, ConexionBien, EmpiezaAvanza DEF Hilos
<1>. QED
  BY <1>3, <1>4, <1>5, <1>6 DEF Vuelve

\* The dispatcher gives up the result that it waits for.
LEMMA InterrumpeAvanza ==
    ASSUME Tipos, NEW F, Estado(F), Interrumpe
    PROVE  \E G : Estado(G)'
<1>1. PICK f, i, H : f = F["despachador"] /\ i = Head(programa["despachador"]) /\ H = Tiene("despachador")
  OBVIOUS
<1>2. "despachador" \in Hilos
  BY DEF Hilos
<1>3. Encaminado("despachador", f) /\ programa["despachador"] # << >> /\ i.ins = "recibe"
  BY <1>1, <1>2 DEF Estado, Encaminados, Interrumpe, Corre
<1>4. Permite(algorithm, i, H, f)
  BY <1>1, <1>3, Permitido
<1>5. H = {} /\ f = "espera"
  <2>1. H = {} /\ f \in {"espera", "oye"}
    BY <1>3, <1>4 DEF Permite
  <2>2. f \in FasesDe("despachador")
    BY <1>3 DEF Encaminado
  <2>. QED
    BY <2>1, <2>2 DEF FasesDe
<1>6. programa'["despachador"] = SinResultado /\ \A h \in Hilos \ {"despachador"} : programa'[h] = programa[h]
  BY <1>2, ProgramaTras DEF Interrumpe
<1>7. UNCHANGED <<algorithm, dueno, bandera>>
  BY DEF Interrumpe
<1>8. \A h : Tiene(h)' = Tiene(h)
  BY <1>7, TieneIgual
<1>9. Encaminado("despachador", "turno")'
  <2>1. Tiene("despachador")' = {}
    BY <1>1, <1>5, <1>8
  <2>. QED
    BY <1>6, <1>7, <2>1, SinResultadoBien DEF Encaminado, FasesDe
<1>10. Acuerdos(F["consola"], "turno")'
  <2>1. Acuerdos(F["consola"], "turno")
    BY <1>1, <1>5 DEF Estado, Acuerdos
  <2>. QED
    BY <1>7, <2>1, AcuerdosIgual
<1>11. Cuentas(F["coordinador"], "turno")'
  <2>1. Cuentas(F["coordinador"], "espera")
    BY <1>1, <1>5 DEF Estado
  <2>2. /\ cuenta["interrupciones"] < MaxInterrupciones
        /\ cuenta'["interrupciones"] = cuenta["interrupciones"] + 1
    BY DEF Interrumpe, Sucede, Tipos
  <2>3. /\ mensajes["sentencia"] \in Nat /\ mensajes["resultado"] \in Nat /\ mensajes["perdido"] \in Nat
        /\ cuenta["interrupciones"] \in Nat /\ MaxInterrupciones \in Nat
    BY SincronizacionAssumption DEF Tipos
  <2>4. /\ mensajes'["sentencia"] = mensajes["sentencia"]
        /\ \/ /\ mensajes'["resultado"] = mensajes["resultado"] - 1
              /\ mensajes'["perdido"] = mensajes["perdido"]
           \/ /\ mensajes'["resultado"] = mensajes["resultado"]
              /\ mensajes'["perdido"] = mensajes["perdido"] + 1
    BY DEF Interrumpe, Tipos
  <2>5. Uno(F["coordinador"] = "atiende") \in Nat
    BY DEF Uno
  <2>6. Uno("espera" = "espera") = 1 /\ Uno("turno" = "espera") = 0
    BY DEF Uno
  <2>. QED
    BY <2>1, <2>2, <2>3, <2>4, <2>5, <2>6 DEF Cuentas
<1>12. /\ Acuerdos(IF "despachador" = "consola" THEN "turno" ELSE F["consola"],
                   IF "despachador" = "despachador" THEN "turno" ELSE F["despachador"])'
       /\ Cuentas(IF "despachador" = "coordinador" THEN "turno" ELSE F["coordinador"],
                  IF "despachador" = "despachador" THEN "turno" ELSE F["despachador"])'
  BY <1>10, <1>11
<1>. QED
  BY <1>2, <1>6, <1>7, <1>8, <1>9, <1>12, MueveUno

-----------------------------------------------------------------------------
(* The types *)

LEMMA TiposDePaso ==
    ASSUME Tipos, NEW F, Estado(F), NEW t \in Hilos, Paso(t)
    PROVE  Tipos'
<1>1. UNCHANGED <<algorithm, cuenta>>
  BY DEF Paso
<1>2. \A p : Sigue(t, p) => programa' = [h \in Hilos |-> programa'[h]]
  BY SigueTras
<1>3. programa' = [h \in Hilos |-> programa'[h]]
  <2>1. CASE SignalStep(t)
    BY <2>1 DEF SignalStep
  <2>2. CASE ~SignalStep(t)
    <3>1. \E p : Sigue(t, p)
      BY <2>2 DEF Paso, LockStep, UnlockStep, PasaStep, TryLockStep, WaitStep, PonStep, SiStep,
                  EligeStep, MandaStep, RecibeStep
    <3>. QED
      BY <1>2, <3>1
  <2>. QED
    BY <2>1, <2>2
<1>4. dueno' \in [Mutexes -> Hilos \cup {"nadie", "principal"}]
  <2>1. dueno' = dueno \/ \E m : dueno' = [dueno EXCEPT ![m] = t] \/ dueno' = [dueno EXCEPT ![m] = "nadie"]
    BY DEF Paso, LockStep, UnlockStep, PasaStep, TryLockStep, WaitStep, SignalStep, PonStep, SiStep,
           EligeStep, MandaStep, RecibeStep
  <2>. QED
    BY <2>1 DEF Tipos
<1>5. bandera' \in [{"paused", "permission_to_block_acquired", "durmiendo"} -> BOOLEAN]
  <2>1. CASE PonStep(t)
    <3>1. PICK i, f, H : i = Head(programa[t]) /\ f = F[t] /\ H = Tiene(t)
      OBVIOUS
    <3>2. Encaminado(t, f) /\ programa[t] # << >> /\ i.ins = "pon"
      BY <2>1, <3>1 DEF PonStep, Corre, Estado, Encaminados
    <3>3. Permite(algorithm, i, H, f)
      BY <3>1, <3>2, Permitido
    <3>4. i.valor \in BOOLEAN
      BY <3>2, <3>3 DEF Permite
    <3>5. bandera' = [bandera EXCEPT ![i.b] = i.valor]
      BY <2>1, <3>1 DEF PonStep
    <3>. QED
      BY <3>4, <3>5 DEF Tipos
  <2>2. CASE ~PonStep(t)
    <3>1. bandera' = bandera
      BY <2>2 DEF Paso, LockStep, UnlockStep, PasaStep, TryLockStep, WaitStep, SignalStep, SiStep,
                  EligeStep, MandaStep, RecibeStep
    <3>. QED
      BY <3>1 DEF Tipos
  <2>. QED
    BY <2>1, <2>2
<1>6. mensajes' \in [{"sentencia", "resultado", "perdido"} -> Nat]
  <2>0. PICK msj : msj = Head(programa[t]).msj
    OBVIOUS
  <2>m. mensajes \in [{"sentencia", "resultado", "perdido"} -> Nat]
    BY DEF Tipos
  <2>1. CASE MandaStep(t)
    <3>1. mensajes' = IF msj = "resultado" /\ mensajes["perdido"] > 0
                      THEN [mensajes EXCEPT !["perdido"] = @ - 1]
                      ELSE [mensajes EXCEPT ![msj] = @ + 1]
      BY <2>0, <2>1 DEF MandaStep
    <3>2. CASE msj = "resultado" /\ mensajes["perdido"] > 0
      <4>1. mensajes' = [mensajes EXCEPT !["perdido"] = @ - 1]
        BY <3>1, <3>2
      <4>2. mensajes["perdido"] - 1 \in Nat
        BY <2>m, <3>2
      <4>. QED
        BY <2>m, <4>1, <4>2
    <3>3. CASE ~(msj = "resultado" /\ mensajes["perdido"] > 0)
      <4>1. mensajes' = [mensajes EXCEPT ![msj] = @ + 1]
        BY <3>1, <3>3
      <4>2. \A x \in {"sentencia", "resultado", "perdido"} :
              mensajes'[x] = IF x = msj THEN mensajes[x] + 1 ELSE mensajes[x]
        BY <2>m, <4>1
      <4>3. \A x \in {"sentencia", "resultado", "perdido"} : mensajes[x] \in Nat
        BY <2>m
      <4>4. \A n \in Nat : n + 1 \in Nat
        OBVIOUS
      <4>5. \A x \in {"sentencia", "resultado", "perdido"} : mensajes'[x] \in Nat
        BY <4>2, <4>3, <4>4
      <4>6. mensajes' = [x \in {"sentencia", "resultado", "perdido"} |-> mensajes'[x]]
        BY <2>m, <4>1
      <4>. QED
        BY <4>5, <4>6
    <3>. QED
      BY <3>2, <3>3
  <2>2. CASE RecibeStep(t)
    <3>1. mensajes[msj] > 0 /\ mensajes' = [mensajes EXCEPT ![msj] = @ - 1]
      BY <2>0, <2>2 DEF RecibeStep
    <3>2. \A x \in {"sentencia", "resultado", "perdido"} :
            mensajes'[x] = IF x = msj THEN mensajes[x] - 1 ELSE mensajes[x]
      BY <2>m, <3>1
    <3>3. \A x \in {"sentencia", "resultado", "perdido"} : mensajes[x] \in Nat
      BY <2>m
    <3>4. \A n \in Nat : n > 0 => n - 1 \in Nat
      OBVIOUS
    <3>5. \A x \in {"sentencia", "resultado", "perdido"} : mensajes'[x] \in Nat
      BY <3>1, <3>2, <3>3, <3>4
    <3>6. mensajes' = [x \in {"sentencia", "resultado", "perdido"} |-> mensajes'[x]]
      BY <2>m, <3>1
    <3>. QED
      BY <3>5, <3>6
  <2>3. CASE ~MandaStep(t) /\ ~RecibeStep(t)
    <3>1. mensajes' = mensajes
      BY <2>3 DEF Paso, LockStep, UnlockStep, PasaStep, TryLockStep, WaitStep, SignalStep, PonStep, SiStep,
                  EligeStep
    <3>. QED
      BY <3>1 DEF Tipos
  <2>. QED
    BY <2>1, <2>2, <2>3
<1>. QED
  BY <1>1, <1>3, <1>4, <1>5, <1>6 DEF Tipos

LEMMA TiposDeVueltas ==
    ASSUME Tipos, Vuelve \/ Teclea \/ Conecta \/ Interrumpe
    PROVE  Tipos'
<1>1. UNCHANGED <<algorithm, dueno, bandera>>
  BY DEF Vuelve, Teclea, Conecta, Interrumpe, Empieza
<1>2. programa' = [h \in Hilos |-> programa'[h]]
  <2>1. \E t \in Hilos : \E p : programa' = [programa EXCEPT ![t] = p]
    BY DEF Vuelve, Teclea, Conecta, Interrumpe, Empieza, Hilos
  <2>. QED
    BY <2>1, ProgramaTras
<1>3. mensajes' \in [{"sentencia", "resultado", "perdido"} -> Nat]
  <2>1. CASE Interrumpe
    BY <2>1 DEF Interrumpe, Tipos
  <2>2. CASE Vuelve \/ Teclea \/ Conecta
    BY <2>2 DEF Vuelve, Teclea, Conecta, Empieza, Tipos
  <2>. QED
    BY <2>1, <2>2
<1>4. cuenta' \in [{"comandos", "conexiones", "interrupciones"} -> Nat]
  <2>1. cuenta' = cuenta \/ \E suceso : cuenta' = [cuenta EXCEPT ![suceso] = @ + 1]
    BY DEF Vuelve, Teclea, Conecta, Interrumpe, Sucede
  <2>. QED
    BY <2>1 DEF Tipos
<1>. QED
  BY <1>1, <1>2, <1>3, <1>4 DEF Tipos

-----------------------------------------------------------------------------
(* The theorems *)

LEMMA InitIInv == Init => IInv
<1> SUFFICES ASSUME Init PROVE IInv
  OBVIOUS
<1>1. Tipos
  BY DEF Init, Tipos
<1>2. PICK F : F = [t \in Hilos |-> CASE t = "despachador" -> "turno" [] t = "consola" -> "teclado"
                                      [] t = "coordinador" -> "oye" [] OTHER -> "conexion"]
  OBVIOUS
<1>3. F["despachador"] = "turno" /\ F["consola"] = "teclado" /\ F["coordinador"] = "oye"
  BY <1>2 DEF Hilos
<1>4. ASSUME NEW t \in Hilos PROVE Encaminado(t, F[t])
  <2>1. programa[t] = << >>
    BY DEF Init
  <2>2. Tiene(t) = {}
    <3>1. \A m \in DeDatos : dueno[m] \in {"nadie", "principal"}
      BY DEF Init, DeDatos
    <3>. QED
      BY <3>1 DEF Tiene, Hilos
  <2>3. F[t] \in FasesDe(t) /\ F[t] \in Reposo
    BY <1>2 DEF FasesDe, Reposo, Hilos
  <2>. QED
    BY <2>1, <2>2, <2>3, AlFinal DEF Encaminado
<1>5. Encaminados(F)
  <2>1. F = [t \in Hilos |-> F[t]]
    BY <1>2
  <2>. QED
    BY <1>4, <2>1 DEF Encaminados
<1>6. Acuerdos("teclado", "turno")
  <2>1. dueno["permission_to_block_manager"] = "nadie" /\ dueno["pause_manager"] = "nadie"
    BY DEF Init, Mutexes
  <2>2. ~bandera["permission_to_block_acquired"]
    BY DEF Init
  <2>. QED
    BY <2>1, <2>2 DEF Acuerdos
<1>7. Cuentas("oye", "turno")
  BY SincronizacionAssumption DEF Init, Cuentas, Uno
<1>. QED
  BY <1>1, <1>3, <1>5, <1>6, <1>7 DEF IInv, Estado

LEMMA NextIInv == IInv /\ [Next]_vars => IInv'
<1> SUFFICES ASSUME IInv, [Next]_vars PROVE IInv'
  OBVIOUS
<1>1. Tipos
  BY DEF IInv
<1>2. PICK F : Estado(F)
  BY DEF IInv
<1>3. CASE Vuelve \/ Teclea \/ Conecta
  BY <1>1, <1>2, <1>3, VueltasAvanzan, TiposDeVueltas DEF IInv
<1>4. CASE Interrumpe
  BY <1>1, <1>2, <1>4, InterrumpeAvanza, TiposDeVueltas DEF IInv
<1>5. CASE \E t \in Hilos : Paso(t)
  BY <1>1, <1>2, <1>5, PasoAvanza, TiposDePaso DEF IInv
<1>6. CASE UNCHANGED vars
  <2>1. UNCHANGED <<algorithm, programa, dueno, bandera, mensajes, cuenta>>
    BY <1>6 DEF vars
  <2>2. Tipos'
    BY <1>1, <2>1 DEF Tipos
  <2>3. Acuerdos(F["consola"], F["despachador"])' /\ Cuentas(F["coordinador"], F["despachador"])'
    BY <1>2, <2>1, AcuerdosIgual, CuentasIgual DEF Estado
  <2>4. \A h \in Hilos : Encaminado(h, F[h])'
    <3>1. \A h \in Hilos : Encaminado(h, F[h])
      BY <1>2 DEF Estado, Encaminados
    <3>. QED
      BY <2>1, <3>1, TieneIgual, OtroEncaminado
  <2>5. Encaminados(F)'
    BY <1>2, <2>4 DEF Estado, Encaminados
  <2>. QED
    BY <2>2, <2>3, <2>5 DEF IInv, Estado
<1>. QED
  BY <1>3, <1>4, <1>5, <1>6 DEF Next

\* Whom a thread waits for, to lock what it may.
LEMMA LoQueEspera ==
    ASSUME NEW F, Estado(F), NEW t \in Hilos, Espera(t) \in Hilos
    PROVE  \E m \in DeDatos : dueno[m] = Espera(t) /\ Puede(algorithm, Tiene(t), m)
<1>1. PICK i, f, H : i = Head(programa[t]) /\ f = F[t] /\ H = Tiene(t)
  OBVIOUS
<1>2. "nadie" \notin Hilos
  BY DEF Hilos
<1>3. /\ programa[t] # << >> /\ i.ins \in {"lock", "pasa"} /\ i.m \in DeDatos
      /\ Espera(t) = dueno[i.m]
  BY <1>1, <1>2 DEF Espera
<1>4. Encaminado(t, f)
  BY <1>1 DEF Estado, Encaminados
<1>5. Permite(algorithm, i, H, f)
  BY <1>1, <1>3, <1>4, Permitido
<1>6. Puede(algorithm, H, i.m)
  BY <1>3, <1>5 DEF Permite
<1>. QED
  BY <1>1, <1>3, <1>6

LEMMA IInvNadie == IInv => NadieSeEsperaASiMismo
<1> SUFFICES ASSUME IInv PROVE NadieSeEsperaASiMismo
  OBVIOUS
<1>1. PICK F : Estado(F)
  BY DEF IInv
<1>2. Tipos
  BY DEF IInv
<1>3. ASSUME NEW t \in Hilos, Espera(t) = t PROVE FALSE
  <2>1. PICK m \in DeDatos : dueno[m] = t /\ Puede(algorithm, Tiene(t), m)
    BY <1>1, <1>3, LoQueEspera
  <2>. QED
    BY <2>1 DEF Puede, Tiene
<1>4. ASSUME NEW t \in Hilos, programa[t] # << >>
      PROVE  Head(programa[t]).ins \in {"lock", "unlock", "pasa", "trylock", "wait", "duerme", "signal",
                                        "pon", "si", "elige", "manda", "recibe"}
  <2>1. Encaminado(t, F[t])
    BY <1>1 DEF Estado, Encaminados
  <2>2. Permite(algorithm, Head(programa[t]), Tiene(t), F[t])
    BY <1>4, <2>1, Permitido
  <2>. QED
    BY <2>2 DEF Permite
<1>5. mensajes \in [{"sentencia", "resultado", "perdido"} -> 0 .. MaxInterrupciones + 1]
  <2>1. PICK k, d : k = Uno(F["coordinador"] = "atiende") /\ d = Uno(F["despachador"] = "espera")
    OBVIOUS
  <2>2. k \in 0 .. 1 /\ d \in 0 .. 1
    BY <2>1 DEF Uno
  <2>3. PICK s, r, p, n : /\ s = mensajes["sentencia"] /\ r = mensajes["resultado"]
                          /\ p = mensajes["perdido"] /\ n = cuenta["interrupciones"]
    OBVIOUS
  <2>4. s \in Nat /\ r \in Nat /\ p \in Nat /\ n \in Nat /\ MaxInterrupciones \in Nat
    BY <1>2, <2>3, SincronizacionAssumption DEF Tipos
  <2>5. s + k + r = p + d /\ p <= n /\ n <= MaxInterrupciones
    BY <1>1, <2>1, <2>3 DEF Estado, Cuentas
  <2>6. /\ s \in 0 .. MaxInterrupciones + 1 /\ r \in 0 .. MaxInterrupciones + 1
        /\ p \in 0 .. MaxInterrupciones + 1
    BY <2>2, <2>4, <2>5
  <2>. QED
    BY <1>2, <2>3, <2>6 DEF Tipos
<1>. QED
  BY <1>2, <1>3, <1>4, <1>5 DEF NadieSeEsperaASiMismo, TypeOK, Tipos

LEMMA IInvColas == IInv => SoloPorLasColas
<1> SUFFICES ASSUME IInv, NEW t \in Hilos, EnCirculo(t), dueno["blocked_by_resource"] \notin Hilos
             PROVE  FALSE
  BY DEF SoloPorLasColas
<1>1. PICK F : Estado(F)
  BY DEF IInv
\* Who is waited for has locked something later than all that the waiter has.
<1>2. ASSUME NEW u \in Hilos, NEW v \in Hilos, Espera(u) = v
      PROVE  \E m \in Tiene(v) : \A h \in Tiene(u) : Rango(algorithm, h) < Rango(algorithm, m)
  <2>1. PICK m \in DeDatos : dueno[m] = v /\ Puede(algorithm, Tiene(u), m)
    BY <1>1, <1>2, LoQueEspera
  <2>2. m # "blocked_by_resource"
    BY <2>1
  <2>. QED
    BY <2>1, <2>2 DEF Tiene, Puede
<1>3. \A u \in Hilos : \A m \in Tiene(u) : Rango(algorithm, m) \in Int
  BY RangoNatural DEF Tiene
<1>4. PICK u, v : u = Espera(t) /\ v = Espera(u)
  OBVIOUS
<1>5. u \in Hilos /\ (v = t \/ (v \in Hilos /\ Espera(v) = t))
  BY <1>4 DEF EnCirculo
<1>6. CASE v = t
  <2>1. PICK m \in Tiene(u) : \A h \in Tiene(t) : Rango(algorithm, h) < Rango(algorithm, m)
    BY <1>2, <1>4, <1>5
  <2>2. PICK n \in Tiene(t) : \A h \in Tiene(u) : Rango(algorithm, h) < Rango(algorithm, n)
    BY <1>2, <1>4, <1>5, <1>6
  <2>. QED
    BY <1>3, <1>5, <2>1, <2>2
<1>7. CASE v \in Hilos /\ Espera(v) = t
  <2>1. PICK m \in Tiene(u) : \A h \in Tiene(t) : Rango(algorithm, h) < Rango(algorithm, m)
    BY <1>2, <1>4, <1>5
  <2>2. PICK n \in Tiene(v) : \A h \in Tiene(u) : Rango(algorithm, h) < Rango(algorithm, n)
    BY <1>2, <1>4, <1>5, <1>7
  <2>3. PICK o \in Tiene(t) : \A h \in Tiene(v) : Rango(algorithm, h) < Rango(algorithm, o)
    BY <1>2, <1>7
  <2>4. /\ Rango(algorithm, m) \in Int /\ Rango(algorithm, n) \in Int /\ Rango(algorithm, o) \in Int
    BY <1>3, <1>5, <1>7, <2>1, <2>2, <2>3
  <2>5. /\ Rango(algorithm, m) < Rango(algorithm, n) /\ Rango(algorithm, n) < Rango(algorithm, o)
        /\ Rango(algorithm, o) < Rango(algorithm, m)
    BY <2>1, <2>2, <2>3
  <2>. QED
    BY <2>4, <2>5
<1>. QED
  BY <1>5, <1>6, <1>7

\* The dispatcher sends a sentence or waits for its result only in its turn.
LEMMA FaseDelDespachador ==
    ASSUME NEW F, Estado(F), Corre("despachador", "manda") \/ Corre("despachador", "recibe")
    PROVE  F["despachador"] \in {"turno", "espera"}
<1>1. PICK i, f, H : i = Head(programa["despachador"]) /\ f = F["despachador"] /\ H = Tiene("despachador")
  OBVIOUS
<1>2. programa["despachador"] # << >> /\ i.ins \in {"manda", "recibe"}
  BY <1>1 DEF Corre
<1>3. Encaminado("despachador", f)
  BY <1>1 DEF Estado, Encaminados, Hilos
<1>4. Permite(algorithm, i, H, f)
  BY <1>1, <1>2, <1>3, Permitido
<1>5. f \in {"turno", "atiende", "espera", "oye"}
  BY <1>2, <1>4 DEF Permite
<1>6. f \in {"turno", "espera", "avisado", "pausado"}
  BY <1>3 DEF Encaminado, FasesDe
<1>. QED
  BY <1>1, <1>5, <1>6

LEMMA IInvBloqueo == IInv => BloqueoEntreTurnos
<1> SUFFICES ASSUME IInv, dueno["permission_to_block_manager"] = "consola", ~Corre("consola", "wait"),
                    bandera["permission_to_block_acquired"],
                    Corre("despachador", "manda") \/ Corre("despachador", "recibe")
             PROVE  FALSE
  BY DEF BloqueoEntreTurnos
<1>1. PICK F : Estado(F)
  BY DEF IInv
<1>2. PICK c, d : c = F["consola"] /\ d = F["despachador"]
  OBVIOUS
<1>3. Acuerdos(c, d)
  BY <1>1, <1>2 DEF Estado
<1>4. c \in {"tiene", "bloquea"}
  BY <1>3 DEF Acuerdos
<1>5. c # "tiene"
  <2>1. Encaminado("consola", c)
    BY <1>1, <1>2 DEF Estado, Encaminados, Hilos
  <2>2. ASSUME c = "tiene" PROVE programa["consola"] # << >>
    BY <2>1, <2>2, Desdobla DEF Encaminado, Reposo
  <2>3. ASSUME c = "tiene" PROVE Head(programa["consola"]).ins = "wait"
    <3>1. Permite(algorithm, Head(programa["consola"]), Tiene("consola"), c)
      BY <2>1, <2>2, <2>3, Permitido
    <3>. QED
      BY <2>3, <3>1 DEF Permite
  <2>. QED
    BY <2>2, <2>3 DEF Corre
<1>6. d = "avisado"
  BY <1>3, <1>4, <1>5 DEF Acuerdos
<1>7. d \in {"turno", "espera"}
  BY <1>1, <1>2, FaseDelDespachador
<1>. QED
  BY <1>6, <1>7

LEMMA IInvPausa == IInv => (Avisada => ~OrdenaSentencia)
<1> SUFFICES ASSUME IInv, Avisada, Corre("despachador", "manda") PROVE FALSE
  BY DEF OrdenaSentencia
<1>1. PICK F : Estado(F)
  BY DEF IInv
<1>2. PICK c, d : c = F["consola"] /\ d = F["despachador"]
  OBVIOUS
<1>3. c = "teclado"
  <2>1. Encaminado("consola", c)
    BY <1>1, <1>2 DEF Estado, Encaminados, Hilos
  <2>2. c \in Reposo /\ c \in FasesDe("consola")
    BY <2>1, Desdobla DEF Avisada, Encaminado
  <2>. QED
    BY <2>2 DEF Reposo, FasesDe
<1>4. d = "pausado"
  BY <1>1, <1>2, <1>3 DEF Estado, Acuerdos, Avisada
<1>5. d \in {"turno", "espera"}
  BY <1>1, <1>2, FaseDelDespachador
<1>. QED
  BY <1>4, <1>5

LEMMA IInvTypeOK == IInv => TypeOK
<1> SUFFICES ASSUME IInv PROVE TypeOK
  OBVIOUS
<1>1. PICK F : Estado(F)
  BY DEF IInv
<1>2. PICK k, d : k = F["coordinador"] /\ d = F["despachador"]
  OBVIOUS
<1>3. ASSUME NEW t \in Hilos, programa[t] # << >>
      PROVE  Head(programa[t]).ins \in {"lock", "unlock", "pasa", "trylock", "wait", "duerme",
                                       "signal", "pon", "si", "elige", "manda", "recibe"}
  <2>1. PICK f : f = F[t]
    OBVIOUS
  <2>2. Encaminado(t, f)
    BY <1>1, <2>1 DEF Estado, Encaminados
  <2>3. Permite(algorithm, Head(programa[t]), Tiene(t), f)
    BY <1>3, <2>2, Permitido
  <2>. QED
    BY <2>3 DEF Permite
<1>4. \A n \in {"sentencia", "resultado", "perdido"} : mensajes[n] \in 0 .. MaxInterrupciones + 1
  <2>1. Cuentas(k, d)
    BY <1>1, <1>2 DEF Estado
  <2>2. PICK u, v : u = Uno(k = "atiende") /\ v = Uno(d = "espera")
    OBVIOUS
  <2>3. u \in 0 .. 1 /\ v \in 0 .. 1
    BY <2>2 DEF Uno
  <2>4. mensajes["sentencia"] + u + mensajes["resultado"] = mensajes["perdido"] + v
        /\ mensajes["perdido"] <= cuenta["interrupciones"]
        /\ cuenta["interrupciones"] <= MaxInterrupciones
    BY <2>1, <2>2 DEF Cuentas
  <2>5. mensajes["sentencia"] \in Nat /\ mensajes["resultado"] \in Nat /\ mensajes["perdido"] \in Nat
        /\ cuenta["interrupciones"] \in Nat
    BY DEF IInv, Tipos
  <2>6. MaxInterrupciones \in Nat
    BY SincronizacionAssumption
  <2>. QED
    BY <2>3, <2>4, <2>5, <2>6
<1>5. mensajes \in [{"sentencia", "resultado", "perdido"} -> 0 .. MaxInterrupciones + 1]
  BY <1>4 DEF IInv, Tipos
<1>. QED
  BY <1>3, <1>5 DEF TypeOK, IInv, Tipos

\* Every thread can go on with the rest of its program: whatever it locks, it may.
THEOREM CadaUnoPuedeSeguir == Spec => []IInv
<1>1. IInv /\ [Next]_vars => IInv'
  BY NextIInv
<1>. QED
  BY <1>1, InitIInv, PTL DEF Spec

\* Threads run only the instructions there are, and at most one message more is on its
\* way than ESIs were interrupted.
THEOREM TiposCorrectos == Spec => []TypeOK
BY CadaUnoPuedeSeguir, IInvTypeOK, PTL

\* Whatever the algorithm, no thread waits for a mutex of the data that it has.
THEOREM NingunoSeEspera == Spec => []NadieSeEsperaASiMismo
BY CadaUnoPuedeSeguir, IInvNadie, PTL

\* In every circle of threads that wait for each other the queues of resources are locked.
THEOREM CirculosPorLasColas == Spec => []SoloPorLasColas
BY CadaUnoPuedeSeguir, IInvColas, PTL

\* The console blocks an ESI only between two turns of the dispatcher.
THEOREM BloqueaEntreTurnos == Spec => []BloqueoEntreTurnos
BY CadaUnoPuedeSeguir, IInvBloqueo, PTL

\* After an answered pause no sentence runs until the console resumes.
THEOREM LaPausaDetiene == Spec => PausaDetiene
<1>1. IInv => [Avisada => ~OrdenaSentencia]_vars
  BY IInvPausa
<1>. QED
  BY <1>1, CadaUnoPuedeSeguir, PTL DEF PausaDetiene

=============================================================================
