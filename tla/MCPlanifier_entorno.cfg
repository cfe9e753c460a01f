\* Two ESIs, one of which may be interrupted, and two console commands, under the
\* fairness of the threads.
SPECIFICATION FairSpec
CONSTANTS
    ESIs = {e1, e2}
    r1 = r1
    r2 = r2
    Recursos = {r1, r2}
    Ninguno = Ninguno
    ESI_BLOQUEADO = ESI_BLOQUEADO
    Nadie = Nadie
    SinRecurso = SinRecurso
    TAKEN_RESOURCES = {r2}
    Guiones <- MCGuiones
    Desconexiones = {e1}
    FallanInstancias = TRUE
    MaxComandos = 2
INVARIANTS UnoALaVez
PROPERTIES ListoCorre
\* The system rests when every ESI has ended or waits, and stops if it dies.
CHECK_DEADLOCK FALSE
