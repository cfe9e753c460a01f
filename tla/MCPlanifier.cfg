\* Three ESIs, an instance that may fail, nobody at the console.
SPECIFICATION Spec
CONSTANTS
    ESIs = {e1, e2, e3}
    r1 = r1
    r2 = r2
    Recursos = {r1, r2}
    Ninguno = Ninguno
    ESI_BLOQUEADO = ESI_BLOQUEADO
    Nadie = Nadie
    SinRecurso = SinRecurso
    TAKEN_RESOURCES = {r2}
    Guiones <- MCGuiones
    Desconexiones = {}
    FallanInstancias = TRUE
    MaxComandos = 0
INVARIANTS CadaUnoEnSuLista EsperaJustificada PunteroEnFase DeadlockEsCirculo
PROPERTIES FinalizadoNoVuelve SetAjenoAborta
\* The system rests when every ESI has ended or waits, and stops if it dies.
CHECK_DEADLOCK FALSE
