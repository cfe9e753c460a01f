\* Two ESIs are enough for the dispatcher to sleep on a ready one.
SPECIFICATION Spec
CONSTANTS
    ESIs = {e1, e2}
    r1 = r1
    r2 = r2
    Recursos = {r1, r2}
    Ninguno = Ninguno
    ESI_BLOQUEADO = ESI_BLOQUEADO
    Nadie = Nadie
    SinRecurso = SinRecurso
    TAKEN_RESOURCES = {r2}
    Guiones <- MCGuiones
    Desconexiones = {}
    FallanInstancias = FALSE
    MaxComandos = 0
PROPERTIES DuermeSinListos
\* The system rests when every ESI has ended or waits, and stops if it dies.
CHECK_DEADLOCK FALSE
