\* Three commands, or two with an interruption or a connection, or one with both.
\* FIFO locks as HRRN does less the map of ESIs, SJF as SJF_DESALOJO where it blocks.
SPECIFICATION Spec
CONSTANTS
    Algoritmos = {"SJF_DESALOJO", "HRRN"}
    MaxComandos = 3
    MaxConexiones = 1
    MaxInterrupciones = 1
    MaxSucesos = 3
INVARIANTS NadieSeEsperaASiMismo SoloPorLasColas BloqueoEntreTurnos
PROPERTIES PausaDetiene
\* Threads may wait for each other for ever.
CHECK_DEADLOCK FALSE
