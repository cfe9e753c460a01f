\* Three ESIs under each of the three algorithms.
SPECIFICATION Spec
CONSTANTS
    ESIs = {e1, e2, e3}
    Ninguno = Ninguno
    Algoritmos = {"SJF", "SJF_DESALOJO", "HRRN"}
    Largos = {1, 3}
    alpha = 50
    initial_estimation = 2
    ESCALA = 4
    MaxBloqueos = 2
    MaxComandos = 1
    MaxTiempo = 6
INVARIANTS CadaUnoEnSuLugar
PROPERTIES EligeElMejor DuracionEsLaRafaga
\* The system rests when every ESI has ended or waits, and stops if it dies.
SYMMETRY Simetria
CHECK_DEADLOCK FALSE
