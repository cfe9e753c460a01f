\* Two ISEs, the first of which its user interrupts in the middle of a sentence.
SPECIFICATION Spec
CONSTANTS
    i1 = i1
    i2 = i2
    Instances = {i1, i2}
    Keys = {k1}
    ISEs = {e1, e2}
    console = console
    NULL = NULL
    MayInterrupt = {e1}
    MayFail = {}
    MaxSentences = 2
    MaxQueries = 0
    QueriesIn = {}
    MaxConnections <- MCMaxConnections
PROPERTIES AnswerIsItsOwn
\* The system rests when the bounds are reached, and stops if it dies.
CHECK_DEADLOCK FALSE
