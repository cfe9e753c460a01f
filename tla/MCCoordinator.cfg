\* Two instances, one of which may fail and come back, three sentences, one question.
SPECIFICATION FairSpec
CONSTANTS
    i1 = i1
    i2 = i2
    Instances = {i1, i2}
    Keys = {k1}
    ISEs = {e1}
    console = console
    NULL = NULL
    MayInterrupt = {}
    MayFail = {i1}
    MaxSentences = 3
    MaxQueries = 1
    QueriesIn = {2}
    MaxConnections <- MCMaxConnections
INVARIANTS OneOwner StoredIsFound SocketsInStep CompactsBeforeRetry
\* The system rests when the bounds are reached, and stops if it dies.
CHECK_DEADLOCK FALSE
PROPERTIES SentenceEnds
