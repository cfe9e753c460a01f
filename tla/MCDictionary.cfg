\* Five keys of four hashes, a table of two buckets that may grow twice.
SPECIFICATION Spec
CONSTANTS
    k1 = k1
    k2 = k2
    k3 = k3
    k4 = k4
    k5 = k5
    Keys = {k1, k2, k3, k4, k5}
    NULL = NULL
    Data = {d1, NULL}
    Hash <- MCHash
    INITIAL_SIZE = 2
    MaxElements = 4
INVARIANTS InItsBucket CountsItsBuckets
PROPERTIES KeepsItsQueues
