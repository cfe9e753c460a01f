\* Instances that enter the list in any order, under EL and under LSU.  A dead
\* coordinator stops.
SPECIFICATION Spec
CONSTANTS
    Instances = {i1, i2, i3, i4}
    NULL = NULL
    GONE = GONE
    MaxEntries = 2
SYMMETRY Symmetry
INVARIANTS KEIsEven
PROPERTIES NobodyIsSkipped LSUSoonChoosesTheLeast
CHECK_DEADLOCK FALSE
