\* Four entries of two characters; BSU, the algorithm that looks at sizes.
SPECIFICATION Spec
CONSTANTS
    Keys = {k1, k2, k3}
    Values = {"a", "cc", "ddd", "ggggggg"}
    MaxEntries = 4
    EntrySize = 2
    Length <- MCLength
    Algorithm = "BSU"
    NoEntry = NoEntry
    NoRequest = NoRequest
    Blank = Blank
INVARIANTS TypeOK Layout ReplacementMatchesEntries WholeValues
PROPERTIES CompactionMakesRoom BSUEvictsLargest KeepsItsPromise OperationsEnd
