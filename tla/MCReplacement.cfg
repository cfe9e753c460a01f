\* Three entries for three keys: the two-entry value forces evictions.
SPECIFICATION EitherSpec
CONSTANTS
    Algorithm = "LRU"
    Keys = {k1, k2, k3}
    Values = {"a", "b", "ddd"}
    MaxEntries = 3
    EntrySize = 2
    Length <- MCLength
    NoEntry = NoEntry
    NoRequest = NoRequest
    Blank = Blank
PROPERTIES VictimIsOldest
