\* Two keys, two values, three sentences, a second start after any end.
SPECIFICATION FairSpec
CONSTANTS
    Keys = {k1, k2}
    Values = {v1, v2}
    NULL = NULL
    MaxSentences = 3
    MaxStarts = 2
INVARIANTS NoFileGoesBack ReadsWhatWasWritten
PROPERTIES DumpIsASnapshot DumpHappens Stops
\* The process is not started again for ever.
CHECK_DEADLOCK FALSE
