SPECIFICATION FairSpec
CONSTANTS
    MaxLines = 2
    Retries = 0
    DrainChunks = 1
    Cases <- CutCases
INVARIANT
    ResultIsWhole
CHECK_DEADLOCK FALSE
