SPECIFICATION FairSpec
CONSTANTS
    MaxLines = 2
    Retries = 0
    DrainChunks = 1
    Cases <- PagerCases
PROPERTY
    FetchEnds
CHECK_DEADLOCK FALSE
