SPECIFICATION FairSpec
CONSTANTS
    MaxLines = 2
    Retries = 1
    DrainChunks = 1
    Cases <- SessionCases
INVARIANTS
    TypeOK
    CapturedIsOwnAnswer
    NothingLeaks
    CommandsOnlyInShell
PROPERTIES
    ImplementsConfigFetch
    
CHECK_DEADLOCK FALSE
