CONSTANTS
    c1 = c1
    c2 = c2
    Devices = {d1, d2}
    Contents = {c1, c2}
    Readers = {r1}
    Setups <- GitSetups
    Absent = Absent
    Torn = Torn
    NoCount = NoCount
    Free = Free
SPECIFICATION FairSpec
INVARIANTS
    TypeOK
    SuccessIsCommitted
    NoChangesIsCommitted
    CountFresh
    CommitIsOwn
    VersionsNumberCommits
PROPERTIES
    LoopUnblocks
