CONSTANTS
    Devices = {d1, d2}
    JobIds = {j1, j2}
    MaxRows = 1
    Settings <- Deletions
    Captures <- AllSizes
    Invalid = Invalid
    NoCapture = NoCapture
    NoJob = NoJob
    NoStatus = NoStatus
SPECIFICATION FairSpec
INVARIANT FailingIsTold
PROPERTIES RunsEnd RowsEnd
