CONSTANTS
    Devices = {d1, d2}
    JobIds = {j1, j2, j3, j4}
    MaxRows = 1
    Settings <- Outages
    Captures <- AllSizes
    Invalid = Invalid
    NoCapture = NoCapture
    NoJob = NoJob
    NoStatus = NoStatus
SYMMETRY Symmetry
SPECIFICATION Spec
INVARIANTS TypeOK RowFollowsRun InProgressIsRunning NoSuspiciousCapture
PROPERTIES FinalRowsKept ToldOnce
