CONSTANTS
    Devices = {d1}
    JobIds = {j1, j2, j3}
    MaxRows = 3
    Settings <- Crashes
    Captures <- AllSizes
    Invalid = Invalid
    NoCapture = NoCapture
    NoJob = NoJob
    NoStatus = NoStatus
SPECIFICATION Spec
INVARIANT FailingIsTold
