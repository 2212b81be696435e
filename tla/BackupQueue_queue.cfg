\* Three devices, two threads, two concurrent callers; with four task identities
\* a worker that dies can be replaced while two are still listed.
CONSTANTS
    d1 = d1
    Devices = {d1, d2, d3}
    Callers = {scheduler, api}
    Tasks = {t1, t2, t3, t4}
    Threads = 2
    Batches <- MCBatches
    NoDevice = NoDevice
    NoRequest = NoRequest
SPECIFICATION FairSpec
INVARIANTS
    TypeOK
    DedupeExact
    OneBackupPerDevice
    WorkerBound
    TaskDoneBalanced
PROPERTIES
    ImplementsDeviceBackups
    ShutdownStartsNothing
    QueuedEventuallyLeaves
    CallersAnswered
