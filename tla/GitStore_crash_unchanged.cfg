CONSTANTS
    c1 = c1
    c2 = c2
    Devices = {d1}
    Contents = {c1, c2}
    Readers = {r1}
    Setups <- CrashSetups
    Absent = Absent
    Torn = Torn
    NoCount = NoCount
    Free = Free
SPECIFICATION Spec
INVARIANT UnchangedIsCommitted
