SPECIFICATION Spec
CONSTANTS
    Calls = {r1, r2}
    Start = start
    Cases <- ReloadCases
INVARIANT
    ReloadIsExact
CHECK_DEADLOCK FALSE
