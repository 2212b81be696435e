SPECIFICATION FairSpec
CONSTANTS
    Views = {v1, v2}
    all = all
    f1 = f1
    Filters <- MCFilters
    All <- MCAll
    MaxPages = 2
    Slots = {1, 2}
    Timers = {t1, t2}
    Setups <- MCSetups
    None = None
INVARIANTS
    TypeOK
    NoStrayTimer
PROPERTIES
    RefreshSettles
