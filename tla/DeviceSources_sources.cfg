SPECIFICATION Spec
CONSTANTS
    Calls = {r1, r2, r3}
    Start = start
    Cases <- SourceCases
SYMMETRY Symmetry
INVARIANTS
    TypeOK
    LoadedIsWhole
    ReloadShowsSource
    JobsAreWholeSource
    ResolutionMatchesDocs
CHECK_DEADLOCK FALSE
