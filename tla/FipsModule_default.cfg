CONSTANTS
    t1 = t1
    t2 = t2
    t3 = t3
    Threads <- MCThreads2
    ApprovedOnly = FALSE
    StartupGate = FALSE
    Disciplined = TRUE
    Operations <- MCOperations
    NumCasts = 2
    GatedCasts <- MCGatedCasts
    Algorithms <- MCAlgorithms
    UnknownId = "nonsense"
    Fips <- MCFips
    Available <- MCAvailable
SPECIFICATION Spec
CHECK_DEADLOCK TRUE
SYMMETRY Symmetry
INVARIANTS ModeSticks
PROPERTIES ApprovedModeRefuses
