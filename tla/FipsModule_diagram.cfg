CONSTANTS
    t1 = t1
    t2 = t2
    t3 = t3
    Threads <- MCThreads1
    ApprovedOnly = FALSE
    StartupGate = FALSE
    Disciplined = FALSE
    Operations <- MCOperations
    NumCasts = 2
    GatedCasts <- MCGatedCasts
    Algorithms <- MCAlgorithms
    UnknownId = "nonsense"
    Fips <- MCFips
    Available <- MCAvailable
SPECIFICATION FairSpec
PROPERTIES ImplementsDiagram
