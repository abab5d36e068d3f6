CONSTANTS
    t1 = t1
    t2 = t2
    t3 = t3
    Threads <- MCThreads2
    ApprovedOnly = TRUE
    StartupGate = TRUE
    Disciplined = FALSE
    Operations <- MCOperations
    NumCasts = 2
    GatedCasts <- MCGatedCasts
    Algorithms <- MCAlgorithms1
    UnknownId = "nonsense"
    Fips <- MCFips1
    Available <- MCAlgorithms1
SPECIFICATION FairSpec
INVARIANTS OperationalOnlyAfterTests SettledState RefusedAfterFailure ServedOnlyAfterTests
PROPERTIES FailureBringsModuleDown
