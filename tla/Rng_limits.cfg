CONSTANTS
    Rngs = {r1, r2}
    Drbgs = {d}
    Interval = 4
    MaxDraws = 5
    MaxChain = 2
    MaxOutputs = 5
    PairOutputs = 3
    MixedDraws = 3
SPECIFICATION CrewSpec
SYMMETRY Alikeness
CHECK_DEADLOCK TRUE
INVARIANTS OutputsFresh ExhaustionNeverSurfaces OutputsDistinct
