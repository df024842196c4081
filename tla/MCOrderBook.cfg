CONSTANTS
    Price <- MCPrice
    MaxQuantity = 1
    Depth = 1
    MaxSequence = 3
    StartTime = 1
    TickMs = 2
    MaxCatchUp = 2
    MaxWall = 7
    MaxStepsBack = 1
SPECIFICATION EngineSpec
INVARIANTS
    TouchedExplainsDifference
    NeverAhead
    SnapshotsAreWhole
PROPERTIES
    ChainReproducesBook
    CatchesUp
