SPECIFICATION FairSpec
CONSTANTS
    Markets = {m1}
    MaxTime = 2
    MaxCycles = 1
    MaxFailures = 1
    Lookback = 2
    NoMark = NoMark
INVARIANTS
    GroundTruthAgrees
    MissedOnlyIfLate
PROPERTIES
    EarlyTradesCount
    InTimeIsIngested
