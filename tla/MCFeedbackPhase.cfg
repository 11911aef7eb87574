SPECIFICATION FairPhaseSpec
CONSTANTS
    Predictions = {p1}
    MaxTime = 1
    MaxFailures = 1
    Lookback = 0
    MaxCycles = 1
INVARIANTS
    PhaseTypeOK
    FreshLessons
    StepsInOrder
    StepsIsolated
PROPERTIES
    PhaseEnds
