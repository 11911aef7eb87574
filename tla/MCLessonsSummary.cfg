SPECIFICATION FairSpec
CONSTANTS
    Predictions = {p1, p2}
    MaxTime = 2
    MaxFailures = 1
    Lookback = 1
INVARIANTS
    OneLessonEach
PROPERTIES
    OldestIsLearned
