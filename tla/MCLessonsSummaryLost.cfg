SPECIFICATION FairSpec
CONSTANTS
    Predictions = {p1, p2}
    MaxTime = 1
    MaxFailures = 0
    Lookback = 1
PROPERTY SurpriseIsLearned
