SPECIFICATION Spec
CONSTANTS
    Markets = {m1, m2}
    MaxCycles = 2
    TradingModes = {"paper", "real_capital"}
    Results = {"filled", "rejected"}
SYMMETRY Symmetry
CHECK_DEADLOCK FALSE
INVARIANTS
    OrdersFollowDecisions
    OneActivePlan
    AbortLeavesNothing
    HeartbeatMeansComplete
PROPERTIES
    NoOrderAfterPlan
