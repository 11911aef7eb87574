SPECIFICATION Spec
CONSTANTS
    Markets = {m1}
    MaxCycles = 2
    TradingModes = {"real_capital"}
    Results = {"filled", "rejected"}
CHECK_DEADLOCK FALSE
INVARIANT CrashCannotDoublePlace
