SPECIFICATION Spec
CONSTANTS
    m1 = m1
    m2 = m2
    Markets = {m1, m2}
    MaxCycles = 2
    PAPER_STARTING_CASH_USD = 10000
    TOP_K_MARKETS = 2
    UNIVERSE_FETCH_LIMIT = 2
    ORDER_RATE_LIMIT_PER_HOUR = 2
    MAX_OPEN_POSITIONS = 3
    TradingModes = {"paper", "real_capital"}
    Books <- MCBooks
    Views <- MCViews
    Ledgers <- MCLedgers
    EarlierSpent <- MCEarlier
INVARIANT NoCapitalDeployed
CHECK_DEADLOCK FALSE
