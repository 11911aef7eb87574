--------------------------- MODULE MCTradingCycle ---------------------------
EXTENDS TradingCycle, TLC

Symmetry == Permutations(Markets)
=============================================================================
