------------------------------ MODULE RiskGates ------------------------------
(***************************************************************************)
(* src/risk/: the deterministic sizing and the six pure gates, and the way *)
(* the risk-execution agent is told to compose them.  Money is in whole    *)
(* units, quotients are rounded down, and prices, edges and p_yes are in   *)
(* thousandths.                                                            *)
(*                                                                         *)
(* A portfolio is the PortfolioState record of one cycle; an order is what *)
(* the gates see of one: [market, side, notional, price, fee].             *)
(***************************************************************************)
EXTENDS Integers, FiniteSetsExt

CONSTANTS
    ORDER_RATE_LIMIT_PER_HOUR,   \* 100
    MAX_OPEN_POSITIONS           \* 50

ASSUME GatesAssumption ==
    ORDER_RATE_LIMIT_PER_HOUR \in Nat \ {0} /\ MAX_OPEN_POSITIONS \in Nat

(* The limits of risk/limits.py, fractions of equity in per cent.          *)
CONCENTRATION_CAP    == 15
CYCLE_CAP            == 25
MAX_ORDER_PCT_EQUITY == 50
PRICE_MIN            == 5
PRICE_MAX            == 995
EDGE_THRESHOLD       == 50
BASE_TRADE_FRACTION  == 2
MAX_TRADE_FRACTION   == 10
FEE_RATE_BPS         == 200
MAX_CAPITAL_EUR      == 0

Percent(p, amount) == (p * amount) \div 100
Smaller(a, b) == IF a <= b THEN a ELSE b
Abs(x) == IF x < 0 THEN -x ELSE x

(* propose_notional: grows with the edge, up to a tenth of the equity.     *)
Sized(edge, equity) ==
    Smaller((Percent(BASE_TRADE_FRACTION, equity) * Abs(edge)) \div EDGE_THRESHOLD,
            Percent(MAX_TRADE_FRACTION, equity))

ProposeNotional(edge, equity) ==
    IF equity <= 0 \/ Abs(edge) < EDGE_THRESHOLD THEN 0 ELSE Sized(edge, equity)

(* BaseAdapter fees: a share of the notional.                              *)
FeeOf(notional) == (notional * FEE_RATE_BPS) \div 10000

-----------------------------------------------------------------------------
(* The gates *)

Cost(position) == (position.size * position.avg_price) \div 1000

(* What is held already of the order's market on the order's side.         *)
ExistingNotional(state, order) ==
    MapThenSumSet(Cost, {p \in state.positions :
                            p.market = order.market /\ p.side = order.side})

KillSwitchPasses(state, order) == ~state.kill_switch_active

CapitalPasses(state, order) ==
    \/ state.trading_mode = "paper"
    \/ state.gross_exposure_usd + order.notional <= MAX_CAPITAL_EUR

SolvencyPasses(state, order) ==
    order.fee >= 0 /\ state.available >= order.notional + order.fee

SanityPasses(state, order) ==
    /\ order.notional <= Percent(MAX_ORDER_PCT_EQUITY, state.equity)
    /\ PRICE_MIN < order.price /\ order.price < PRICE_MAX
    /\ state.orders_in_last_hour < ORDER_RATE_LIMIT_PER_HOUR

(* Advisory: an order that passes but waits for the operator.              *)
RequiresApproval(state) == Cardinality(state.positions) >= MAX_OPEN_POSITIONS

(* What a capped gate leaves to be opened; it fails when that is nothing.  *)
ConcentrationHeadroom(state, order) ==
    Percent(CONCENTRATION_CAP, state.equity) - ExistingNotional(state, order)

CycleHeadroom(state) ==
    Percent(CYCLE_CAP, state.equity) - state.cycle_notional_opened

-----------------------------------------------------------------------------
(* The agent's composition of the gates (research/prompts/                 *)
(* risk_execution.md).  An obedient agent decides just that; no code       *)
(* computes it, and the Lead orders what the agent returns, unchecked.     *)

Passes(state, order) ==
    /\ KillSwitchPasses(state, order)
    /\ CapitalPasses(state, order)
    /\ SolvencyPasses(state, order)
    /\ SanityPasses(state, order)

(* The smaller of the two clips.                                           *)
Clipped(state, order) ==
    Smaller(order.notional,
            Smaller(ConcentrationHeadroom(state, order), CycleHeadroom(state)))

Action(state, order) ==
    CASE ~Passes(state, order)                                  -> "skip"
      [] RequiresApproval(state) \/ Clipped(state, order) <= 0  -> "hold"
      [] OTHER                                                  -> "trade"
=============================================================================
