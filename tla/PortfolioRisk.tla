---------------------------- MODULE PortfolioRisk ----------------------------
(***************************************************************************)
(* The money of the trading cycle: what bootstrap_team reads of the        *)
(* account, the switch and the books before it calls the agents, how the   *)
(* agents' decisions are sized and gated against that snapshot, and the    *)
(* orders placed from it, minutes later.  TradingCycle models the cycle's  *)
(* transactions; here the amounts are modelled and the plan is not.        *)
(*                                                                         *)
(* The agents are LLMs and external.  The trading agent may predict        *)
(* anything about the markets of its universe; the risk agent is taken to  *)
(* obey its prompt, RiskGates, one decision for each prediction.  The Lead *)
(* orders the notional that agent returns and checks it against nothing    *)
(* (_decision_notional): what is said of amounts rests on its obedience.   *)
(***************************************************************************)
EXTENDS RiskGates, Sequences

CONSTANTS
    Markets,                \* market ids
    MaxCycles,              \* bound: cycles that are started
    PAPER_STARTING_CASH_USD,
    TOP_K_MARKETS, UNIVERSE_FETCH_LIMIT,
    TradingModes,           \* values TRADING_MODE may have when a cycle starts
    Books,                  \* [bid, ask, depth] an orderbook may show
    Views,                  \* [edge, q]: a prediction's edge and quote
    Ledgers,                \* sets of positions rows the table may hold
    EarlierSpent            \* bound: notionals the account may have open already

(* Prices and sizes are in the ranges of shared/models/market.py and       *)
(* portfolio.py, an edge may be any number, and the venue lists finitely   *)
(* many markets and no crossed book.                                       *)
ASSUME RiskAssumption ==
    /\ MaxCycles \in Nat \ {0} /\ IsFiniteSet(Markets)
    /\ PAPER_STARTING_CASH_USD \in Nat
    /\ TOP_K_MARKETS \in Nat /\ UNIVERSE_FETCH_LIMIT \in Nat
    /\ TradingModes \subseteq {"paper", "real_capital"}
    /\ \A b \in Books : /\ {b.bid, b.ask, b.depth} \subseteq Nat
                        /\ b.bid < b.ask /\ b.ask <= 1000
    /\ \A v \in Views : v.edge \in Int
    /\ \A l \in Ledgers : /\ IsFiniteSet(l)
                          /\ \A p \in l : {p.size, p.avg_price} \subseteq Nat
    /\ EarlierSpent \subseteq Nat

Cycles == 1 .. MaxCycles
Sides  == {"yes", "no"}

(* The jsonb values an operator may have put under 'kill_switch'.          *)
SwitchRows == {"absent", "true", "false", "active_true", "active_false"}

VARIABLES
    (* the database *)
    killSwitch,   \* the system_state row; the operator's
    switchedIn,   \* the cycle in which the switch was last set, 0 if cleared
    positions,    \* open rows of positions; no code inserts into it
    earlier,      \* notional of unfinished paper trades of cycles before these
    paperTrades,  \* rows of paper_trades
    realOrders,   \* <<cycle, market>> the venue took; nothing writes trades
    (* the running process *)
    stage, cycle,
    mode,         \* settings.TRADING_MODE
    books,        \* the pre-fetched orderbooks, by market
    portfolio,    \* the PortfolioState
    proposals,    \* the trading agent's views that were sized, by market
    orders        \* "trade" decisions still to be placed, by market

dbVars  == <<killSwitch, switchedIn, positions, earlier, paperTrades, realOrders>>
runVars == <<mode, books, portfolio, proposals, orders>>
vars == <<dbVars, stage, cycle, runVars>>

NoPortfolio == "none"
Nothing == [m \in {} |-> 0]

Init ==
    /\ killSwitch \in SwitchRows
    /\ switchedIn = 0
    /\ positions \in Ledgers /\ earlier \in EarlierSpent
    /\ paperTrades = {} /\ realOrders = {}
    /\ stage = "off" /\ cycle = 0
    /\ mode = "unset" /\ books = Nothing /\ portfolio = NoPortfolio
    /\ proposals = Nothing /\ orders = Nothing

(* Slip: only a bare jsonb boolean is understood.                          *)
SwitchReadsBare(row) == row = "true"

(* _load_kill_switch: a bare value, or the "active" key of an object.      *)
SwitchReads(row) == row \in {"true", "active_true"}

(* What the operator means by the row.                                     *)
SwitchIsSet == killSwitch \in {"true", "active_true"}

(* The operator writes the row, at any time.                               *)
OperatorSwitches ==
    /\ killSwitch' \in SwitchRows \ {killSwitch}
    /\ switchedIn' = IF SwitchIsSet' THEN (IF SwitchIsSet THEN switchedIn ELSE cycle) ELSE 0
    /\ UNCHANGED <<positions, earlier, paperTrades, realOrders, stage, cycle, runVars>>

-----------------------------------------------------------------------------
(* Collection *)

Held == {p.market : p \in positions}

Spends(row) == row.notional

(* Slip: partial fills are taken for finished, and nothing ever is open.   *)
SpentOpenOnly == 0

(* _load_cash_balance: only unfinished rows count.  In real-capital mode   *)
(* it asks the table trades, which is empty.                               *)
Spent ==
    IF mode = "paper"
    THEN earlier + MapThenSumSet(Spends, {r \in paperTrades :
                                    r.status \in {"open", "pending", "partial"}})
    ELSE 0

AvailableCash ==
    IF Spent >= PAPER_STARTING_CASH_USD THEN 0 ELSE PAPER_STARTING_CASH_USD - Spent

(* Slip: only the real mode's table is counted.                            *)
OrdersInTrades == 0

(* A cycle every half hour: rows of the last two are younger than an hour. *)
OrdersInLastHour == Cardinality({r \in paperTrades : r.cycle + 2 >= cycle})

(* _assemble_portfolio_state marks the positions that have a book.         *)
Unrealized(bs) ==
    MapThenSumSet(
        LAMBDA p : (p.size * (IF p.side = "yes"
                              THEN bs[p.market].bid - p.avg_price
                              ELSE 1000 - bs[p.market].ask - p.avg_price)) \div 1000,
        {p \in positions : p.market \in DOMAIN bs})

(* trading_mode is not passed and takes its default; nothing ever adds to  *)
(* cycle_notional_opened.                                                  *)
Portfolio(bs) ==
    [available             |-> AvailableCash,
     positions             |-> positions,
     gross_exposure_usd    |-> MapThenSumSet(Cost, positions),
     equity                |-> PAPER_STARTING_CASH_USD + Unrealized(bs),
     cycle_notional_opened |-> 0,
     kill_switch_active    |-> SwitchReads(killSwitch),
     trading_mode          |-> "paper",
     orders_in_last_hour   |-> OrdersInLastHour]

(* _collect_universe_inputs: the venue lists what it likes in its order,   *)
(* so which candidates the fetch limit cuts is anybody's guess; a market   *)
(* whose book cannot be had is left without one.                           *)
Fetched == {ms \in SUBSET Markets : Cardinality(ms) <= UNIVERSE_FETCH_LIMIT}

Start ==
    /\ stage = "off" /\ cycle < MaxCycles
    /\ stage' = "collect"
    /\ cycle' = cycle + 1
    /\ mode' \in TradingModes
    /\ UNCHANGED <<dbVars, books, portfolio, proposals, orders>>

Collect ==
    /\ stage = "collect"
    /\ stage' = "trading"
    /\ \E ms \in Fetched : books' \in [ms -> Books]
    /\ portfolio' = Portfolio(books')
    /\ UNCHANGED <<dbVars, cycle, mode, proposals, orders>>

(* _python_scanner: held markets first, with or without a book, then the   *)
(* candidates that pass its filters, cut at top_k.                         *)
Universe(ms) ==
    /\ ms \subseteq DOMAIN books \union Held
    /\ Cardinality(ms) <= TOP_K_MARKETS
    /\ ms \subseteq Held \/ DOMAIN books \intersect Held \subseteq ms

(* The trading agent predicts, _build_sizing_proposals sizes.  An edge too *)
(* small to be sized leaves no proposal.                                   *)
TradingAgent ==
    /\ stage = "trading"
    /\ stage' = "risk"
    /\ \E u \in SUBSET Markets : Universe(u) /\
         \E ms \in SUBSET u : proposals' \in
            [ms -> {v \in Views : ProposeNotional(v.edge, portfolio.equity) > 0}]
    /\ UNCHANGED <<dbVars, cycle, mode, books, portfolio, orders>>

-----------------------------------------------------------------------------
(* Decisions and orders *)

SideOf(view) == IF view.edge > 0 THEN "yes" ELSE "no"

(* The order the gates are asked about.                                    *)
Proposal(m) ==
    LET v == proposals[m]
        n == ProposeNotional(v.edge, portfolio.equity)
    IN  [market   |-> m, side |-> SideOf(v), notional |-> n,
         price    |-> IF SideOf(v) = "yes" THEN v.q ELSE 1000 - v.q,
         fee      |-> FeeOf(n)]

RiskAgent ==
    /\ stage = "risk"
    /\ stage' = "orders"
    /\ orders' = [m \in {k \in DOMAIN proposals : Action(portfolio, Proposal(k)) = "trade"} |->
                    [side |-> Proposal(m).side, notional |-> Clipped(portfolio, Proposal(m))]]
    /\ UNCHANGED <<dbVars, cycle, mode, books, portfolio, proposals>>

(* _decision_to_order: a limit at the far side of the pre-fetched book.    *)
Limit(m) == IF orders[m].side = "yes" THEN books[m].ask ELSE books[m].bid
SizeOf(m) == (orders[m].notional * 1000) \div Limit(m)

HasOrder(m) == m \in DOMAIN books /\ Limit(m) \in 1 .. 999

Done(m) == orders' = [k \in DOMAIN orders \ {m} |-> orders[k]]

Quote(m, book) == IF orders[m].side = "yes" THEN book.ask ELSE book.bid

(* Slip: the order fills at the new quote, limit or no limit.              *)
FillsAtMarket(m, book) == book.depth > 0

(* _simulate_fak_fill: the limit still reaches the top of the book.        *)
Marketable(m, book) ==
    /\ IF orders[m].side = "yes" THEN Limit(m) >= book.ask ELSE Limit(m) <= book.bid
    /\ Smaller(SizeOf(m), book.depth) > 0

(* Slip: what the book cannot fill stays open on it.                       *)
RestingStatus(filled, m) == IF filled >= SizeOf(m) THEN "filled" ELSE "open"

(* Fill and kill: the rest is cancelled.                                   *)
FillStatus(filled, m) == IF filled >= SizeOf(m) THEN "filled" ELSE "partial"

(* PaperTradingAdapter.place_order, against the book of the moment.        *)
PaperOrder(m, book) ==
    LET filled == Smaller(SizeOf(m), book.depth)
    IN  /\ stage = "orders" /\ m \in DOMAIN orders
        /\ mode = "paper" /\ HasOrder(m) /\ Marketable(m, book)
        /\ paperTrades' = paperTrades \union
              {[cycle    |-> cycle, market |-> m, side |-> orders[m].side,
                notional |-> (filled * Quote(m, book)) \div 1000,
                price    |-> Quote(m, book),
                status   |-> FillStatus(filled, m),
                decided  |-> orders[m].notional, limit |-> Limit(m)]}
        /\ Done(m)
        /\ UNCHANGED <<killSwitch, switchedIn, positions, earlier, realOrders, stage,
                       cycle, mode, books, portfolio, proposals>>

(* PolymarketAdapter.place_order, by what the venue made of it.            *)
RealOrder(m) ==
    /\ stage = "orders" /\ m \in DOMAIN orders
    /\ mode = "real_capital" /\ HasOrder(m)
    /\ realOrders' = realOrders \union {<<cycle, m>>}
    /\ Done(m)
    /\ UNCHANGED <<killSwitch, switchedIn, positions, earlier, paperTrades, stage,
                   cycle, mode, books, portfolio, proposals>>

(* No book or price to order at, a rejection, or an exception.             *)
NoOrder(m) ==
    /\ stage = "orders" /\ m \in DOMAIN orders
    /\ Done(m)
    /\ UNCHANGED <<dbVars, stage, cycle, mode, books, portfolio, proposals>>

(* The cycle is over: done, failed, killed or out of time.                 *)
Ends ==
    /\ stage # "off"
    /\ stage' = "off"
    /\ mode' = "unset" /\ books' = Nothing /\ portfolio' = NoPortfolio
    /\ proposals' = Nothing /\ orders' = Nothing
    /\ UNCHANGED <<dbVars, cycle>>

Next ==
    \/ OperatorSwitches \/ Start \/ Collect \/ TradingAgent \/ RiskAgent
    \/ \E m \in Markets, book \in Books : PaperOrder(m, book)
    \/ \E m \in Markets : RealOrder(m) \/ NoOrder(m)
    \/ Ends

Spec == Init /\ [][Next]_vars

-----------------------------------------------------------------------------
(* The types of the variables. *)
TypeOK ==
    /\ killSwitch \in SwitchRows /\ switchedIn \in 0 .. MaxCycles
    /\ positions \in Ledgers
    /\ \A r \in paperTrades :
          /\ r.cycle \in 1 .. cycle /\ r.market \in Markets /\ r.side \in Sides
          /\ r.notional \in Nat /\ r.decided \in Nat \ {0}
          /\ r.status \in {"filled", "partial"}
          /\ {r.price, r.limit} \subseteq 1 .. 999
    /\ realOrders \subseteq Cycles \X Markets
    /\ stage \in {"off", "collect", "trading", "risk", "orders"}
    /\ cycle \in 0 .. MaxCycles /\ mode \in TradingModes \union {"unset"}
    /\ DOMAIN orders \subseteq DOMAIN proposals
    /\ DOMAIN proposals \union DOMAIN books \subseteq Markets

(* Setting the kill switch halts trading from the next cycle on, in both   *)
(* modes: while it stays set, only the cycle that was already running when *)
(* it was set, which read the row before its agents ran, still trades      *)
(* (lead_bootstrap.py:873).                                                *)
KillSwitchHaltsNextCycle ==
    SwitchIsSet =>
        /\ \A r \in paperTrades : r.cycle <= switchedIn
        /\ \A o \in realOrders : o[1] <= switchedIn

(* More than the hourly limit is never placed within an hour by more than  *)
(* one cycle's orders: the rows are counted once, before the cycle adds    *)
(* its own (lead_bootstrap.py:989-1007).                                   *)
RateOverrunBounded ==
    \A c \in Cycles :
        Cardinality({r \in paperTrades : r.cycle \in c - 2 .. c})
            <= ORDER_RATE_LIMIT_PER_HOUR - 1 + TOP_K_MARKETS

(* Every paper order was affordable, fee included, from the cash that the  *)
(* unfinished fills of all earlier cycles had left, although the orders of *)
(* one cycle are not checked against each other (lead_bootstrap.py:952).   *)
AffordableAtCollection ==
    \A r \in paperTrades :
        r.decided + FeeOf(r.decided) + earlier
            + MapThenSumSet(Spends, {p \in paperTrades :
                                        p.status = "partial" /\ p.cycle < r.cycle})
        <= PAPER_STARTING_CASH_USD

(* However the books move during the two LLM calls, a stale limit is only  *)
(* ever rejected or improved on: YES is bought no dearer and NO sold no    *)
(* cheaper than the book the order was priced by, and a YES fill costs no  *)
(* more than what was decided (lead_bootstrap.py:1112).                    *)
StaleBooksOnlyReject ==
    \A r \in paperTrades :
        IF r.side = "yes" THEN r.price <= r.limit /\ r.notional <= r.decided
                          ELSE r.price >= r.limit

-----------------------------------------------------------------------------
(* A claim the repository makes that the code does not keep.               *)

(* "`MAX_CAPITAL_EUR: Final` rejects any order pushing gross deployed      *)
(* capital above the constitutional ceiling" (specs/trading.md:133): with  *)
(* the ceiling at its 0, no order reaches the venue.                       *)
NoCapitalDeployed == realOrders = {}
=============================================================================
