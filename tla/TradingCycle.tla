---------------------------- MODULE TradingCycle ----------------------------
(***************************************************************************)
(* bootstrap_team and run_cycle.main: the half-hourly trading cycle as the *)
(* sequence of its transactions, in paper and in real-capital mode.  One   *)
(* process runs at a time (cron every 30 minutes, `timeout 1800`); it may  *)
(* fail or be killed between any two steps, and the next one starts from   *)
(* the database alone.                                                     *)
(*                                                                         *)
(* A decision is identified by its cycle and its market; its idempotency   *)
(* key is the same pair, as in _decision_to_order.  In real-capital mode   *)
(* the adapter is taken by its contract, PlacementLedger, which            *)
(* OrderPlacement implements.                                              *)
(***************************************************************************)
EXTENDS Naturals, FiniteSetsExt

CONSTANTS
    Markets,       \* market ids
    MaxCycles,     \* bound: cycles that are started
    Results,       \* OrderResult statuses the adapter may return
    TradingModes   \* values TRADING_MODE may have when a cycle starts

ASSUME CycleAssumption ==
    /\ MaxCycles \in Nat \ {0}
    /\ Results \subseteq {"filled", "partial", "open", "cancelled", "rejected"}
    /\ TradingModes \subseteq {"paper", "real_capital"}

Cycles == 1 .. MaxCycles
Orders == Cycles \X Markets

VARIABLES
    (* the database *)
    markets,      \* markets with a row
    decisions,    \* <<cycle, market, action>> rows of decisions
    paperTrades,  \* orders with a paper_trades row
    plans,        \* cycle_plan: each cycle's row
    snapshots,    \* cycles with a row in equity_snapshots
    heartbeat,    \* cycle that last wrote last_trading_cycle_at, or 0
    (* the adapter and the venue (PlacementLedger; external) *)
    claim, submissions,
    executed,     \* orders the venue executed
    (* the running process *)
    stage,        \* the next step of the cycle; "off" between cycles
    cycle,        \* number of the cycle, standing for cycle_id
    mode,         \* settings.TRADING_MODE
    prev,         \* cycle of the plan read as prev_plan, or 0
    books,        \* markets with a pre-fetched orderbook
    chosen,       \* the risk agent's decisions: market -> action
    todo,         \* trade decisions the order loop has not reached
    exit          \* how each cycle ended

dbVars     == <<markets, decisions, paperTrades, plans, snapshots, heartbeat>>
venueVars  == <<claim, submissions, executed>>
inputVars  == <<mode, prev, books, chosen>>
vars == <<dbVars, venueVars, stage, cycle, inputVars, todo, exit>>

(* The loop does nothing with an answer that a later step depends on.      *)
Adapter == INSTANCE PlacementLedger WITH
             Keys <- Orders, MaxSubmissions <- 1, answers <- {}

Stages == {"off", "plan", "scan", "trading", "risk", "persist", "orders",
           "placing", "write_plan", "snapshot", "heartbeat"}

Init ==
    /\ markets = {} /\ decisions = {} /\ paperTrades = {}
    /\ plans = [c \in Cycles |-> "none"]
    /\ snapshots = {}
    /\ heartbeat = 0
    /\ Adapter!Init
    /\ executed = {}
    /\ stage = "off" /\ cycle = 0
    /\ mode = "unset" /\ prev = 0 /\ books = {} /\ chosen = <<>> /\ todo = {}
    /\ exit = [c \in Cycles |-> "none"]

(* The process ends with an exit status and forgets what it knew.          *)
ProcessEnds(status) ==
    /\ stage' = "off"
    /\ exit' = [exit EXCEPT ![cycle] = status]
    /\ mode' = "unset" /\ prev' = 0 /\ books' = {}
    /\ chosen' = <<>> /\ todo' = {}

-----------------------------------------------------------------------------
(* _initialize_cycle; the feedback phase it runs is FeedbackPhase.         *)
Start ==
    /\ stage = "off" /\ cycle < MaxCycles
    /\ stage' = "plan"
    /\ cycle' = cycle + 1
    /\ mode' \in TradingModes
    /\ UNCHANGED <<dbVars, venueVars, prev, books, chosen, todo, exit>>

Active == {c \in Cycles : plans[c] = "active"}

(* Slip: the plan's row is inserted up front and filled in later.          *)
LoadPrevPlanReserves ==
    /\ stage = "plan"
    /\ stage' = "scan"
    /\ prev' = IF Active = {} THEN 0 ELSE Max(Active)
    /\ plans' = [plans EXCEPT ![cycle] = "active"]
    /\ UNCHANGED <<markets, decisions, paperTrades, snapshots, heartbeat, venueVars,
                   cycle, mode, books, chosen, todo, exit>>

LoadPrevPlan ==
    /\ stage = "plan"
    /\ stage' = "scan"
    /\ prev' = IF Active = {} THEN 0 ELSE Max(Active)
    /\ UNCHANGED <<dbVars, venueVars, cycle, mode, books, chosen, todo, exit>>

(* The orderbooks fetched here price the orders much later; the universe   *)
(* the scanner keeps is a subset of them, and its markets are upserted.    *)
ScanUniverse ==
    /\ stage = "scan"
    /\ stage' = "trading"
    /\ books' \in SUBSET Markets
    /\ \E universe \in SUBSET books' : markets' = markets \union universe
    /\ UNCHANGED <<decisions, paperTrades, plans, snapshots, heartbeat, venueVars,
                   cycle, mode, prev, chosen, todo, exit>>

TradingAgent ==
    /\ stage = "trading"
    /\ stage' = "risk"
    /\ UNCHANGED <<dbVars, venueVars, cycle, inputVars, todo, exit>>

(* The risk agent is an LLM: nothing limits its decisions to the universe. *)
RiskAgent ==
    /\ stage = "risk"
    /\ stage' = "persist"
    /\ \E ms \in SUBSET Markets : chosen' \in [ms -> {"trade", "skip"}]
    /\ UNCHANGED <<dbVars, venueVars, cycle, mode, prev, books, todo, exit>>

(* Slip: a budget that is also checked while orders are placed.            *)
BudgetAbortsLate ==
    /\ stage \in {"trading", "risk", "orders"}
    /\ ProcessEnds("aborted")
    /\ UNCHANGED <<dbVars, venueVars, cycle>>

(* SubagentBudgetError becomes CycleAbortedError, and exit status 2.       *)
BudgetAbort ==
    /\ stage \in {"trading", "risk"}
    /\ ProcessEnds("aborted")
    /\ UNCHANGED <<dbVars, venueVars, cycle>>

(* Slip: one decision is left out of the transaction.                      *)
PersistSomeDecisions ==
    /\ stage = "persist"
    /\ DOMAIN chosen \subseteq markets
    /\ stage' = "orders"
    /\ \E ms \in SUBSET DOMAIN chosen :
          decisions' = decisions \union {<<cycle, m, chosen[m]>> : m \in ms}
    /\ todo' = {m \in DOMAIN chosen : chosen[m] = "trade"}
    /\ UNCHANGED <<markets, paperTrades, plans, snapshots, heartbeat, venueVars,
                   cycle, inputVars, exit>>

(* One transaction; a decision on a market without a row violates the      *)
(* foreign key, and then the cycle can only fail.                          *)
PersistDecisions ==
    /\ stage = "persist"
    /\ DOMAIN chosen \subseteq markets
    /\ stage' = "orders"
    /\ decisions' = decisions \union {<<cycle, m, chosen[m]>> : m \in DOMAIN chosen}
    /\ todo' = {m \in DOMAIN chosen : chosen[m] = "trade"}
    /\ UNCHANGED <<markets, paperTrades, plans, snapshots, heartbeat, venueVars,
                   cycle, inputVars, exit>>

-----------------------------------------------------------------------------
(* _place_orders_and_collect_trades, one decision at a time.               *)

Done(m) == todo' = todo \ {m}

(* No order: no book, no price inside (0, 1), no notional; or place_order  *)
(* rejects, or raises before it has written anything.                      *)
NoOrder(m) ==
    /\ stage = "orders" /\ m \in todo
    /\ Done(m)
    /\ UNCHANGED <<dbVars, venueVars, stage, cycle, inputVars, exit>>

PaperOrder(m) ==
    /\ stage = "orders" /\ m \in todo \intersect books
    /\ mode = "paper"
    /\ paperTrades' = paperTrades \union {<<cycle, m>>}
    /\ Done(m)
    /\ UNCHANGED <<markets, decisions, plans, snapshots, heartbeat, venueVars,
                   stage, cycle, inputVars, exit>>

(* The order being placed is the one whose claim is held.                  *)
Placing == {k \in Orders : claim[k] = "held"}

RealReserve(m) ==
    /\ stage = "orders" /\ m \in todo \intersect books
    /\ mode = "real_capital"
    /\ Adapter!Claim(<<cycle, m>>)
    /\ stage' = IF claim'[<<cycle, m>>] = "held" THEN "placing" ELSE "orders"
    /\ Done(m)
    /\ UNCHANGED <<dbVars, executed, cycle, inputVars, exit>>

RealSend(k) ==
    /\ stage = "placing" /\ k \in Placing
    /\ Adapter!Send(k)
    /\ UNCHANGED <<dbVars, executed, stage, cycle, inputVars, todo, exit>>

(* The put; a fill is reported only for an executed order.                 *)
RealSettle(k, r) ==
    /\ stage = "placing" /\ k \in Placing
    /\ r \in {"filled", "partial"} => k \in executed
    /\ Adapter!Settle(k, r)
    /\ stage' = "orders"
    /\ UNCHANGED <<dbVars, executed, cycle, inputVars, todo, exit>>

(* place_order raises and leaves the row pending; the loop goes on.        *)
RealAbandon(k) ==
    /\ stage = "placing" /\ k \in Placing
    /\ Adapter!Abandon(k)
    /\ stage' = "orders"
    /\ UNCHANGED <<dbVars, executed, cycle, inputVars, todo, exit>>

(* The venue executes what was sent, or never does; also after the reply   *)
(* was given up for lost.                                                  *)
VenueExecute(k) ==
    /\ submissions[k] > 0 /\ k \notin executed
    /\ executed' = executed \union {k}
    /\ UNCHANGED <<dbVars, claim, submissions, stage, cycle, inputVars, todo, exit>>

EndOrders ==
    /\ stage = "orders" /\ todo = {}
    /\ stage' = "write_plan"
    /\ UNCHANGED <<dbVars, venueVars, cycle, inputVars, todo, exit>>

-----------------------------------------------------------------------------
(* The end of the cycle *)

(* Slip: superseding in a transaction that rolled back.                    *)
PersistCyclePlanOnly ==
    /\ stage = "write_plan"
    /\ stage' = "snapshot"
    /\ plans' = [plans EXCEPT ![cycle] = "active"]
    /\ UNCHANGED <<markets, decisions, paperTrades, snapshots, heartbeat, venueVars,
                   cycle, inputVars, todo, exit>>

(* Supersede the plan read at the start and insert the new one, together.  *)
PersistCyclePlan ==
    /\ stage = "write_plan"
    /\ stage' = "snapshot"
    /\ plans' = [c \in Cycles |-> CASE c = cycle -> "active"
                                    [] c = prev  -> "superseded"
                                    [] OTHER     -> plans[c]]
    /\ UNCHANGED <<markets, decisions, paperTrades, snapshots, heartbeat, venueVars,
                   cycle, inputVars, todo, exit>>

PersistEquitySnapshot ==
    /\ stage = "snapshot"
    /\ stage' = "heartbeat"
    /\ snapshots' = snapshots \union {cycle}
    /\ UNCHANGED <<markets, decisions, paperTrades, plans, heartbeat, venueVars,
                   cycle, inputVars, todo, exit>>

WriteHeartbeat ==
    /\ stage = "heartbeat"
    /\ heartbeat' = cycle
    /\ ProcessEnds("done")
    /\ UNCHANGED <<markets, decisions, paperTrades, plans, snapshots, venueVars, cycle>>

(* Slip: the heartbeat in a `finally`.                                     *)
FailBeats ==
    /\ stage # "off"
    /\ ProcessEnds("failed")
    /\ heartbeat' = cycle
    /\ claim' = [k \in Orders |-> IF k \in Placing THEN "abandoned" ELSE claim[k]]
    /\ UNCHANGED <<markets, decisions, paperTrades, plans, snapshots,
                   submissions, executed, cycle>>

(* An exception nobody catches, a kill, the timeout: the process is gone,  *)
(* and with it the owner of the claim it held.                             *)
Fail ==
    /\ stage # "off"
    /\ ProcessEnds("failed")
    /\ claim' = [k \in Orders |-> IF k \in Placing THEN "abandoned" ELSE claim[k]]
    /\ UNCHANGED <<dbVars, submissions, executed, cycle>>

-----------------------------------------------------------------------------
Next ==
    \/ Start \/ LoadPrevPlan \/ ScanUniverse \/ TradingAgent \/ RiskAgent
    \/ BudgetAbort \/ PersistDecisions
    \/ \E m \in Markets : NoOrder(m) \/ PaperOrder(m) \/ RealReserve(m)
    \/ \E k \in Orders : RealSend(k) \/ RealAbandon(k) \/ VenueExecute(k)
    \/ \E k \in Orders, r \in Results : RealSettle(k, r)
    \/ EndOrders \/ PersistCyclePlan \/ PersistEquitySnapshot \/ WriteHeartbeat
    \/ Fail

Spec == Init /\ [][Next]_vars

-----------------------------------------------------------------------------
(* The types of the variables. *)
TypeOK ==
    /\ markets \subseteq Markets
    /\ decisions \subseteq Cycles \X Markets \X {"trade", "skip"}
    /\ paperTrades \subseteq Orders
    /\ plans \in [Cycles -> {"none", "active", "superseded"}]
    /\ snapshots \subseteq Cycles /\ heartbeat \in 0 .. MaxCycles
    /\ claim \in [Orders -> {"free", "held", "abandoned"} \union Results]
    /\ submissions \in [Orders -> 0 .. 1]
    /\ executed \subseteq Orders
    /\ stage \in Stages /\ cycle \in 0 .. MaxCycles
    /\ mode \in TradingModes \union {"unset"} /\ prev \in 0 .. MaxCycles
    /\ books \subseteq Markets /\ todo \subseteq Markets
    /\ DOMAIN chosen \subseteq Markets
    /\ \A m \in DOMAIN chosen : chosen[m] \in {"trade", "skip"}
    /\ exit \in [Cycles -> {"none", "done", "aborted", "failed"}]

Traded(k) == k \in paperTrades \/ claim[k] # "free" \/ k \in executed

(* Every order, on paper, reserved or executed at the venue, belongs to a  *)
(* committed "trade" decision of its cycle on a market that has a row:     *)
(* lead_bootstrap.py:187-189 writes them first so that the foreign keys    *)
(* hold, and they are there however the cycle ends.                        *)
OrdersFollowDecisions ==
    \A k \in Orders :
        Traded(k) => <<k[1], k[2], "trade">> \in decisions /\ k[2] \in markets

(* From the first plan on, exactly one plan is active and it is the latest *)
(* one, whichever cycles fail or abort between reading the plan to         *)
(* supersede and superseding it (lead_bootstrap.py:777-810).               *)
OneActivePlan ==
    LET planned == {c \in Cycles : plans[c] # "none"}
    IN  planned # {} => Active = {Max(planned)}

(* A cycle that ran out of budget has decided, ordered and planned nothing *)
(* (README.md, budgets): run_cycle exits with 2 before any of it.          *)
AbortLeavesNothing ==
    \A c \in Cycles : exit[c] = "aborted" =>
        /\ plans[c] = "none" /\ heartbeat # c
        /\ \A d \in decisions : d[1] # c
        /\ \A m \in Markets : ~Traded(<<c, m>>)
        /\ c \notin snapshots

(* The heartbeat is only ever the number of a cycle that finished: its     *)
(* plan and its equity snapshot are there and none of its orders is still  *)
(* being placed (run_cycle.py:126-128).                                    *)
HeartbeatMeansComplete ==
    heartbeat # 0 =>
        /\ plans[heartbeat] # "none"
        /\ heartbeat \in snapshots
        /\ \A m \in Markets : claim[<<heartbeat, m>>] # "held"
        /\ exit[heartbeat] = "done"

(* The plan closes the cycle's trading: once it is written, no order of    *)
(* that cycle is placed, sent or settled any more.                         *)
NoOrderAfterPlan ==
    [][\A k \in Orders :
         plans[k[1]] # "none" =>
            /\ claim'[k] = claim[k] /\ submissions'[k] = submissions[k]
            /\ k \in paperTrades' <=> k \in paperTrades]_vars

-----------------------------------------------------------------------------
(* "a process crash between POST /order and the subsequent put cannot let  *)
(* the next cycle re-submit the same logical order"                        *)
(* (db_idempotency_store.py:3-5, README.md:175): when a cycle died with an *)
(* order it had sent and not recorded, and the venue executed it, the next *)
(* cycle's order on that market is not executed too.                       *)
CrashCannotDoublePlace ==
    \A m \in Markets, c \in Cycles \ {MaxCycles} :
        /\ exit[c] = "failed"
        /\ claim[<<c, m>>] = "abandoned" /\ <<c, m>> \in executed
        => <<c + 1, m>> \notin executed
=============================================================================
