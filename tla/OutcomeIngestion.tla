--------------------------- MODULE OutcomeIngestion ---------------------------
(***************************************************************************)
(* outcome_ingestion.run_once, run by the hourly cron and inline by every  *)
(* trading cycle, both of them at minute 0: two runs and a trading cycle   *)
(* share the predictions, the paper trades and the high-water mark.        *)
(* Each `with factory() as session` is one transaction, and in IngestMarket*)
(* the first UPDATE locks the market's unresolved predictions, so that two *)
(* runs on one market follow one another.                                  *)
(*                                                                         *)
(* Time is the coarse clock that end dates and the mark are compared by;   *)
(* at MaxTime it stands still while the runs go on.                        *)
(***************************************************************************)
EXTENDS Naturals

CONSTANTS
    Markets,      \* market ids
    MaxTime,      \* bound: the clock
    MaxCycles,    \* bound: trading cycles that write predictions
    MaxFailures,  \* bound: runs and cycles that fail or are killed
    Lookback,     \* lookback_days: where a first run starts
    NoMark        \* the high-water mark before any run

ASSUME IngestionAssumption ==
    /\ MaxTime \in Nat /\ MaxCycles \in Nat /\ MaxFailures \in Nat
    /\ Lookback \in Nat /\ Lookback >= MaxTime
    /\ NoMark \notin Nat

Runs == {"cron", "inline"}
Times == 0 .. MaxTime
Predictions == Markets \X (1 .. MaxCycles)

VARIABLES
    (* the world and Gamma (external) *)
    clock,
    end,        \* each market's end date
    gamma,      \* "open", "closed" without an outcome, or the outcome
    (* the database *)
    outcome,    \* predictions.outcome; "absent" while there is no row
    trade,      \* the side of the prediction's paper trade, or "none"
    won,        \* its realized_pnl: "null", "won" or "lost"
    pnl,        \* predictions.realized_pnl: "null", "zero", "won", "lost"
    hwm,        \* system_state.last_outcome_ingestion_at
    (* the two runs *)
    phase, now, since, todo, market,
    (* the trading cycle *)
    cycle,      \* the cycle that runs, or ran last
    stage,      \* "off", "chosen", "written"
    universe,   \* the markets it predicts
    (* bookkeeping *)
    failures,
    late        \* predictions a run can no longer be blamed for (see Settle)

worldVars == <<clock, end, gamma>>
rowVars   == <<outcome, trade, won, pnl>>
runVars   == <<phase, now, since, todo, market>>
cycleVars == <<cycle, stage, universe>>
vars == <<worldVars, rowVars, hwm, runVars, cycleVars, failures, late>>

Outcomes == {"yes", "no"}
Settled(m) == gamma[m] \in Outcomes
Of(m) == {q \in Predictions : q[1] = m}

Init ==
    /\ clock = 0
    /\ end \in [Markets -> Times]
    /\ gamma = [m \in Markets |-> "open"]
    /\ outcome = [q \in Predictions |-> "absent"]
    /\ trade = [q \in Predictions |-> "none"]
    /\ won = [q \in Predictions |-> "null"]
    /\ pnl = [q \in Predictions |-> "null"]
    /\ hwm = NoMark
    /\ phase = [r \in Runs |-> "idle"]
    /\ now = [r \in Runs |-> 0]
    /\ since = [r \in Runs |-> 0]
    /\ todo = [r \in Runs |-> {}]
    /\ market = [r \in Runs |-> "none"]
    /\ cycle = 0 /\ stage = "off" /\ universe = {}
    /\ failures = 0
    /\ late = {}

-----------------------------------------------------------------------------
(* The world *)

Tick ==
    /\ clock < MaxTime
    /\ clock' = clock + 1
    /\ UNCHANGED <<end, gamma, rowVars, hwm, runVars, cycleVars, failures, late>>

Close(m) ==
    /\ gamma[m] = "open"
    /\ gamma' = [gamma EXCEPT ![m] = "closed"]
    /\ UNCHANGED <<clock, end, rowVars, hwm, runVars, cycleVars, failures, late>>

(* A run that began after the end date, or has moved the mark beyond it.   *)
PastEnd(m) ==
    \/ hwm # NoMark /\ hwm > end[m]
    \/ \E r \in Runs : phase[r] # "idle" /\ now[r] > end[m]

(* Gamma reports the outcome, before or after the end date.  The market's  *)
(* predictions are late if a run beyond its end date does not know it yet. *)
Settle(m) ==
    /\ gamma[m] \in {"open", "closed"}
    /\ \E o \in Outcomes : gamma' = [gamma EXCEPT ![m] = o]
    /\ late' = IF PastEnd(m) THEN late \union Of(m) ELSE late
    /\ UNCHANGED <<clock, end, rowVars, hwm, runVars, cycleVars, failures>>

-----------------------------------------------------------------------------
(* run_once.  The inline run belongs to a trading cycle's process, and is  *)
(* over before that cycle predicts anything.                               *)

StartRun(r) ==
    /\ phase[r] = "idle"
    /\ r = "inline" => stage = "off"
    /\ phase' = [phase EXCEPT ![r] = "read"]
    /\ now' = [now EXCEPT ![r] = clock]
    /\ UNCHANGED <<worldVars, rowVars, hwm, since, todo, market, cycleVars,
                   failures, late>>

Fallback(t) == IF t > Lookback THEN t - Lookback ELSE 0

ReadHighWaterMark(r) ==
    /\ phase[r] = "read"
    /\ phase' = [phase EXCEPT ![r] = "list"]
    /\ since' = [since EXCEPT ![r] = IF hwm = NoMark THEN Fallback(now[r]) ELSE hwm]
    /\ UNCHANGED <<worldVars, rowVars, hwm, now, todo, market, cycleVars,
                   failures, late>>

(* Slip: a mark taken to be exclusive.                                     *)
ListAfterMark(r) ==
    /\ phase[r] = "list"
    /\ phase' = [phase EXCEPT ![r] = "next"]
    /\ todo' = [todo EXCEPT ![r] =
                  {m \in Markets : gamma[m] # "open" /\ end[m] > since[r]}]
    /\ UNCHANGED <<worldVars, rowVars, hwm, now, since, market, cycleVars,
                   failures, late>>

(* closed=true, and the end date, which is taken for the time of the       *)
(* resolution, is not before the mark.                                     *)
ListResolvedMarkets(r) ==
    /\ phase[r] = "list"
    /\ phase' = [phase EXCEPT ![r] = "next"]
    /\ todo' = [todo EXCEPT ![r] =
                  {m \in Markets : gamma[m] # "open" /\ end[m] >= since[r]}]
    /\ UNCHANGED <<worldVars, rowVars, hwm, now, since, market, cycleVars,
                   failures, late>>

(* get_resolution: a market without an outcome is passed over.             *)
GetResolution(r, m) ==
    /\ phase[r] = "next" /\ m \in todo[r]
    /\ todo' = [todo EXCEPT ![r] = @ \ {m}]
    /\ IF Settled(m)
       THEN /\ phase' = [phase EXCEPT ![r] = "update"]
            /\ market' = [market EXCEPT ![r] = m]
       ELSE UNCHANGED <<phase, market>>
    /\ UNCHANGED <<worldVars, rowVars, hwm, now, since, cycleVars, failures, late>>

(* Slip: the payout of a YES share for either side.                        *)
ResultOfYes(side, o) == IF o = "yes" THEN "won" ELSE "lost"

(* realized_pnl's sign, by the side that was bought.                       *)
Result(side, o) == IF side = o THEN "won" ELSE "lost"

(* Slip: the predictions are summed before their trades have a PnL.        *)
SumBeforeTrades(r) ==
    LET m == market[r]
        o == gamma[m]
        Fresh(q)   == q[1] = m /\ outcome[q] = "null"
        Unpaid(q)  == q[1] = m /\ trade[q] # "none" /\ won[q] = "null"
    IN  /\ phase[r] = "update"
        /\ outcome' = [q \in Predictions |-> IF Fresh(q) THEN o ELSE outcome[q]]
        /\ won' = [q \in Predictions |-> IF Unpaid(q) THEN Result(trade[q], o) ELSE won[q]]
        /\ pnl' = [q \in Predictions |->
                     IF q[1] # m \/ outcome[q] = "absent" \/ pnl[q] # "null" THEN pnl[q]
                     ELSE IF won[q] = "null" THEN "zero" ELSE won[q]]
        /\ phase' = [phase EXCEPT ![r] = "next"]
        /\ market' = [market EXCEPT ![r] = "none"]
        /\ UNCHANGED <<worldVars, trade, hwm, now, since, todo, cycleVars,
                       failures, late>>

(* The transaction: outcomes, then the trades' PnL, then each resolved     *)
(* prediction's own PnL, which is set once.                                *)
IngestMarket(r) ==
    LET m == market[r]
        o == gamma[m]
        Fresh(q)   == q[1] = m /\ outcome[q] = "null"
        Unpaid(q)  == q[1] = m /\ trade[q] # "none" /\ won[q] = "null"
        Due(q)     == q[1] = m /\ outcome[q] # "absent" /\ pnl[q] = "null"
        won1(q)    == IF Unpaid(q) THEN Result(trade[q], o) ELSE won[q]
    IN  /\ phase[r] = "update"
        /\ outcome' = [q \in Predictions |-> IF Fresh(q) THEN o ELSE outcome[q]]
        /\ won' = [q \in Predictions |-> won1(q)]
        /\ pnl' = [q \in Predictions |->
                     IF ~Due(q) THEN pnl[q]
                     ELSE IF won1(q) = "null" THEN "zero" ELSE won1(q)]
        /\ phase' = [phase EXCEPT ![r] = "next"]
        /\ market' = [market EXCEPT ![r] = "none"]
        /\ UNCHANGED <<worldVars, trade, hwm, now, since, todo, cycleVars,
                       failures, late>>

(* The run leaves nothing behind but the mark and its rows.                *)
Over(r) ==
    /\ phase' = [phase EXCEPT ![r] = "idle"]
    /\ now' = [now EXCEPT ![r] = 0]
    /\ since' = [since EXCEPT ![r] = 0]
    /\ todo' = [todo EXCEPT ![r] = {}]
    /\ market' = [market EXCEPT ![r] = "none"]

(* Slip: the mark is the time the run ends.                                *)
WriteMarkAtEnd(r) ==
    /\ phase[r] = "next" /\ todo[r] = {}
    /\ hwm' = clock
    /\ Over(r)
    /\ UNCHANGED <<worldVars, rowVars, cycleVars, failures, late>>

(* The mark is the time the run began, whatever it is by now and whatever  *)
(* the other run has written.                                              *)
WriteHighWaterMark(r) ==
    /\ phase[r] = "next" /\ todo[r] = {}
    /\ hwm' = now[r]
    /\ Over(r)
    /\ UNCHANGED <<worldVars, rowVars, cycleVars, failures, late>>

(* A Gamma or database error, or a kill: the mark stays.                   *)
FailRun(r) ==
    /\ phase[r] # "idle" /\ failures < MaxFailures
    /\ failures' = failures + 1
    /\ Over(r)
    /\ UNCHANGED <<worldVars, rowVars, hwm, cycleVars, late>>

-----------------------------------------------------------------------------
(* The trading cycle, as far as it writes the rows.                        *)

(* The scanner keeps open markets whose end date is hours away.            *)
ChooseUniverse ==
    /\ stage = "off" /\ cycle < MaxCycles /\ phase["inline"] = "idle"
    /\ cycle' = cycle + 1
    /\ stage' = "chosen"
    /\ universe' \in
          SUBSET {m \in Markets : gamma[m] = "open" /\ end[m] > clock}
    /\ UNCHANGED <<worldVars, rowVars, hwm, runVars, failures, late>>

(* Predictions and decisions, in one transaction.  A market may have been  *)
(* settled and ingested since it was chosen.                               *)
PersistPredictions ==
    LET new == universe \X {cycle} IN
    /\ stage = "chosen"
    /\ stage' = "written"
    /\ outcome' = [q \in Predictions |-> IF q \in new THEN "null" ELSE outcome[q]]
    /\ late' = late \union {q \in new : Settled(q[1])}
    /\ UNCHANGED <<worldVars, trade, won, pnl, hwm, runVars, cycle, universe,
                   failures>>

PaperTrade(m, side) ==
    LET q == <<m, cycle>> IN
    /\ stage = "written" /\ m \in universe
    /\ trade[q] = "none"
    /\ trade' = [trade EXCEPT ![q] = side]
    /\ UNCHANGED <<worldVars, outcome, won, pnl, hwm, runVars, cycleVars,
                   failures, late>>

EndCycle ==
    /\ stage # "off"
    /\ stage' = "off" /\ universe' = {}
    /\ UNCHANGED <<worldVars, rowVars, hwm, runVars, cycle, failures, late>>

-----------------------------------------------------------------------------
(* The steps of a run that end it if they are taken.                       *)
RunStep(r) ==
    \/ StartRun(r) \/ ReadHighWaterMark(r) \/ ListResolvedMarkets(r)
    \/ \E m \in Markets : GetResolution(r, m)
    \/ IngestMarket(r) \/ WriteHighWaterMark(r)

Next ==
    \/ Tick
    \/ \E m \in Markets : Close(m) \/ Settle(m)
    \/ \E r \in Runs : RunStep(r) \/ FailRun(r)
    \/ ChooseUniverse \/ PersistPredictions \/ EndCycle
    \/ \E m \in Markets, side \in Outcomes : PaperTrade(m, side)

Spec == Init /\ [][Next]_vars

(* cron starts a run every hour and a started run goes on.  Nothing is     *)
(* asked of Gamma, of the clock, of the trading cycle or of the inline run.*)
FairSpec == Spec /\ WF_vars(RunStep("cron"))

-----------------------------------------------------------------------------
(* The types of the variables. *)
TypeOK ==
    /\ clock \in Times /\ end \in [Markets -> Times]
    /\ gamma \in [Markets -> {"open", "closed"} \union Outcomes]
    /\ outcome \in [Predictions -> {"absent", "null"} \union Outcomes]
    /\ trade \in [Predictions -> {"none"} \union Outcomes]
    /\ won \in [Predictions -> {"null", "won", "lost"}]
    /\ pnl \in [Predictions -> {"null", "zero", "won", "lost"}]
    /\ hwm \in Times \union {NoMark}
    /\ phase \in [Runs -> {"idle", "read", "list", "next", "update"}]
    /\ now \in [Runs -> Times] /\ since \in [Runs -> Times]
    /\ todo \in [Runs -> SUBSET Markets]
    /\ market \in [Runs -> Markets \union {"none"}]
    /\ cycle \in 0 .. MaxCycles /\ stage \in {"off", "chosen", "written"}
    /\ universe \subseteq Markets
    /\ failures \in 0 .. MaxFailures /\ late \subseteq Predictions

(* What the two runs write of one market agrees, in whatever order they    *)
(* and the trading cycle interleave and wherever a run dies: a prediction  *)
(* has its outcome if and only if it has its PnL, the outcome is Gamma's,  *)
(* and no trade has a PnL that its prediction's outcome contradicts.       *)
GroundTruthAgrees ==
    \A q \in Predictions :
        /\ outcome[q] \in Outcomes <=> pnl[q] # "null"
        /\ outcome[q] \in Outcomes => outcome[q] = gamma[q[1]]
        /\ won[q] # "null" => (won[q] = "won" <=> trade[q] = outcome[q])

(* A prediction's PnL counts every trade that was in the table before its  *)
(* outcome, and keeps it, whichever run updates the market, after whatever *)
(* failures, and whichever comes after: the sum is made once               *)
(* (outcome_ingestion.py:177), so only a later trade can be missing in it. *)
EarlyTradesCount ==
    \A q \in Predictions :
        [](trade[q] # "none" /\ outcome[q] = "null" => [](pnl[q] = won[q]))

(* The high-water mark leaves no prediction behind (trading_feedback.md:53,*)
(* "a re-run after a partial failure is safe"), however many runs fail and *)
(* in whatever order two of them finish: a prediction of a settled market  *)
(* that no future run will list is unresolved only if the market settled   *)
(* too late for a run beyond its end date, or the row came after that.     *)
MissedOnlyIfLate ==
    \A q \in Predictions :
        /\ outcome[q] = "null" /\ Settled(q[1])
        /\ hwm # NoMark /\ hwm > end[q[1]]
        => q \in late

Unresolved(q) == outcome[q] = "null" /\ Settled(q[1])

(* A prediction that was there when its market settled, with no run beyond *)
(* the market's end date, is resolved in the end.                          *)
InTimeIsIngested ==
    \A q \in Predictions :
        Unresolved(q) /\ q \notin late ~> outcome[q] \in Outcomes
=============================================================================
