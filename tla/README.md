# TLA+ models of autonomous-trading

This directory models the trading system of this repository in TLA+: TLC checks
the models on small instances, and TLAPS proves every safety property they keep
for every value of the constants. Paths below are relative to the repository root;
every definition that models code is listed in `PROJECT.json` with the lines it
models.

Run, in this directory: `tlc -config MCOrderPlacement.cfg MCOrderPlacement.tla`
(likewise for every run of `PROJECT.json`) and `tlapm OrderPlacementProofs.tla`
(likewise for every module whose name ends in `Proofs`).

## 1. The system

Cron starts short-lived processes; PostgreSQL is all they share. Every
`with factory() as session` is one transaction, committed when the block ends
(`src/shared/db.py:39-55`). `infra/scripts/run_cycle.sh` kills a trading cycle, an
ingestion or a lessons run after 30 minutes; `run_evaluation.sh` sets no limit.

| Component | State | Operations | Talks to |
| --- | --- | --- | --- |
| Trading cycle (`execution/lead_bootstrap.py`, `run_cycle.py`), every 30 min | `markets`, `predictions`, `decisions`, `notes`, `cycle_plan`, `equity_snapshots`, heartbeat | feedback phase, load plan, scan, trading agent, risk agent, persist, place orders, write plan, snapshot, heartbeat | adapters, two LLM agents, the database |
| Order placement (`shared/adapters/polymarket.py`) | API credentials in memory | `place_order` with retries | idempotency store, the CLOB |
| Idempotency store (`db_idempotency_store.py`) | `order_attempts` | `get`, `reserve`, `put` | the database |
| Paper adapter (`paper_trading.py`) | `paper_trades` | `place_order` on the live book | live adapter, the database |
| Outcome ingestion (`outcome_ingestion.py`), hourly and inline | outcomes and PnL columns, high-water mark | `run_once` | Gamma, the database |
| Lessons summary (`research/skills/lessons_summary.py`), daily and inline | `lessons`, high-water mark | `run_once` | the database |
| Inline feedback phase (`feedback_phase.py`) | worker threads | ingestion, lessons, Tier-1 evaluation, each with a timeout | the two jobs above |
| Risk gates, sizing, scanner (`src/risk/`, `lead_bootstrap.py`) | a snapshot of cash, positions, books, kill switch and order rate, taken once in a cycle | sizing, six gates, the universe | the cycle computes the snapshot and the sizes; the risk agent applies the gates |
| Cycle plan (`cycle_plan.py`) | the active row of `cycle_plan` | synthesis from the cycle's lists and the last plan | the cycle |
| Evaluation cycle (`evaluation_bootstrap.py`), hourly | `agent_performance`, mark | three agents, rows, mark | the database |
| Subagent runner (`subagent_runner.py`) | `subagent_runs` | subprocess with timeout and budget, audit row | the CLI |
| Notes tool (`notes_tool.py`) | `notes`, at most 50 per agent | read, write with eviction, edit | the database |
| Wallet (`key_provider_localfile.py`) | a file | create, unlock, rotate | the file system |
| Web search over MCP (`web_search.py`, `mcp_server.py`) | `web_search_calls` | one search and its row | a child of the CLI; HTTP, the database |
| Cost report, metrics, operator scripts | none | stateless | HTTP, the database |

### What is hard

- **A lost or late answer from the venue.** A POST has three ends (done, not
  done, not yet done), and the client sees one of many errors. The venue knows
  no client order id.
- **Death between two transactions.** `reserve`, POST and `put` are three steps
  of `place_order`; a cycle is a dozen transactions. The next process has only
  the tables.
- **Two jobs on the same rows.** The hourly ingestion and a trading cycle's
  inline ingestion start in the same minute; the inline lessons run overlaps the
  daily one; ingestion overlaps the cycle that writes what it resolves.
- **Snapshots.** A cycle reads cash, books, switch and order rate once, asks two
  agents for up to ten minutes each, and places orders by what it read.
- **Processes that outlive their timeout.** Killing `claude` does not kill the
  MCP server it started, whose search writes its row when the call is over.
- **A file replaced in two renames**, with a moment without the file between.
- **Marks.** Ingestion lists markets by end date against a mark that is a
  time of its own runs.
- **One failure in a batch**: a transaction that is rolled back, a step that
  raises outside the `try`, a timeout that does not stop what it times.

`PROJECT.json`, `hazards`, lists each of these at its line with the properties
that watch it, or the reason that none does yet.

### What makes each component correct

- Placement: one owner for a key; the reservation before the first POST; a
  bounded number of POSTs; the same answer for every caller; no invented fill;
  a finished row is final; every call returns.
- Cycle: orders follow committed decisions; one active plan; nothing left of an
  aborted cycle; a heartbeat only of a complete cycle; no order after the plan.
- Ingestion: outcome, trade PnL and prediction PnL agree; the mark passes no
  prediction that a run could have resolved; what settles in time is ingested; a
  trade that was there in time is in the PnL.
- Lessons: one lesson for a prediction; only an older lesson can keep a
  surprise from being learned.
- Feedback phase: steps never overlap; lessons follow the phase's own outcomes;
  one failed step stops neither the next nor the cycle; the phase ends.
- Accounts: the kill switch stops every later cycle; what a stale snapshot still
  guarantees of rate, cash and prices, with an agent that obeys its prompt.
- Memory: the priorities are what the finished cycles make them, in order of
  arrival; the notes stay bounded and a fresh one outlives the old.
- Evaluation: what is stored rests on three good answers, each with its audit
  row; a failed agent ends its evaluation for good; the mark follows the rows; a
  search joins to its call; the process ends.
- Wallet: no key that was announced or loaded is ever lost; a rotation keeps it.

## 2. The modules

| Module | What it is |
| --- | --- |
| `OrderPlacement` | `place_order`, `_retry`, `DbIdempotencyStore`, crashes, the venue |
| `PlacementLedger` | the abstract promise of durable idempotency, without processes |
| `OrderPlacementProps` | properties of `OrderPlacement`, and the refinement mapping to `PlacementLedger` |
| `OrderPlacementProofs` | its theorems, with proofs |
| `TradingCycle` | `bootstrap_team` and `main`; takes the real adapter as `INSTANCE PlacementLedger` |
| `OutcomeIngestion` | cron run, inline run and a trading cycle on the shared rows |
| `LessonsSummary` | cron run and inline run as overlapping transactions |
| `FeedbackPhase` | main thread and worker threads of the phase, beside the cron run; extends `LessonsSummary` |
| `RiskGates` | sizing, the six gates, and how the risk agent composes them |
| `PortfolioRisk` | the money of the cycle: collection, sizing, decisions, paper and real orders; extends `RiskGates` |
| `NotesTool`, `CycleMemory` | the bounded notes; with the cycle plan, what one cycle hands to the next |
| `SubagentRunner`, `EvaluationCycle` | one agent call with its subprocess and tools; the evaluation, from cron and inside a trading cycle |
| `WalletFile` | creation, rotation, rollback and reading of the wallet as file operations |
| `TradingCycleProofs`, `PortfolioRiskProofs`, `OutcomeIngestionProofs`, `CycleMemoryProofs`, `EvaluationCycleProofs`, `WalletFileProofs` | theorems about these modules, with proofs; `CycleMemoryProofs` those of `NotesTool` too |
| `FeedbackPhaseProofs` | theorems about `LessonsSummary`, and about `FeedbackPhase` with the lemmas on the two runs |
| `MC...` | the instances TLC checks |

In each module, operators whose comment begins with "Slip" are not part of the
model: each is a plausible wrong version of the definition after it, and
`PROJECT.json`, `mutants`, says which property notices when it takes that
definition's place.

### OrderPlacement

A process is one adapter object. `pc` is the next call inside `place_order`
(`polymarket.py:251-303`); `attempts` is the `order_attempts` table. The actions
follow the code in order: `GetHit`/`GetMiss` (a pending row is *not* a hit),
`Reserve`/`ReserveConflict` (`INSERT ... ON CONFLICT DO NOTHING`),
`EnsureApiCreds`, then `_retry` as `Submit` followed by one reply action
(`TransientReply`, `PermanentReply`, `OrderReply`, `ParseFail`) or by `SignFail`
when nothing was posted, and `Put` or `PutRaise`. `DbFail`, `ReserveAckLost` and
`ApiCredsFail` are the exceptions that leave the call; `Crash` ends the process
anywhere. A request is named by its key and its number; the venue may execute or
refuse it at any time after the POST, whatever the client has concluded. What the
client concludes is a free choice as well: `_map_unknown` looks for substrings such
as "400" in any error's text, so a reply may be taken for permanent whether the
request was done or not. Backoff times, prices and sizes are left out.

`wire`, `executed`, `posts` and `answers` belong to the venue or to history; no
guard of the code reads them, except that a reply reflects what the venue did.

### PlacementLedger and the refinement

A key is free, held, abandoned or settled with a result. Requests are sent only
under a held claim and at most `MaxSubmissions` times; callers see only settled
results. `ClaimOf` maps a pending row to "held" while the process that reserved
it lives, and to "abandoned" after. `TradingCycle` uses the ledger as its
adapter, so that the cycle's state space has no retries in it.

### TradingCycle

One process at a time, as `lead_bootstrap.py:494-497` assumes. `stage` is the
next transaction of the cycle; each action is one transaction or one call that
matters to the database. `Fail` is any exception nobody catches, a kill or the
timeout, at any stage; `BudgetAbort` is `SubagentBudgetError` in either agent.
The agents are free: the risk agent may decide on any market, inside the
universe or not, and a decision on a market without a row violates the foreign
key, so that only `Fail` is left. A decision is its cycle and market, standing
for `f"{cycle_id}:{decision.id}"`. Decisions on one market twice, the notes
(fail-isolated), the audit rows and all amounts are left out.

### OutcomeIngestion

`clock` is the time that end dates and marks are compared by. A run reads the
mark (`since`), lists the closed markets that end at or after it, fetches each
resolution and commits one transaction for each market: `IngestMarket` is
`_set_predictions_outcome`, `_set_trades_pnl` and `_set_predictions_realized_pnl`
together, since the first UPDATE locks the rows that two runs would contend
for. It writes the time it *began* as the mark. Gamma closes and settles markets
whenever it likes, before or after their end date. The trading cycle chooses
open markets that end later, commits predictions after an arbitrary time, and
writes paper trades after that. `late` is history: the predictions for which no
run can be blamed. `positions`, into which no code inserts, and the pages of the
listing are left out; the listing is one step.

### LessonsSummary

Each run is one transaction over the rows it selected, newest first, with ties
in any order; `mine` are its uncommitted inserts. An insert waits while the other
run's transaction holds the same key, and raises `IntegrityError` when a
committed lesson has it: then `session.rollback()` empties `mine` and the loop
goes on, as at `lessons_summary.py:131-133`. `DeadlockVictim` is PostgreSQL
breaking a cycle of two waits. Predictions that do not surprise are skipped by
the code without a trace and are not in the model. Each prediction is selected once.
The LEFT JOINs (`lessons_summary.py:64-68`) would return one twice that has two
decisions of its cycle and market, and it would then conflict with itself and roll
back; the models have one decision for a cycle and market throughout.

### FeedbackPhase

`main` is the step of `run_feedback_phase` the main thread is at; `waiting` says
whether it is in `future.result` or, after a timeout, in the exit of the pool,
which joins the worker (`feedback_phase.py:243`). The lessons worker is the
inline run of `LessonsSummary`, with the time the cycle started; its database
errors come to the main thread as "raised", except that a duplicate does not.
The ingestion worker resolves predictions one at a time (`fresh`) and ends or
raises; the evaluation ends or raises. `TimesOut` may fire as soon as the result
is missing, since 90 seconds have no relation to the length of a step. `Kill` is
`timeout 1800`. The failure of the Tier-1 check is the one error of the phase
that ends the cycle (`Tier1CheckFails`).

### RiskGates and PortfolioRisk

Money is in whole units, quotients are rounded down, prices and edges are in
thousandths. `RiskGates` has one operator for each file of `src/risk/`, and
`Action`, the composition that `research/prompts/risk_execution.md` asks of the
risk agent: no Python code calls the gates in a cycle, and the Lead orders the
`clipped_notional` that the agent returns without a check (`lead_bootstrap.py:566`).
The model takes that agent to obey; with one that does not, no amount is bounded by
anything but the paper adapter's book. The trading agent is free: any views about
any of its universe.
`Collect` is `_collect_universe_inputs` with `_assemble_portfolio_state`, the one
moment of a cycle at which cash, positions, switch, order rate and books are
read; `PaperOrder` meets any book, whatever the pre-fetched one was, and is the
FAK fill of the paper adapter. `earlier` and `positions` are what older cycles
left; no code inserts positions, so they are fixed. `OperatorSwitches` writes the
kill switch at any time, as a boolean or an object. `switchedIn` is history. The
plan and transactions are in `TradingCycle`, not here.

### NotesTool and CycleMemory

A note is its creation and last access on a clock that ticks with every call;
the read at the start of a cycle touches all of them, so eviction chooses freely
among what older cycles wrote. A cycle loads the plan, reads the notes, takes
any predictions, decisions and notes from the agents, saves or loses each note,
and replaces the plan, or fails anywhere. `lastHot` and `lastTraded` are history.
Holds, deferrals and blockers, which only the agents read, are left out. `Kept` is the
list comprehension over the carried priorities and `Sorted` the `sorted` call, both
written by their result, so that they can be reasoned about; `MCCycleMemory` checks
them against `SelectSeq` and `SetToSortSeq` on short lists and small sets.

### SubagentRunner and EvaluationCycle

A call is `subprocess`, `audit`, `returned`. How the subprocess ends (`end`)
decides the exception (`Outcome`) and what the audit row says (`HasError`); these
differ: an envelope that `_extract_payload` refuses raises without an error in
the row. `TimesOut` is enabled all the time. The MCP server is in `searching` by
its run: it writes its row even when `claude` is gone, and dies only with the
process group (`KillCall`). `PreflightFails` is a call without subprocess and
row. `KillCall` is a signal to the process group, by run_cycle.sh's limit for a
trading cycle and from outside for the cron's evaluation, which has none. In
`EvaluationCycle` two processes make calls: the cron's evaluation and a
trading cycle, which may evaluate inline and then calls its trading agent, the
only one with tools. Rows and mark are two transactions. Times are left out:
whether the mark is old enough is a free choice, and so is the mark's value,
which the outcome fetcher names and no code checks.

### WalletFile

A file is missing, partial or whole (a key under a passphrase). One script runs
at a time, as an operator would run them, killed between any two operations: the
in-place write of `create_new`; the `.tmp` write, the rename to the backup and
the rename into place of `rotate_passphrase`. `Rollback`, external, is the
operator's rename of the newest backup when the wallet is gone. Readers check,
then read. A loss of power, which may lose what was never flushed, is left out.

## 3. The runs

| Run | Instance | Checks |
| --- | --- | --- |
| `orders` | 2 processes, 1 key, 3 attempts | `SingleOwner`, `ReservedBeforePosted`, `AnswersAgree`, `FillsAreReal`, `FinishedIsFinal`, `ImplementsLedger`, `CallReturns` |
| `trading_cycle` | 2 markets, 2 cycles, paper or real each | `OrdersFollowDecisions`, `OneActivePlan`, `AbortLeavesNothing`, `HeartbeatMeansComplete`, `NoOrderAfterPlan` |
| `accounts` | 2 markets, 2 cycles, 2 books, 3 views, 3 position tables, 2 accounts | types, `KillSwitchHaltsNextCycle`, `RateOverrunBounded`, `AffordableAtCollection`, `StaleBooksOnlyReject` |
| `memory` | 2 markets, 3 cycles, 2 notes, 3 saves in a cycle, 1 edit | types, `PrioritiesAreHistory`, `FreshNotesSurvive`, `PrioritiesQueue` |
| `outcome_ingestion` | 1 market, 1 predicting cycle, times 0..2, 1 failure | `GroundTruthAgrees`, `MissedOnlyIfLate`, `EarlyTradesCount`, `InTimeIsIngested` |
| `lessons` | 2 predictions, times 0..2, window 1, 1 failure | `OneLessonEach`, `OldestIsLearned` |
| `feedback` | 1 prediction, times 0..1, window 0, 1 cycle, 1 failure | types, `FreshLessons`, `StepsInOrder`, `StepsIsolated`, `PhaseEnds` |
| `evaluation` | 1 evaluation and 1 trading cycle, 1 fault | `StoredIsAudited`, `RefusalIsFinal`, `MarkBehindRows`, `SearchesJoin`, `ProcessEnds` |
| `wallet` | 2 keys, 2 passphrases, 1 reader, 4 scripts | `KeyRecoverable`, `GapHasBoth`, `RotationKeepsKey` |
| `crash_double`, `capital_bypass`, `lessons_lost` | smaller or the same | one statement of the documentation each, which the code does not keep (section 5) |

The type invariants of the runs that do not list one are proved (section 4).

**Bounds.** Two processes and one key are enough for every interleaving the
placement distinguishes: a process interacts with others only through the row of
its key, and the proofs of section 4 remove the bound altogether; the attempts
are the code's three.
Two cycles give a crash and a successor with a stale plan; a third adds nothing
that `prev` can tell apart, since a plan is superseded only by the cycle that
read it. In `accounts`, two cycles give one that trades on what another left; one
book has the depth for every order and one has not, and their quotes move the
price both ways; the positions are none, one at and one below the cap, and as
many as are allowed; the account is untouched, or 9595 of 10000 are spent, which
leaves a sum between a notional and the notional with its fee; the rate limit is
2, so that one cycle reaches it. In `memory` three cycles give a plan, a failed
cycle and a plan after it, and more saves than the store holds. In `evaluation`
one fault (a lost row, a refused transaction or a kill) among everything the
subprocesses do freely; the processes share no more than the tables, and each
evaluation adds rows of its own. Four scripts let a creation, a rotation killed in
the gap, a creation of another key and a rotation over the left-over `.tmp`
follow each other. In `outcome_ingestion` three time values separate before, at and
after an end date; ingestion treats markets independently but for the mark, so one
market with two runs and a failure covers the races (a safety check with two
markets and two times also passes, and is too large to keep). `feedback` needs
one prediction, since what several do to each other is the subject of `lessons`
(with two and no failure it passes too, in about three minutes), and one cycle, since
a process takes nothing of its threads to the next. `MaxCycles`, `MaxRuns`,
`MaxCommands`, `MaxFailures`, `MaxFaults`, `MaxSaves`, `MaxEdits` and `MaxTime`
bound guards only; a cycle or run that has started is never cut off by a bound.
`TradingCycle`, `PortfolioRisk`, `CycleMemory`, `EvaluationCycle` and `WalletFile`
run with deadlock checking off: they stop when all cycles, runs or scripts of the
bound are over.

**Fairness.** `OrderPlacement`: weak fairness of each process's own steps, since
HTTP calls time out and the loop is sequential; neither the venue nor crashes are
fair, and nothing makes a process start a call. `OutcomeIngestion`: weak fairness
of the cron run alone, which starts every hour and goes on; nothing is asked of
Gamma, the clock, the cycle or the inline run. `LessonsSummary`: weak fairness of
the start of the cron run and of the steps of a started run (a hung one is killed
by `timeout 1800`, which releases its locks). `FeedbackPhase`: weak fairness of
the main thread and of the cron run; `PhaseEnds` needs besides that a worker's
calls come to an end: weak fairness of ingestion and evaluation, and strong
fairness of the lessons worker, whose insert is disabled while the cron's
transaction holds the row but is next in PostgreSQL's queue for it. Without
fairness of the workers (a call that hangs) the timeout does not help (section 5).
`EvaluationCycle`: weak fairness of a process's own steps, its timer among them;
nothing is asked of `claude`, which may hang, of its tools or of the database's
failures.

## 4. What is proved

`OrderPlacementProofs` holds for any sets `Procs` and `Keys` and any
`RETRY_ATTEMPTS` greater than zero (`RetryAssumption`), given a `NoKey` outside
`Keys` (`NoKeyAssumption`); there are no other assumptions.

- `Invariance`: `Spec => []IInv`. The properties are not inductive alone: that
  nobody else writes a pending row needs the owner's exclusiveness, that a fill
  is real needs what the pending result of a process in `put` says about the
  venue, and that the POSTs are bounded needs `posts` tied to the owner's
  `attempt`. `IInv` adds these as named conjuncts.
- From it: `TypeCorrect`, `OneOwner`, `ReservedFirst`, `OneAnswer`, `RealFills`,
  and, as an action property, `Finality`.
- `Refinement`: `Spec => ImplementsLedger`. Initial states map to initial
  states, and each action maps to a ledger action or a stutter. The lemmas
  `OnlyTheOwnerWrites`, `HeldByOwner`, `SameClaim` and `OneClaim` say how the
  claim of a key moves; `ReserveClaims`, `SubmitSends`, `PutSettles`,
  `LeaveAbandons` and `GetHitAnswers` are the steps that move it.

The proof that a step preserves `IInv` has one lemma for each kind of action and
below it one step for each conjunct the action can disturb.

`WalletFileProofs` holds for any `Keys`, `Passphrases`, `Readers` and any number of
scripts, given that `Missing` and `Partial` differ from each other and from whole
files and `NoKey` is no key (`WalletAssumption`).

- `Invariance`: `Spec => []Inv`. `KeyRecoverable` is not inductive: that moving
  the wallet aside loses no backup needs that the running script's backup name is
  free (`BackupsOK`, as commands are numbered), that putting the `.tmp` in place
  loses nothing needs what each stage knows of `tmp`, `wallet` and its backup
  (`ScriptOK`), and a loaded key must be an announced one (`KeysKept`).
- From it: `WalletTypeCorrect`, `WalletKeyRecoverable`, `WalletGapHasBoth` and, as
  an action property, `WalletRotationKeepsKey`. One lemma for each action.

`TradingCycleProofs` holds for any `Markets`, any number of cycles greater than
zero and any `Results` and `TradingModes` within the code's (`CycleAssumption`).

- `Invariance`: `Spec => []Inv`. That an aborted cycle left nothing needs that a
  cycle which has not decided is untouched (`FutureUntouched`), and that an exit
  status is that of a cycle which is over (`ExitsAreOver`). `OneActivePlan` needs
  that `prev`, read in one transaction and used in another, is the latest plan all
  along (`PlansOK`). `NoOrderAfterPlan` needs that only the running cycle holds a
  claim, and one at a time (`ClaimsOK`); `LoopOK` ties the loop to the decisions
  committed before it, and `StageOK` each stage to what is in the tables.
- From it: `TradingTypeCorrect`, `OrdersAreDecided`, `OnePlanIsActive`,
  `AbortIsClean`, `HeartbeatIsComplete`, and as an action property `PlanEndsTrading`.
  One step for each action.

`EvaluationCycleProofs` holds for any `MaxRuns` and `MaxFaults`; `EvaluationAssumption`
fixes the two processes and the four agents, as the code does.

- `Invariance`: `Spec => []Inv`. `Past` and `Begun` say which calls are behind a
  process, so that a `run_id` has no row before its call and none a second time
  (`RunsOK`, `CallsOK`); `AnsweredOK` that an evaluation goes on only over agents
  that answered; `SearchesOK` that a call which had a subprocess leaves its row or
  lost it; `StoredOK` and `RowsOK` follow an evaluation through its two
  transactions.
- From it: `EvaluationTypeCorrect`, `OnlyAuditedIsStored`, `MarkFollowsRows` and
  `SearchesAreCharged`. One lemma for each conjunct, with a step for each kind of
  action. `RefusedForGood` speaks of two moments: once an agent has failed, `Gone`
  holds for ever (nothing of that evaluation is stored, and its process is at the
  failed call or past the evaluation), as a `CycleId` is used once.

`FeedbackPhaseProofs`, on `LessonsSummary`, holds for any finite set of predictions and
any times and lookback (`LessonsAssumption`).

- `Invariance`: `Spec => []Inv`. `OneLessonEach` needs that the rows a run still
  has are resolved (`RowsResolved`); what a run inserts is then new for the unique
  index and for the other run, and the survivor of a deadlock takes over a row its
  victim rolled back. `Counts` bounds what the run will report.
- From it: `LessonsTypeCorrect` and `LessonsAreUnique`. One lemma for each action
  that touches rows or lessons, one for all others.

`OutcomeIngestionProofs` holds for any `Markets`, times, cycles and failures, with a
lookback that reaches back to time 0 (`IngestionAssumption`).

- `Invariance`: `Spec => []Inv`. `MissedOnlyIfLate` says that the mark passed
  nothing by which could have been resolved; a run that is under way will write its
  `now` as the mark, so before that each prediction it owes (`Owed`: unresolved, not
  late, its end date before the run's `now`) must still be ahead of it, by the mark
  it read, in its list, or as the market being updated (`RunsCover`). That run may
  be either of the two, and the other may write its mark in between.
  `GroundTruthAgrees` needs that a run only updates a settled market
  (`UpdatesSettled`), and that rows appear in order, the prediction, its trade, its
  outcome, or no trade is written to a row that is not there (`RowsInOrder`).
- From it: `Types`, `GroundTruth`, `NothingMissed` and `EarlyTradesCounted`, by
  `Counted`, which a trade's prediction has from the start and keeps. One lemma for
  each action.

`FeedbackPhaseProofs`, on `FeedbackPhase`, holds for any finite set of predictions, any
times and lookback and any number of cycles and failures (`LessonsAssumption`,
`PhaseAssumption`).

- `PhaseInvariance`: `PhaseSpec => []PhaseInv`. `PhaseInv` is the invariant `Inv` of
  the two runs, which each action of the phase keeps because it is a step
  or a stutter of the two runs, with two parts of its own. `Control` follows the main
  thread: a future has a reply only after its worker ended (`Futures`), what is behind
  the main thread was run if it had to be and reported (`DoneReported`). `LessonsCover`
  is what makes `FreshLessons` inductive: a prediction that the phase's own ingestion
  resolved, inside the window, is ahead of the inline run, or every row ahead is
  older and it is learned by a committed lesson or by one the run's transaction still
  holds (`InHand`). This survives the rollback at a duplicate, which empties `mine`,
  only because the duplicate's own lesson is older than all that went before it:
  newest first is not a detail of the SELECT.
- From it: `PhaseTypes`, `PhaseInOrder`, `PhaseIsolates`, `PhaseLearns` and
  `PhaseLessonsAreUnique`, which is `OneLessonEach` of the composed system.

`PortfolioRiskProofs` holds for any finite set of markets, any limits (an hourly rate
of at least one), any views, and books and position tables in the ranges of the
code's models: a quote is at most 1 and no book is crossed, sizes and prices are not
negative (`RiskAssumption`, `GatesAssumption`).

- `RiskInvariance`: `Spec => []Inv`. A cycle acts by what it read minutes before, so
  the invariant ties the snapshot to the tables: `AccountRead` says that cash and
  order rate are still those of the rows of earlier cycles, since only the cycle's
  own rows have come since; `SwitchRead` that a switch set before the cycle began is
  in its snapshot; `OrdersGated` that what is left to be ordered passed the gates on
  that snapshot. `RowsCounted` counts a cycle's rows and those of the hour before it,
  and `OrdersCounted` what the running one may still add.
- From it: `RiskTypes`, `KillSwitchHalts`, `RateOverrun`, `Affordable`
  and `StaleBooksReject`. `RateOverrun` takes the last cycle of the hour
  that placed an order: it counted the rows before it. One lemma for each action;
  `FillKnown` does the arithmetic of a fill, `Decided` that of the sizes and clips.
- Cash and exposure are sums over finite sets, which the library defines by recursion
  over an element chosen from the set. That they are numbers is proved without an
  induction rule: of the subsets of a finite set for which a claim fails there is a
  smallest (`Smallest`, from the well-foundedness of strict inclusion), and the
  `Totals` lemmas take an element from it.

`CycleMemoryProofs` holds for any finite set of markets, any limit of notes of at least
one and any number of cycles, saves and edits (`MemoryAssumption`, `NotesAssumption`).

- `Invariance`: `Spec => []Inv`. `PrioritiesAreHistory` needs that `prev`, loaded at the
  start of a cycle, is still the active list when the plan is written, and that no
  market was marked in the running cycle before (`PlanRead`). `FreshNotesSurvive` needs
  that every note the running cycle wrote is more recent than all it read
  (`OlderGoFirst`), which holds because the cycle writes none before its read touched
  them (`NotesDated`) and no edit falls within a cycle.
- From it: `MemoryTypes`, `ListIsHistory`, `OwnNotesSurvive` and, as an action property,
  `ListIsQueue`.
- They rest on what the list operators return for every argument, proved by a smallest
  counterexample as above: every finite set of numbers can be put in order
  (`CanBeSorted`), so that `Sorted` is the set, once each, in order (`SortedSet`); `Kept`
  is the members of the list in the set, once each if the list has them once
  (`KeptList`), and the whole list when all are in it (`KeptWhole`, which needs that
  only the identity puts the first n numbers in order); `PlanList` puts them together
  to what `_next_priorities` returns.

Only model-checked: liveness (`CallReturns`, `InTimeIsIngested`, `OldestIsLearned`,
`PhaseEnds`, `ProcessEnds`), which the prover cannot reach.

## 5. What the code does not keep

Three of these are runs that TLC ends with a counterexample; `findings` in
`PROJECT.json` quotes the statement and the line.

1. `crash_double`: the idempotency key contains the cycle's id, so it cannot
   recognise the same order in the next cycle.
2. `capital_bypass`: `_assemble_portfolio_state` does not pass `trading_mode`, which
   defaults to "paper", so the capital gate passes real orders.
3. `lessons_lost`: a lesson that exists rolls back the newer ones inserted
   before it, in every run while its prediction is in the window.

Divergences without a run, which the models contain as the code does them:

- `_retry` posts again after a timeout without asking the broker
  (`polymarket.py:350`; `specs/data_infrastructure.md:198`: "On retry, broker
  queried before resubmit"), so one key can be executed up to three times:
  `Submit` after `TransientReply` in `OrderPlacement`. No property excludes it;
  `ReservedBeforePosted` bounds the number.
- `cycle_notional_opened` is always 0 (`lead_bootstrap.py:414`), while
  `cycle_cap_gate.py:3-4` has the Lead increment it "after every successful order
  placement" and `specs/trading.md:120` caps the "total notional opened this cycle".
  The cap of a cycle is one of an order: three orders of a tenth of the equity, which
  `RiskAgent` may decide on together, exceed the quarter.
- A step that hangs holds the cycle after its timeout, as the exit of the pool joins
  the worker (`feedback_phase.py:243`). Lines 240-241 say "On timeout the thread keeps
  running until httpx returns; the leaked thread dies with the next-cycle PID
  rollover", and `settings.py:108` "Per-sub-step hard cap": `TimesOut` and `Join` in
  `FeedbackPhase`.
- A prediction resolved before its paper trade is written keeps a PnL of zero
  (`outcome_ingestion.py:177`; `specs/trading_feedback.md:88`: "is the sum of
  `realized_pnl` across all `trades` and `paper_trades`"). `EarlyTradesCount` says
  that only such a trade can be missing.
- `lead_bootstrap.py:595-597` takes an old pending row for a crash between POST
  and `put`, but the row is also left when `_ensure_api_creds` raises before any
  POST (`ApiCredsFail`).
- A market that resolves after its end date and after the next hourly run is
  never listed again (`gamma_client.py:67`); these are the predictions in `late`.
- The kill switch is read once in a cycle (`lead_bootstrap.py:873`);
  `specs/trading.md:134` has the agent, which has no tools, read it before every
  order. `KillSwitchHaltsNextCycle` is what holds.
- The order rate does not count the cycle's own orders; `RateOverrunBounded` is the
  bound that is left.
- Cash forgets filled paper trades and keeps partial fills reserved after their
  market has settled; in real-capital mode it asks `trades`, into which nothing is
  inserted, and so does the order rate (`Spent`, `OrdersInLastHour`).
- `UNIVERSE_FETCH_LIMIT` can cut held markets, although they pass the filter
  (`lead_bootstrap.py:850`; `Fetched`).
- The rotation of the wallet is called atomic (`key_provider_localfile.py:118`), and
  has a moment without a wallet; `GapHasBoth` is what holds instead.
- A refused envelope leaves an audit row without an error
  (`subagent_runner.py:285`; `HasError`), and a call that fails before its
  subprocess has no row (`PreflightFails`).
- The mark of the evaluation is the time of the newest resolved prediction and
  not of the evaluation, so the inline interval does not bound how often it runs.
- `_should_run_tier1_eval` reads the database outside any `try`; its failure ends
  the cycle (`Tier1CheckFails`, and `DatabaseFails` at `tier1`).
- The `trading_cycle` role has no INSERT on `system_state`, so its first heartbeat
  fails (migrations 0001:217, 0003:38); grants are in no model.

## 6. What is not modelled, and the plan

Not modelled, because they are I/O or formatting without state of their own: the
cost report, metrics and logging, prompt texts, HTTP clients and parsers, the
operator's chain scripts, grants and migrations (beyond the keys that operations
depend on). `reconcile_market` and `cancel_order` are not called by the program.
Simplified: the listing of resolved markets is one step, without pages, which
needs an assumption on the order Gamma lists in; the ranking of the scanner is a
free choice; two trading cycles at once, which `lead_bootstrap.py:494-497`
excludes, are in no model.

Abstract specifications still worth stating: a batch job with a mark that
eventually processes each item once, implemented by `OutcomeIngestion` where
nothing settles late; a bounded store, implemented by the notes.
