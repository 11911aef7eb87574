--------------------------- MODULE EvaluationCycle ---------------------------
(***************************************************************************)
(* The Tier-1 evaluation (bootstrap_evaluation_team): three agents called  *)
(* one after the other through run_subagent, then one transaction for the  *)
(* rows of agent_performance and one for the mark last_evaluation_at.      *)
(* Cron runs it every hour; a trading cycle runs it inline when the flag   *)
(* is on and the mark old enough, and calls its trading agent afterwards.  *)
(* Times are left out: whether the mark is old enough is a free choice,    *)
(* as is the mark, which the outcome fetcher names and nothing checks.     *)
(***************************************************************************)
EXTENDS SubagentRunner

CONSTANT MaxRuns    \* bound: evaluations or cycles of one process

ASSUME EvaluationAssumption ==
    /\ Callers = {"cron", "cycle"}
    /\ Cycles = Callers \X (1 .. MaxRuns) /\ NoCycle = <<"none", 0>>
    /\ Agents = {"outcome-fetcher", "pnl-aggregator",
                 "agent-performance-updater", "trading-agent"}
    /\ Tooled = {"trading-agent"}
    /\ MaxRuns \in Nat

Evaluators == Agents \ {"trading-agent"}

VARIABLES
    stage,       \* the step of each process: an agent, or a step of its own
    runs,        \* evaluations or cycles each process has started
    rows,        \* what the updater returned: "none", "empty", "whole", "dup"
    performance, \* the evaluations whose rows are in agent_performance
    mark,        \* last_evaluation_at: the evaluation that wrote it
    withRows     \* history: the evaluations whose updater returned rows

procVars  == <<stage, runs, rows>>
storeVars == <<performance, mark, withRows>>
evalVars  == <<runnerVars, procVars, storeVars>>

Init ==
    /\ RunnerInit
    /\ stage = [c \in Callers |-> "off"]
    /\ runs = [c \in Callers |-> 0]
    /\ rows = [c \in Callers |-> "none"]
    /\ performance = {} /\ mark = NoCycle /\ withRows = {}

CycleId(c) == <<c, runs[c]>>
TheRun(c) == [cycle |-> CycleId(c), agent |-> stage[c]]

(* What follows an evaluation, whatever its end: the inline caller goes on *)
(* to trade, the cron's process exits.                                     *)
Afterwards(c) == IF c = "cron" THEN "off" ELSE "trading-agent"

Leave(c, s) ==
    /\ stage' = [stage EXCEPT ![c] = s]
    /\ rows' = [rows EXCEPT ![c] = "none"]
    /\ UNCHANGED runs

Move(c, s) == stage' = [stage EXCEPT ![c] = s]

-----------------------------------------------------------------------------
(* Starting *)

CronStarts ==
    /\ stage["cron"] = "off" /\ runs["cron"] < MaxRuns
    /\ runs' = [runs EXCEPT !["cron"] = @ + 1]
    /\ Move("cron", "outcome-fetcher")
    /\ UNCHANGED <<runnerVars, rows, storeVars>>

CycleStarts ==
    /\ stage["cycle"] = "off" /\ runs["cycle"] < MaxRuns
    /\ runs' = [runs EXCEPT !["cycle"] = @ + 1]
    /\ Move("cycle", "tier1")
    /\ UNCHANGED <<runnerVars, rows, storeVars>>

(* _should_run_tier1_eval: the flag is on, and the mark old or missing.    *)
Tier1Runs ==
    /\ stage["cycle"] = "tier1"
    /\ Move("cycle", "outcome-fetcher")
    /\ UNCHANGED <<runnerVars, runs, rows, storeVars>>

(* The flag is off, or there is a mark and it is recent.                   *)
Tier1Skipped ==
    /\ stage["cycle"] = "tier1"
    /\ Leave("cycle", "trading-agent")
    /\ UNCHANGED <<runnerVars, storeVars>>

-----------------------------------------------------------------------------
(* The agents *)

CallAgent(c) ==
    /\ stage[c] \in Agents
    /\ Spawn(c, TheRun(c)) \/ PreflightFails(c, TheRun(c))
    /\ UNCHANGED <<procVars, storeVars>>

(* Slip: an evaluation that goes on without the agent that failed.         *)
AgentFailureIgnored(c) ==
    /\ pc[c] = "returned" /\ Outcome(end[c]) # "ok"
    /\ IF stage[c] = "pnl-aggregator"
       THEN /\ Move(c, "agent-performance-updater")
            /\ UNCHANGED <<runs, rows>>
       ELSE Leave(c, IF stage[c] = "trading-agent" THEN "off" ELSE Afterwards(c))

(* SubagentBudgetError is turned into EvaluationAbortedError; any other    *)
(* exception leaves as it is.  The trading cycle stops at its own agent's. *)
AgentFailed(c) ==
    /\ pc[c] = "returned" /\ Outcome(end[c]) # "ok"
    /\ Leave(c, IF stage[c] = "trading-agent" THEN "off" ELSE Afterwards(c))

OutcomesFetched(c) ==
    /\ stage[c] = "outcome-fetcher"
    /\ Move(c, "pnl-aggregator")
    /\ UNCHANGED <<runs, rows>>

PnlAggregated(c) ==
    /\ stage[c] = "pnl-aggregator"
    /\ Move(c, "agent-performance-updater")
    /\ UNCHANGED <<runs, rows>>

(* Its rows may name an agent twice, which the primary key refuses.        *)
PerformanceReturned(c) ==
    /\ stage[c] = "agent-performance-updater"
    /\ \E r \in {"empty", "whole", "dup"} : rows' = [rows EXCEPT ![c] = r]
    /\ Move(c, "rows")
    /\ UNCHANGED runs

AgentOk(c) ==
    /\ pc[c] = "returned" /\ Outcome(end[c]) = "ok"
    /\ \/ OutcomesFetched(c) \/ PnlAggregated(c) \/ PerformanceReturned(c)
       \/ stage[c] = "trading-agent" /\ Leave(c, "off")

TakeResult(c) ==
    /\ AgentFailed(c) \/ AgentOk(c)
    /\ Hangup(c)
    /\ withRows' = IF rows'[c] = "whole" THEN withRows \union {CycleId(c)}
                                         ELSE withRows
    /\ UNCHANGED <<searching, subagentRuns, webSearchCalls, unaudited, faults,
                   performance, mark>>

-----------------------------------------------------------------------------
(* The two transactions *)

(* Slip: an error of the rows is swallowed, as one of the audit is.        *)
RowsBestEffort(c) ==
    /\ stage[c] = "rows"
    /\ performance' \in {performance, performance \union {CycleId(c)}}
    /\ Move(c, "mark")
    /\ UNCHANGED <<mark, withRows, runnerVars, runs, rows>>

(* _persist_rows returns at once if there are none.                        *)
PersistRows(c) ==
    /\ stage[c] = "rows" /\ rows[c] # "dup"
    /\ performance' = IF rows[c] = "whole" THEN performance \union {CycleId(c)}
                                           ELSE performance
    /\ Move(c, "mark")
    /\ UNCHANGED <<mark, withRows, runnerVars, runs, rows>>

(* The duplicate's transaction is rolled back, and its error raised.       *)
RowsRefused(c) ==
    /\ stage[c] = "rows" /\ rows[c] = "dup"
    /\ Leave(c, Afterwards(c))
    /\ UNCHANGED <<runnerVars, storeVars>>

PersistMark(c) ==
    /\ stage[c] = "mark"
    /\ mark' = CycleId(c)
    /\ Leave(c, Afterwards(c))
    /\ UNCHANGED <<performance, withRows, runnerVars>>

(* The database refuses a transaction; in "tier1" it refuses the mark to   *)
(* the check, whose exception is the trading cycle's.                      *)
DatabaseFails(c) ==
    /\ stage[c] \in {"tier1", "rows", "mark"}
    /\ faults < MaxFaults /\ faults' = faults + 1
    /\ Leave(c, IF stage[c] = "tier1" THEN "off" ELSE Afterwards(c))
    /\ UNCHANGED <<pc, run, end, searching, subagentRuns, webSearchCalls,
                   unaudited, storeVars>>

(* For the trading cycle run_cycle.sh's limit, or a signal; for the cron's *)
(* evaluation a signal only (run_evaluation.sh:20).                        *)
Kill(c) ==
    /\ stage[c] # "off"
    /\ KillCall(c)
    /\ Leave(c, "off")
    /\ UNCHANGED storeVars

-----------------------------------------------------------------------------
Runner(c) == \/ SearchStarts(c) \/ Exit(c) \/ TimesOut(c)
             \/ Audit(c) \/ AuditFails(c)

ProcStep(c) == \/ CallAgent(c) \/ TakeResult(c)
               \/ PersistRows(c) \/ RowsRefused(c) \/ PersistMark(c)

CycleDecides == Tier1Runs \/ Tier1Skipped

Search == \E r \in searching : SearchEnds(r) \/ SearchUnaudited(r)

Next ==
    \/ CronStarts \/ CycleStarts \/ CycleDecides
    \/ \E c \in Callers :
          \/ Runner(c) /\ UNCHANGED <<procVars, storeVars>>
          \/ ProcStep(c) \/ DatabaseFails(c) \/ Kill(c)
    \/ Search /\ UNCHANGED <<procVars, storeVars>>

Spec == Init /\ [][Next]_evalVars

(* A process runs, with its timer, and its transactions end.  Nothing is   *)
(* asked of `claude`, which may hang, nor of the search.                   *)
OwnStep(c) ==
    \/ ProcStep(c) \/ (c = "cycle" /\ CycleDecides)
    \/ (TimesOut(c) \/ Audit(c)) /\ UNCHANGED <<procVars, storeVars>>

FairSpec == Spec /\ \A c \in Callers : WF_evalVars(OwnStep(c))

-----------------------------------------------------------------------------
(* The types of the variables. *)
TypeOK ==
    /\ RunnerTypeOK
    /\ stage \in [Callers -> Agents \union {"off", "tier1", "rows", "mark"}]
    /\ runs \in [Callers -> 0 .. MaxRuns]
    /\ rows \in [Callers -> {"none", "empty", "whole", "dup"}]
    /\ performance \subseteq withRows /\ withRows \subseteq Cycles
    /\ mark \in Cycles \union {NoCycle}

(* What an evaluation stores rests on three agents that answered: the      *)
(* audit has one row for each, without an error, or its insert failed.  A  *)
(* budget refusal in the third agent leaves nothing of the first two       *)
(* (evaluation_bootstrap.py:130-144), and no call has a second row.        *)
StoredIsAudited ==
    \A e \in performance \union ({mark} \ {NoCycle}), a \in Evaluators :
        LET r == [cycle |-> e, agent |-> a]
        IN  \/ r \in unaudited
            \/ {s \in subagentRuns : s.run = r} =
               {[run |-> r, error |-> FALSE]}

(* The agents called by the time an evaluation is at this one of them.     *)
UpTo(a) ==
    CASE a = "outcome-fetcher"           -> {a}
      [] a = "pnl-aggregator"            -> {"outcome-fetcher", a}
      [] a = "agent-performance-updater" -> Evaluators

(* run_subagent has just failed one of the three, for its budget or not.   *)
Refused(e) ==
    LET c == e[1] IN
    /\ e = CycleId(c) /\ stage[c] \in Evaluators
    /\ pc[c] = "returned" /\ Outcome(end[c]) # "ok"

HasRow(r) == r \in unaudited \/ \E s \in subagentRuns : s.run = r

(* One agent's failure ends its evaluation for good: by then each call     *)
(* that had a subprocess has its row or lost it, the paid ones before it   *)
(* included, and nothing of that evaluation is ever stored, whatever its   *)
(* process, which may be a trading cycle's, and the other one do after     *)
(* (evaluation_bootstrap.py:103-148, feedback_phase.py:138-148).           *)
RefusalIsFinal ==
    \A e \in Cycles :
        [](Refused(e) =>
             /\ \A a \in UpTo(stage[e[1]]) :
                   \/ HasRow([cycle |-> e, agent |-> a])
                   \/ a = stage[e[1]] /\ end[e[1]] = "preflight"
             /\ [](e \notin performance /\ mark # e))

(* The mark never runs ahead of the rows: when it names an evaluation with *)
(* rows, they are there, whatever was killed or refused between the two    *)
(* transactions (evaluation_bootstrap.py:147-148).                         *)
MarkBehindRows == mark \in withRows => mark \in performance

(* A search can be charged to its call: the row it writes, even after the  *)
(* timeout has ended the call, joins to a row of subagent_runs, to a call  *)
(* that is not over, or to one whose audit was lost (web_search.py:216).   *)
SearchesJoin ==
    \A w \in webSearchCalls :
        \/ \E s \in subagentRuns : s.run = w
        \/ \E c \in Callers : run[c] = w
        \/ w \in unaudited

(* Every call comes back, however `claude` behaves, and the process with   *)
(* it: three timeouts bound an evaluation.                                 *)
ProcessEnds == \A c \in Callers : stage[c] # "off" ~> stage[c] = "off"
=============================================================================
