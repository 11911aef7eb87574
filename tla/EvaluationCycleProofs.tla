------------------------ MODULE EvaluationCycleProofs ------------------------
(***************************************************************************)
(* The properties of EvaluationCycle and SubagentRunner, for any number of *)
(* evaluations, cycles and faults.  A run_id is begun once: Begun and Past *)
(* say which calls are behind a process, so that a row can neither be      *)
(* there before its call nor be written twice.                             *)
(***************************************************************************)
EXTENDS EvaluationCycle, TLAPS

(* The agents that the process's present evaluation or cycle is done with. *)
Past(c) ==
    CASE stage[c] = "off"                        -> Agents
      [] stage[c] \in {"tier1", "outcome-fetcher"} -> {}
      [] stage[c] = "pnl-aggregator"             -> {"outcome-fetcher"}
      [] stage[c] = "agent-performance-updater"  -> {"outcome-fetcher", "pnl-aggregator"}
      [] OTHER                                   -> Evaluators

(* A run whose call is over, or is being made.                             *)
Begun(r) ==
    \E c \in Callers :
       /\ r.cycle[1] = c
       /\ \/ r.cycle[2] < runs[c]
          \/ r.cycle = CycleId(c) /\ (r.agent \in Past(c) \/ r = run[c])

RunsOK ==
    /\ \A c \in Callers : stage[c] # "off" => runs[c] > 0
    /\ \A r \in searching \union webSearchCalls : Begun(r)
    /\ \A s \in subagentRuns : Begun(s.run)

(* A call is that of the stage its process is at, and has no row before    *)
(* its end.                                                                *)
CallsOK ==
    \A c \in Callers :
       /\ pc[c] = "idle" => run[c] = NoRun
       /\ pc[c] # "idle" => stage[c] \in Agents /\ run[c] = TheRun(c)
       /\ pc[c] \in {"audit", "returned"} => end[c] \in Ends
       /\ pc[c] = "audit" => end[c] # "preflight"
       /\ \A s \in subagentRuns : s.run = run[c] => pc[c] = "returned"

(* Its one row has no error, or its audit was lost.                        *)
Good(r) ==
    \/ r \in unaudited
    \/ {s \in subagentRuns : s.run = r} = {[run |-> r, error |-> FALSE]}

(* An evaluation goes on over agents that answered.                        *)
AnsweredOK ==
    \A c \in Callers :
       /\ pc[c] = "returned" /\ Outcome(end[c]) = "ok" => Good(run[c])
       /\ stage[c] \notin {"off", "trading-agent"} =>
             \A a \in Past(c) : Good([cycle |-> CycleId(c), agent |-> a])

Joins(w) ==
    \/ \E s \in subagentRuns : s.run = w
    \/ \E c \in Callers : run[c] = w
    \/ w \in unaudited

(* A search belongs to a call that had a subprocess, and so has a row.     *)
SearchesOK ==
    /\ \A w \in searching \union webSearchCalls : Joins(w)
    /\ \A c \in Callers : pc[c] = "returned" =>
          IF end[c] = "preflight"
          THEN run[c] \notin searching \union webSearchCalls
          ELSE run[c] \in unaudited \/ \E s \in subagentRuns : s.run = run[c]

(* What is stored is that of evaluations that are past their agents.       *)
Stored == performance \union ({mark} \ {NoCycle})
IsPast(e, stages) ==
    \A c \in Callers :
       e[1] = c => e[2] < runs[c] \/ (e[2] = runs[c] /\ stage[c] \in stages)

StoredOK ==
    /\ \A e \in performance : IsPast(e, {"mark", "trading-agent", "off"})
    /\ mark # NoCycle => IsPast(mark, {"trading-agent", "off"})
    /\ \A e \in withRows : IsPast(e, {"rows", "mark", "trading-agent", "off"})

(* The rows come first, and then the mark.                                 *)
RowsOK ==
    /\ \A c \in Callers :
          /\ rows[c] = "whole" =>
                stage[c] \in {"rows", "mark"} /\ CycleId(c) \in withRows
          /\ stage[c] = "rows" /\ CycleId(c) \in withRows => rows[c] = "whole"
          /\ stage[c] = "mark" /\ CycleId(c) \in withRows => CycleId(c) \in performance
    /\ MarkBehindRows

Inv == /\ TypeOK /\ RunsOK /\ CallsOK /\ AnsweredOK /\ SearchesOK /\ StoredOK
       /\ RowsOK /\ StoredIsAudited

-----------------------------------------------------------------------------
(* The initial states. *)
LEMMA InvInit == Init => Inv
<1> SUFFICES ASSUME Init PROVE Inv
  OBVIOUS
<1> USE RunnerAssumption, EvaluationAssumption DEF Init, RunnerInit, NoRun
<1>1. TypeOK
  BY DEF TypeOK, RunnerTypeOK
<1>2. RunsOK
  BY DEF RunsOK
<1>3. CallsOK
  BY DEF CallsOK
<1>4. AnsweredOK
  BY DEF AnsweredOK, Past
<1>5. SearchesOK
  BY DEF SearchesOK
<1>6. StoredOK
  BY DEF StoredOK
<1>7. RowsOK
  BY DEF RowsOK, MarkBehindRows
<1>8. StoredIsAudited
  BY DEF StoredIsAudited
<1> QED
  BY <1>1, <1>2, <1>3, <1>4, <1>5, <1>6, <1>7, <1>8 DEF Inv

(* Each action, with its process or its run, or a stuttering step.         *)
Starts == CronStarts \/ CycleStarts \/ Tier1Runs \/ Tier1Skipped
RunnerStep(c) == Runner(c) /\ UNCHANGED <<procVars, storeVars>>
Persists(c) == PersistRows(c) \/ RowsRefused(c) \/ PersistMark(c)
Faults(c) == DatabaseFails(c) \/ Kill(c)
SearchStep(r) == (SearchEnds(r) \/ SearchUnaudited(r)) /\ UNCHANGED <<procVars, storeVars>>

LEMMA Cases ==
  ASSUME [Next]_evalVars
  PROVE  \/ Starts
         \/ \E c \in Callers : \/ RunnerStep(c) \/ CallAgent(c) \/ TakeResult(c)
                               \/ Persists(c) \/ Faults(c)
         \/ \E r \in searching : SearchStep(r)
         \/ UNCHANGED evalVars
  BY DEF Next, ProcStep, CycleDecides, Search, Starts, RunnerStep, Persists, Faults,
         SearchStep

(* A new row that is not r's, and more lost audits, leave r as it was.     *)
LEMMA GoodKept ==
  ASSUME NEW r, Good(r), unaudited \subseteq unaudited',
         \/ subagentRuns' = subagentRuns
         \/ \E q, e : q # r /\ subagentRuns' = subagentRuns \union {Row(q, e)}
  PROVE  Good(r)'
<1>1. {s \in subagentRuns' : s.run = r} = {s \in subagentRuns : s.run = r}
  BY DEF Row
<1> QED
  BY <1>1 DEF Good

(* Types: a process that runs has begun its first evaluation or cycle.     *)
LEMMA TypeOKNext ==
  ASSUME Inv, [Next]_evalVars
  PROVE  TypeOK'
<1> USE RunnerAssumption, EvaluationAssumption
    DEF Inv, TypeOK, RunnerTypeOK, RunsOK, CallsOK, RowsOK, runnerVars, procVars,
        storeVars, Runs, CycleId, TheRun, NoRun, Ends, Exits, Printed, Evaluators
<1>1. CASE Starts
  BY <1>1
     DEF Starts, CronStarts, CycleStarts, Tier1Runs, Tier1Skipped, Move, Leave
<1>2. ASSUME NEW c \in Callers, RunnerStep(c) PROVE TypeOK'
  <2>1. CASE Audit(c)
    BY <1>2, <2>1 DEF RunnerStep, Audit, Row
  <2>2. CASE AuditFails(c)
    BY <1>2, <2>2 DEF RunnerStep, AuditFails
  <2>3. CASE SearchStarts(c) \/ Exit(c) \/ TimesOut(c)
    BY <1>2, <2>3
       DEF RunnerStep, Runner, SearchStarts, Exit, TimesOut, SubprocessEnds
  <2> QED
    BY <1>2, <2>1, <2>2, <2>3 DEF RunnerStep, Runner
<1>3. ASSUME NEW c \in Callers, CallAgent(c) PROVE TypeOK'
  BY <1>3
     DEF CallAgent, Spawn, PreflightFails
<1>4. ASSUME NEW c \in Callers, TakeResult(c) PROVE TypeOK'
  BY <1>4
     DEF TakeResult, AgentFailed, AgentOk, OutcomesFetched, PnlAggregated,
         PerformanceReturned, Hangup, Leave, Move, Afterwards
<1>5. ASSUME NEW c \in Callers, Persists(c) PROVE TypeOK'
  BY <1>5
     DEF Persists, PersistRows, RowsRefused, PersistMark, Move, Leave, Afterwards
<1>6. ASSUME NEW c \in Callers, Faults(c) PROVE TypeOK'
  BY <1>6
     DEF Faults, DatabaseFails, Kill, KillCall, Hangup, Leave, Afterwards
<1>7. ASSUME NEW r \in searching, SearchStep(r) PROVE TypeOK'
  BY <1>7
     DEF SearchStep, SearchEnds, SearchUnaudited
<1>8. CASE UNCHANGED evalVars
  BY <1>8
     DEF evalVars
<1> QED
  BY <1>1, <1>2, <1>3, <1>4, <1>5, <1>6, <1>7, <1>8, Cases

(* A row or a search is of a run that is over, or being made.              *)
LEMMA RunsOKNext ==
  ASSUME Inv, [Next]_evalVars, TypeOK'
  PROVE  RunsOK'
<1> USE RunnerAssumption, EvaluationAssumption
    DEF Inv, TypeOK, RunnerTypeOK, RunsOK, CallsOK, Begun, Past, runnerVars, procVars,
        storeVars, Runs, CycleId, TheRun, NoRun, Ends, Exits, Printed, Evaluators
<1>1. CASE Starts
  BY <1>1
     DEF Starts, CronStarts, CycleStarts, Tier1Runs, Tier1Skipped, Move, Leave
<1>2. ASSUME NEW c \in Callers, RunnerStep(c) PROVE RunsOK'
  <2>1. CASE Audit(c)
    BY <1>2, <2>1 DEF RunnerStep, Audit, Row
  <2>2. CASE AuditFails(c)
    BY <1>2, <2>2 DEF RunnerStep, AuditFails
  <2>3. CASE SearchStarts(c) \/ Exit(c) \/ TimesOut(c)
    BY <1>2, <2>3
       DEF RunnerStep, Runner, SearchStarts, Exit, TimesOut, SubprocessEnds
  <2> QED
    BY <1>2, <2>1, <2>2, <2>3 DEF RunnerStep, Runner
<1>3. ASSUME NEW c \in Callers, CallAgent(c) PROVE RunsOK'
  BY <1>3
     DEF CallAgent, Spawn, PreflightFails
<1>4. ASSUME NEW c \in Callers, TakeResult(c) PROVE RunsOK'
  BY <1>4
     DEF TakeResult, AgentFailed, AgentOk, OutcomesFetched, PnlAggregated,
         PerformanceReturned, Hangup, Leave, Move, Afterwards
<1>5. ASSUME NEW c \in Callers, Persists(c) PROVE RunsOK'
  BY <1>5
     DEF Persists, PersistRows, RowsRefused, PersistMark, Move, Leave, Afterwards
<1>6. ASSUME NEW c \in Callers, Faults(c) PROVE RunsOK'
  BY <1>6
     DEF Faults, DatabaseFails, Kill, KillCall, Hangup, Leave, Afterwards
<1>7. ASSUME NEW r \in searching, SearchStep(r) PROVE RunsOK'
  BY <1>7
     DEF SearchStep, SearchEnds, SearchUnaudited
<1>8. CASE UNCHANGED evalVars
  BY <1>8
     DEF evalVars
<1> QED
  BY <1>1, <1>2, <1>3, <1>4, <1>5, <1>6, <1>7, <1>8, Cases

(* The run_id of a new call has no row yet.                                *)
LEMMA CallsOKNext ==
  ASSUME Inv, [Next]_evalVars, TypeOK'
  PROVE  CallsOK'
<1> USE RunnerAssumption, EvaluationAssumption
    DEF Inv, TypeOK, RunnerTypeOK, CallsOK, RunsOK, Begun, Past, runnerVars, procVars,
        storeVars, Runs, CycleId, TheRun, NoRun, Ends, Exits, Printed, Evaluators
<1>1. CASE Starts
  BY <1>1
     DEF Starts, CronStarts, CycleStarts, Tier1Runs, Tier1Skipped, Move, Leave
<1>2. ASSUME NEW c \in Callers, RunnerStep(c) PROVE CallsOK'
  <2>1. CASE Audit(c)
    BY <1>2, <2>1 DEF RunnerStep, Audit, Row
  <2>2. CASE AuditFails(c)
    BY <1>2, <2>2 DEF RunnerStep, AuditFails
  <2>3. CASE SearchStarts(c) \/ Exit(c) \/ TimesOut(c)
    BY <1>2, <2>3
       DEF RunnerStep, Runner, SearchStarts, Exit, TimesOut, SubprocessEnds
  <2> QED
    BY <1>2, <2>1, <2>2, <2>3 DEF RunnerStep, Runner
<1>3. ASSUME NEW c \in Callers, CallAgent(c) PROVE CallsOK'
  BY <1>3
     DEF CallAgent, Spawn, PreflightFails
<1>4. ASSUME NEW c \in Callers, TakeResult(c) PROVE CallsOK'
  BY <1>4
     DEF TakeResult, AgentFailed, AgentOk, OutcomesFetched, PnlAggregated,
         PerformanceReturned, Hangup, Leave, Move, Afterwards
<1>5. ASSUME NEW c \in Callers, Persists(c) PROVE CallsOK'
  BY <1>5
     DEF Persists, PersistRows, RowsRefused, PersistMark, Move, Leave, Afterwards
<1>6. ASSUME NEW c \in Callers, Faults(c) PROVE CallsOK'
  BY <1>6
     DEF Faults, DatabaseFails, Kill, KillCall, Hangup, Leave, Afterwards
<1>7. ASSUME NEW r \in searching, SearchStep(r) PROVE CallsOK'
  BY <1>7
     DEF SearchStep, SearchEnds, SearchUnaudited
<1>8. CASE UNCHANGED evalVars
  BY <1>8
     DEF evalVars
<1> QED
  BY <1>1, <1>2, <1>3, <1>4, <1>5, <1>6, <1>7, <1>8, Cases

(* An agent is passed when it answered, and its row stays alone.           *)
LEMMA AnsweredOKNext ==
  ASSUME Inv, [Next]_evalVars, TypeOK'
  PROVE  AnsweredOK'
<1> USE RunnerAssumption, EvaluationAssumption
    DEF Inv, TypeOK, RunnerTypeOK, CallsOK, AnsweredOK, Good, Past, runnerVars,
        procVars, storeVars, Runs, CycleId, TheRun, NoRun, Ends, Exits, Printed,
        Evaluators
<1>1. CASE Starts
  BY <1>1
     DEF Starts, CronStarts, CycleStarts, Tier1Runs, Tier1Skipped, Move, Leave
<1>2. ASSUME NEW c \in Callers, RunnerStep(c) PROVE AnsweredOK'
  <2>1. CASE Audit(c)
    <3>1. ASSUME Outcome(end[c]) = "ok" PROVE Good(run[c])'
      <4>1. end[c] = "valid"
        BY <3>1 DEF Outcome, BudgetEnds
      <4>2. Row(run[c], end[c]) = [run |-> run[c], error |-> FALSE]
        <5>1. HasError(end[c]) = FALSE
          BY <4>1 DEF HasError
        <5> QED
          BY <5>1, Zenon DEF Row
      <4>3. \A s \in subagentRuns : s.run # run[c]
        BY <2>1 DEF Audit
      <4>4. {s \in subagentRuns' : s.run = run[c]} = {Row(run[c], end[c])}
        BY <2>1, <4>2, <4>3 DEF Audit
      <4> QED
        BY <2>1, <4>2, <4>4 DEF Audit, Good
    <3>2. ASSUME NEW r, Good(r), r # run[c] PROVE Good(r)'
      BY <2>1, <3>2, GoodKept DEF Audit
    <3>3. ASSUME NEW b \in Callers, pc'[b] = "returned" /\ Outcome(end'[b]) = "ok"
          PROVE  Good(run[b])'
      BY <2>1, <3>1, <3>2, <3>3 DEF Audit
    <3>4. ASSUME NEW b \in Callers, stage[b] \notin {"off", "trading-agent"},
                 NEW a \in Past(b)
          PROVE  Good([cycle |-> CycleId(b), agent |-> a])'
      BY <1>2, <2>1, <3>2, <3>4 DEF RunnerStep, Audit
    <3> QED
      BY <1>2, <2>1, <3>3, <3>4 DEF RunnerStep, Audit
  <2>2. CASE AuditFails(c)
    BY <1>2, <2>2 DEF RunnerStep, AuditFails
  <2>3. CASE SearchStarts(c) \/ Exit(c) \/ TimesOut(c)
    BY <1>2, <2>3
       DEF RunnerStep, Runner, SearchStarts, Exit, TimesOut, SubprocessEnds
  <2> QED
    BY <1>2, <2>1, <2>2, <2>3 DEF RunnerStep, Runner
<1>3. ASSUME NEW c \in Callers, CallAgent(c) PROVE AnsweredOK'
  <2>1. Outcome("preflight") # "ok"
    BY DEF Outcome, BudgetEnds
  <2> QED
    BY <1>3, <2>1
       DEF CallAgent, Spawn, PreflightFails
<1>4. ASSUME NEW c \in Callers, TakeResult(c) PROVE AnsweredOK'
  BY <1>4
     DEF TakeResult, AgentFailed, AgentOk, OutcomesFetched, PnlAggregated,
         PerformanceReturned, Hangup, Leave, Move, Afterwards
<1>5. ASSUME NEW c \in Callers, Persists(c) PROVE AnsweredOK'
  BY <1>5
     DEF Persists, PersistRows, RowsRefused, PersistMark, Move, Leave, Afterwards
<1>6. ASSUME NEW c \in Callers, Faults(c) PROVE AnsweredOK'
  BY <1>6
     DEF Faults, DatabaseFails, Kill, KillCall, Hangup, Leave, Afterwards
<1>7. ASSUME NEW r \in searching, SearchStep(r) PROVE AnsweredOK'
  BY <1>7
     DEF SearchStep, SearchEnds, SearchUnaudited
<1>8. CASE UNCHANGED evalVars
  BY <1>8
     DEF evalVars
<1> QED
  BY <1>1, <1>2, <1>3, <1>4, <1>5, <1>6, <1>7, <1>8, Cases

(* A call with a subprocess leaves a row, or the trace of a lost one.      *)
LEMMA SearchesOKNext ==
  ASSUME Inv, [Next]_evalVars, TypeOK'
  PROVE  SearchesOK'
<1> USE RunnerAssumption, EvaluationAssumption
    DEF Inv, TypeOK, RunnerTypeOK, CallsOK, SearchesOK, Joins, RunsOK, Begun, Past,
        runnerVars, procVars, storeVars, Runs, CycleId, TheRun, NoRun, Ends, Exits,
        Printed, Evaluators
<1>1. CASE Starts
  BY <1>1
     DEF Starts, CronStarts, CycleStarts, Tier1Runs, Tier1Skipped, Move, Leave
<1>2. ASSUME NEW c \in Callers, RunnerStep(c) PROVE SearchesOK'
  <2>1. CASE Audit(c)
    <3>1. Row(run[c], end[c]).run = run[c]
      BY DEF Row
    <3>2. \E s \in subagentRuns' : s.run = run[c]
      BY <2>1, <3>1 DEF Audit
    <3>3. UNCHANGED <<run, searching, webSearchCalls, unaudited, end, runs, stage>>
      BY <1>2, <2>1 DEF RunnerStep, Audit
    <3>4. subagentRuns \subseteq subagentRuns'
      BY <2>1 DEF Audit
    <3>5. \A w \in searching \union webSearchCalls : Joins(w)'
      BY <3>3, <3>4
    <3>6. \A b \in Callers : b # c => pc'[b] = pc[b]
      BY <2>1 DEF Audit
    <3>7. end[c] # "preflight"
      BY <2>1 DEF Audit
    <3> QED
      BY <3>2, <3>3, <3>4, <3>5, <3>6, <3>7
  <2>2. CASE AuditFails(c)
    BY <1>2, <2>2 DEF RunnerStep, AuditFails
  <2>3. CASE SearchStarts(c) \/ Exit(c) \/ TimesOut(c)
    BY <1>2, <2>3
       DEF RunnerStep, Runner, SearchStarts, Exit, TimesOut, SubprocessEnds
  <2> QED
    BY <1>2, <2>1, <2>2, <2>3 DEF RunnerStep, Runner
<1>3. ASSUME NEW c \in Callers, CallAgent(c) PROVE SearchesOK'
  BY <1>3
     DEF CallAgent, Spawn, PreflightFails
<1>4. ASSUME NEW c \in Callers, TakeResult(c) PROVE SearchesOK'
  BY <1>4
     DEF TakeResult, AgentFailed, AgentOk, OutcomesFetched, PnlAggregated,
         PerformanceReturned, Hangup, Leave, Move, Afterwards
<1>5. ASSUME NEW c \in Callers, Persists(c) PROVE SearchesOK'
  BY <1>5
     DEF Persists, PersistRows, RowsRefused, PersistMark, Move, Leave, Afterwards
<1>6. ASSUME NEW c \in Callers, Faults(c) PROVE SearchesOK'
  BY <1>6
     DEF Faults, DatabaseFails, Kill, KillCall, Hangup, Leave, Afterwards
<1>7. ASSUME NEW r \in searching, SearchStep(r) PROVE SearchesOK'
  BY <1>7
     DEF SearchStep, SearchEnds, SearchUnaudited
<1>8. CASE UNCHANGED evalVars
  BY <1>8
     DEF evalVars
<1> QED
  BY <1>1, <1>2, <1>3, <1>4, <1>5, <1>6, <1>7, <1>8, Cases

(* Only an evaluation past its agents is stored.                           *)
LEMMA StoredOKNext ==
  ASSUME Inv, [Next]_evalVars, TypeOK'
  PROVE  StoredOK'
<1> USE RunnerAssumption, EvaluationAssumption
    DEF Inv, TypeOK, RunnerTypeOK, StoredOK, IsPast, runnerVars, procVars, storeVars,
        Runs, CycleId, TheRun, NoRun, Ends, Exits, Printed, Evaluators
<1>1. CASE Starts
  BY <1>1
     DEF Starts, CronStarts, CycleStarts, Tier1Runs, Tier1Skipped, Move, Leave
<1>2. ASSUME NEW c \in Callers, RunnerStep(c) PROVE StoredOK'
  <2>1. CASE Audit(c)
    BY <1>2, <2>1 DEF RunnerStep, Audit, Row
  <2>2. CASE AuditFails(c)
    BY <1>2, <2>2 DEF RunnerStep, AuditFails
  <2>3. CASE SearchStarts(c) \/ Exit(c) \/ TimesOut(c)
    BY <1>2, <2>3
       DEF RunnerStep, Runner, SearchStarts, Exit, TimesOut, SubprocessEnds
  <2> QED
    BY <1>2, <2>1, <2>2, <2>3 DEF RunnerStep, Runner
<1>3. ASSUME NEW c \in Callers, CallAgent(c) PROVE StoredOK'
  BY <1>3
     DEF CallAgent, Spawn, PreflightFails
<1>4. ASSUME NEW c \in Callers, TakeResult(c) PROVE StoredOK'
  <2>1. stage[c] \in Agents /\ rows[c] # "whole"
    BY <1>4 DEF TakeResult, AgentFailed, AgentOk, CallsOK, RowsOK
  <2>2. rows'[c] = "whole" => stage'[c] = "rows"
    BY <1>4, <2>1
       DEF TakeResult, AgentFailed, AgentOk, OutcomesFetched, PnlAggregated,
           PerformanceReturned, Hangup, Leave, Move, Afterwards
  <2>3. UNCHANGED <<runs, performance, mark>>
    BY <1>4
       DEF TakeResult, AgentFailed, AgentOk, OutcomesFetched, PnlAggregated,
           PerformanceReturned, Hangup, Leave, Move, Afterwards
  <2>4. \A b \in Callers : b # c => stage'[b] = stage[b]
    BY <1>4
       DEF TakeResult, AgentFailed, AgentOk, OutcomesFetched, PnlAggregated,
           PerformanceReturned, Hangup, Leave, Move, Afterwards
  <2>5. stage[c] = "trading-agent" => stage'[c] \in {"trading-agent", "off"}
    BY <1>4
       DEF TakeResult, AgentFailed, AgentOk, OutcomesFetched, PnlAggregated,
           PerformanceReturned, Hangup, Leave, Move, Afterwards
  <2>6. withRows' \subseteq withRows \union IF rows'[c] = "whole" THEN {CycleId(c)} ELSE {}
    BY <1>4 DEF TakeResult
  <2> QED
    BY <2>1, <2>2, <2>3, <2>4, <2>5, <2>6
<1>5. ASSUME NEW c \in Callers, Persists(c) PROVE StoredOK'
  BY <1>5
     DEF Persists, PersistRows, RowsRefused, PersistMark, Move, Leave, Afterwards
<1>6. ASSUME NEW c \in Callers, Faults(c) PROVE StoredOK'
  BY <1>6
     DEF Faults, DatabaseFails, Kill, KillCall, Hangup, Leave, Afterwards
<1>7. ASSUME NEW r \in searching, SearchStep(r) PROVE StoredOK'
  BY <1>7
     DEF SearchStep, SearchEnds, SearchUnaudited
<1>8. CASE UNCHANGED evalVars
  BY <1>8
     DEF evalVars
<1> QED
  BY <1>1, <1>2, <1>3, <1>4, <1>5, <1>6, <1>7, <1>8, Cases

(* The mark is written after the rows, in every order of the processes.    *)
LEMMA RowsOKNext ==
  ASSUME Inv, [Next]_evalVars, TypeOK'
  PROVE  RowsOK'
<1> USE RunnerAssumption, EvaluationAssumption
    DEF Inv, TypeOK, RunnerTypeOK, RowsOK, StoredOK, IsPast, MarkBehindRows, CallsOK,
        runnerVars, procVars, storeVars, Runs, CycleId, TheRun, NoRun, Ends, Exits,
        Printed, Evaluators
<1>1. CASE Starts
  BY <1>1
     DEF Starts, CronStarts, CycleStarts, Tier1Runs, Tier1Skipped, Move, Leave
<1>2. ASSUME NEW c \in Callers, RunnerStep(c) PROVE RowsOK'
  <2>1. CASE Audit(c)
    BY <1>2, <2>1 DEF RunnerStep, Audit, Row
  <2>2. CASE AuditFails(c)
    BY <1>2, <2>2 DEF RunnerStep, AuditFails
  <2>3. CASE SearchStarts(c) \/ Exit(c) \/ TimesOut(c)
    BY <1>2, <2>3
       DEF RunnerStep, Runner, SearchStarts, Exit, TimesOut, SubprocessEnds
  <2> QED
    BY <1>2, <2>1, <2>2, <2>3 DEF RunnerStep, Runner
<1>3. ASSUME NEW c \in Callers, CallAgent(c) PROVE RowsOK'
  BY <1>3
     DEF CallAgent, Spawn, PreflightFails
<1>4. ASSUME NEW c \in Callers, TakeResult(c) PROVE RowsOK'
  BY <1>4
     DEF TakeResult, AgentFailed, AgentOk, OutcomesFetched, PnlAggregated,
         PerformanceReturned, Hangup, Leave, Move, Afterwards
<1>5. ASSUME NEW c \in Callers, Persists(c) PROVE RowsOK'
  BY <1>5
     DEF Persists, PersistRows, RowsRefused, PersistMark, Move, Leave, Afterwards
<1>6. ASSUME NEW c \in Callers, Faults(c) PROVE RowsOK'
  BY <1>6
     DEF Faults, DatabaseFails, Kill, KillCall, Hangup, Leave, Afterwards
<1>7. ASSUME NEW r \in searching, SearchStep(r) PROVE RowsOK'
  BY <1>7
     DEF SearchStep, SearchEnds, SearchUnaudited
<1>8. CASE UNCHANGED evalVars
  BY <1>8
     DEF evalVars
<1> QED
  BY <1>1, <1>2, <1>3, <1>4, <1>5, <1>6, <1>7, <1>8, Cases

(* No audit row of an evaluation past its agents is still to come.         *)
LEMMA StoredIsAuditedNext ==
  ASSUME Inv, TypeOK', [Next]_evalVars
  PROVE  StoredIsAudited'
<1> SUFFICES ASSUME NEW e \in Stored', NEW a \in Evaluators
             PROVE  Good([cycle |-> e, agent |-> a])'
  BY DEF StoredIsAudited, Stored, Good
<1> DEFINE r == [cycle |-> e, agent |-> a]
<1> USE RunnerAssumption, EvaluationAssumption DEF Inv
<1>1. Good(r) /\ \A c \in Callers :
                    e = CycleId(c) => stage[c] \in {"rows", "mark", "trading-agent", "off"}
  <2>1. CASE e \in Stored
    <3>1. Good(r)
      BY <2>1 DEF StoredIsAudited, Stored, Good
    <3>2. e \in performance \/ (e = mark /\ mark # NoCycle)
      BY <2>1 DEF Stored
    <3> QED
      BY <3>1, <3>2 DEF StoredOK, IsPast, CycleId, TypeOK
  <2>2. CASE e \notin Stored
    <3>1. PICK c \in Callers : /\ PersistRows(c) \/ PersistMark(c)
                               /\ e = CycleId(c)
      BY <2>2, Cases
         DEF Stored, Starts, CronStarts, CycleStarts, Tier1Runs, Tier1Skipped,
             RunnerStep, CallAgent, TakeResult, Persists, PersistRows, RowsRefused,
             PersistMark, Faults, DatabaseFails, Kill, SearchStep, storeVars, evalVars
    <3>2. stage[c] \in {"rows", "mark"}
      BY <3>1 DEF PersistRows, PersistMark
    <3>3. Good(r)
      BY <3>1, <3>2 DEF AnsweredOK, Past
    <3>4. \A b \in Callers : e = CycleId(b) => b = c
      BY <3>1 DEF CycleId
    <3> QED
      BY <3>2, <3>3, <3>4
  <2> QED
    BY <2>1, <2>2
<1>2. ASSUME NEW c \in Callers, pc[c] = "audit" PROVE run[c] # r
  <2>1. run[c] = TheRun(c) /\ stage[c] \in Agents
    BY <1>2 DEF CallsOK
  <2> QED
    BY <1>1, <2>1 DEF TheRun, Evaluators
<1>3. unaudited \subseteq unaudited'
  BY Cases
     DEF Starts, CronStarts, CycleStarts, Tier1Runs, Tier1Skipped, RunnerStep, Runner,
         SearchStarts, Exit, TimesOut, SubprocessEnds, Audit, AuditFails, CallAgent,
         Spawn, PreflightFails, TakeResult, Persists, PersistRows, RowsRefused,
         PersistMark, Faults, DatabaseFails, Kill, KillCall, SearchStep, SearchEnds,
         SearchUnaudited, runnerVars, evalVars
<1>4. \/ subagentRuns' = subagentRuns
      \/ \E c \in Callers : Audit(c)
  BY Cases
     DEF Starts, CronStarts, CycleStarts, Tier1Runs, Tier1Skipped, RunnerStep, Runner,
         SearchStarts, Exit, TimesOut, SubprocessEnds, AuditFails, CallAgent,
         Spawn, PreflightFails, TakeResult, Persists, PersistRows, RowsRefused,
         PersistMark, Faults, DatabaseFails, Kill, KillCall, SearchStep, SearchEnds,
         SearchUnaudited, runnerVars, evalVars
<1>5. \/ subagentRuns' = subagentRuns
      \/ \E q, d : q # r /\ subagentRuns' = subagentRuns \union {Row(q, d)}
  BY <1>2, <1>4 DEF Audit
<1> QED
  BY <1>1, <1>3, <1>5, GoodKept

LEMMA InvNext == Inv /\ [Next]_evalVars => Inv'
<1> SUFFICES ASSUME Inv, [Next]_evalVars PROVE Inv'
  OBVIOUS
<1>1. TypeOK'
  BY TypeOKNext
<1> QED
  BY <1>1, RunsOKNext, CallsOKNext, AnsweredOKNext, SearchesOKNext, StoredOKNext,
     RowsOKNext, StoredIsAuditedNext DEF Inv

-----------------------------------------------------------------------------
(* The inductive invariant holds in every reachable state.                 *)
THEOREM Invariance == Spec => []Inv
  BY InvInit, InvNext, PTL DEF Spec

(* The variables of the runner and of the evaluation keep their types, and *)
(* only an evaluation with rows has rows in agent_performance.             *)
THEOREM EvaluationTypeCorrect == Spec => []TypeOK
<1>1. Inv => TypeOK
  BY DEF Inv
<1> QED
  BY <1>1, Invariance, PTL

(* What an evaluation stores rests on three agents that answered, with one *)
(* audit row each or a lost one, whatever timed out, failed or was killed. *)
THEOREM OnlyAuditedIsStored == Spec => []StoredIsAudited
<1>1. Inv => StoredIsAudited
  BY DEF Inv
<1> QED
  BY <1>1, Invariance, PTL

(* The mark never names an evaluation whose rows are missing.              *)
THEOREM MarkFollowsRows == Spec => []MarkBehindRows
<1>1. Inv => MarkBehindRows
  BY DEF Inv, RowsOK
<1> QED
  BY <1>1, Invariance, PTL

(* A search, even one that outlives its call, joins to a row of its run,   *)
(* to a call that is not over or to one whose audit was lost.              *)
THEOREM SearchesAreCharged == Spec => []SearchesJoin
<1>1. Inv => SearchesJoin
  BY DEF Inv, SearchesOK, Joins, SearchesJoin
<1> QED
  BY <1>1, Invariance, PTL

-----------------------------------------------------------------------------
(* An evaluation of which nothing is stored, and nothing will be.          *)
Gone(e) ==
    LET c == e[1] IN
    /\ e \notin performance /\ mark # e
    /\ e[2] <= runs[c]
    /\ e[2] = runs[c] => stage[c] \in {"off", "trading-agent"} \/ Refused(e)

(* It is refused before it is past its agents.                             *)
LEMMA RefusedIsGone ==
  ASSUME Inv, NEW e \in Cycles, Refused(e)
  PROVE  Gone(e)
<1>1. e[1] \in Callers /\ e[2] = runs[e[1]] /\ runs[e[1]] \in Nat /\ e # NoCycle
  BY RunnerAssumption, EvaluationAssumption DEF Inv, TypeOK, Refused, CycleId
<1>2. stage[e[1]] \notin {"mark", "trading-agent", "off"}
  BY EvaluationAssumption DEF Refused, Evaluators
<1>3. e \notin performance
  BY <1>1, <1>2 DEF Inv, StoredOK, IsPast
<1>4. mark # e
  BY <1>1, <1>2 DEF Inv, StoredOK, IsPast
<1> QED
  BY <1>1, <1>3, <1>4 DEF Gone

(* The agents before the one that failed answered, and it had its call.    *)
LEMMA RefusedIsAudited ==
  ASSUME Inv, NEW e \in Cycles, Refused(e), NEW a \in UpTo(stage[e[1]])
  PROVE  \/ HasRow([cycle |-> e, agent |-> a])
         \/ a = stage[e[1]] /\ end[e[1]] = "preflight"
<1>1. /\ e[1] \in Callers /\ e = CycleId(e[1]) /\ stage[e[1]] \in Evaluators
      /\ pc[e[1]] = "returned"
  BY EvaluationAssumption DEF Refused
<1>2. CASE a = stage[e[1]]
  <2>1. run[e[1]] = [cycle |-> e, agent |-> a]
    BY <1>1, <1>2 DEF Inv, CallsOK, TheRun
  <2> QED
    BY <1>1, <1>2, <2>1 DEF Inv, SearchesOK, HasRow
<1>3. CASE a # stage[e[1]]
  <2>1. a \in Past(e[1])
    BY <1>1, <1>3, EvaluationAssumption DEF UpTo, Past, Evaluators
  <2>2. Good([cycle |-> e, agent |-> a])
    BY <1>1, <2>1, EvaluationAssumption DEF Inv, AnsweredOK, Evaluators
  <2> QED
    BY <2>2 DEF Good, HasRow
<1> QED
  BY <1>2, <1>3

(* No step stores it: a process stores the evaluation it is at, and comes  *)
(* to its transactions over three answers.                                 *)
LEMMA GoneStays ==
  ASSUME Inv, NEW e \in Cycles, Gone(e), [Next]_evalVars
  PROVE  Gone(e)'
<1> USE RunnerAssumption, EvaluationAssumption
    DEF Inv, TypeOK, RunnerTypeOK, Gone, Refused, CallsOK, runnerVars, procVars,
        storeVars, CycleId, Evaluators
<1>1. CASE Starts
  BY <1>1
     DEF Starts, CronStarts, CycleStarts, Tier1Runs, Tier1Skipped, Move, Leave
<1>2. ASSUME NEW c \in Callers, RunnerStep(c) PROVE Gone(e)'
  <2>1. CASE Audit(c) \/ AuditFails(c)
    BY <1>2, <2>1 DEF RunnerStep, Audit, AuditFails
  <2>2. CASE SearchStarts(c) \/ Exit(c) \/ TimesOut(c)
    BY <1>2, <2>2
       DEF RunnerStep, Runner, SearchStarts, Exit, TimesOut, SubprocessEnds
  <2> QED
    BY <1>2, <2>1, <2>2 DEF RunnerStep, Runner
<1>3. ASSUME NEW c \in Callers, CallAgent(c) PROVE Gone(e)'
  BY <1>3
     DEF CallAgent, Spawn, PreflightFails
<1>4. ASSUME NEW c \in Callers, TakeResult(c) PROVE Gone(e)'
  BY <1>4
     DEF TakeResult, AgentFailed, AgentOk, OutcomesFetched, PnlAggregated,
         PerformanceReturned, Hangup, Leave, Move, Afterwards
<1>5. ASSUME NEW c \in Callers, Persists(c) PROVE Gone(e)'
  BY <1>5
     DEF Persists, PersistRows, RowsRefused, PersistMark, Move, Leave, Afterwards
<1>6. ASSUME NEW c \in Callers, Faults(c) PROVE Gone(e)'
  BY <1>6
     DEF Faults, DatabaseFails, Kill, KillCall, Hangup, Leave, Afterwards
<1>7. ASSUME NEW r \in searching, SearchStep(r) PROVE Gone(e)'
  BY <1>7
     DEF SearchStep, SearchEnds, SearchUnaudited
<1>8. CASE UNCHANGED evalVars
  BY <1>8
     DEF evalVars
<1> QED
  BY <1>1, <1>2, <1>3, <1>4, <1>5, <1>6, <1>7, <1>8, Cases

(* An agent's failure is the end of its evaluation: the calls up to it are *)
(* audited, or their rows lost, and nothing of it is ever stored.          *)
THEOREM RefusedForGood == Spec => RefusalIsFinal
<1> SUFFICES ASSUME NEW e \in Cycles
             PROVE  Spec => [](Refused(e) =>
                       /\ \A a \in UpTo(stage[e[1]]) :
                             \/ HasRow([cycle |-> e, agent |-> a])
                             \/ a = stage[e[1]] /\ end[e[1]] = "preflight"
                       /\ [](e \notin performance /\ mark # e))
  BY DEF RefusalIsFinal
<1>1. Inv /\ Refused(e) => Gone(e)
  BY RefusedIsGone
<1>2. Inv /\ Refused(e) =>
        \A a \in UpTo(stage[e[1]]) :
           \/ HasRow([cycle |-> e, agent |-> a])
           \/ a = stage[e[1]] /\ end[e[1]] = "preflight"
  BY RefusedIsAudited
<1>3. Inv /\ Gone(e) /\ [Next]_evalVars => Gone(e)'
  BY GoneStays
<1>4. Gone(e) => e \notin performance /\ mark # e
  BY DEF Gone
<1> QED
  BY <1>1, <1>2, <1>3, <1>4, Invariance, PTL DEF Spec
=============================================================================
