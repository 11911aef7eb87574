--------------------------- MODULE SubagentRunner ---------------------------
(***************************************************************************)
(* run_subagent: one call of a headless Claude agent.  The caller's thread *)
(* waits for the `claude` subprocess, which ends or is killed by the       *)
(* timeout; what it printed becomes a result or an exception, and one row  *)
(* of subagent_runs.  An agent with tools has an MCP server as a child of  *)
(* `claude`, whose web searches write rows of web_search_calls of their    *)
(* own, and go on when only `claude` is killed.                            *)
(***************************************************************************)
EXTENDS Naturals

CONSTANTS
    Callers,    \* processes that call agents, one call at a time
    Cycles,     \* the cycle ids of the calls
    NoCycle,    \* not one of them
    Agents,     \* agent names
    Tooled,     \* the agents that are given the MCP server
    MaxFaults   \* bound: audit inserts that fail, kills

ASSUME RunnerAssumption ==
    Tooled \subseteq Agents /\ NoCycle \notin Cycles /\ MaxFaults \in Nat

(* How `claude` can end when its exit status is zero: by what it printed.  *)
Printed == {"valid", "bad_payload", "bad_envelope", "budget_status"}
Exits == Printed \union {"exit", "exit_budget"}

(* Other ends of a call: the timeout; an OSError or a UnicodeDecodeError   *)
(* of subprocess.run (the task is an argument of the command, which has a  *)
(* limit); a check before the `try` that fails.                            *)
Ends == Exits \union {"timeout", "os_error", "preflight"}

Runs == [cycle: Cycles, agent: Agents]

VARIABLES
    pc,             \* where a caller's call is
    run,            \* the cycle and agent of the call: its run_id
    end,            \* how the call's subprocess ended
    searching,      \* the runs whose MCP server is inside web_search
    subagentRuns,   \* the table, a row for a run
    webSearchCalls, \* the table: the runs that have searched
    unaudited,      \* history: runs whose audit insert failed or was cut off
    faults

runnerVars == <<pc, run, end, searching, subagentRuns, webSearchCalls,
                unaudited, faults>>

NoRun == [cycle |-> NoCycle, agent |-> "none"]

RunnerInit ==
    /\ pc = [c \in Callers |-> "idle"]
    /\ run = [c \in Callers |-> NoRun]
    /\ end = [c \in Callers |-> "none"]
    /\ searching = {} /\ subagentRuns = {} /\ webSearchCalls = {}
    /\ unaudited = {} /\ faults = 0

-----------------------------------------------------------------------------
(* What the caller gets, and what _RunState has for the row.  An envelope  *)
(* that _extract_payload refuses leaves no error there.                    *)

BudgetEnds == {"exit_budget", "budget_status"}

Outcome(e) ==
    CASE e = "valid"         -> "ok"
      [] e \in BudgetEnds    -> "SubagentBudgetError"
      [] e = "os_error"      -> "other"
      [] OTHER               -> "SubagentError"

(* Slip: every exit from the envelope on counts as an error.               *)
ErrorWithEnvelope(e) == e \in {"valid", "timeout", "exit", "exit_budget"}

HasError(e) == e \in {"timeout", "exit", "exit_budget", "bad_payload"}

Row(r, e) == [run |-> r, error |-> HasError(e)]

-----------------------------------------------------------------------------
(* The agent's Markdown file or the CLI is missing, or _build_cmd finds no *)
(* MCP configuration: no subprocess, and no row.                           *)
PreflightFails(c, r) ==
    /\ pc[c] = "idle"
    /\ pc' = [pc EXCEPT ![c] = "returned"]
    /\ run' = [run EXCEPT ![c] = r]
    /\ end' = [end EXCEPT ![c] = "preflight"]
    /\ UNCHANGED <<searching, subagentRuns, webSearchCalls, unaudited, faults>>

Spawn(c, r) ==
    /\ pc[c] = "idle"
    /\ pc' = [pc EXCEPT ![c] = "subprocess"]
    /\ run' = [run EXCEPT ![c] = r]
    /\ end' = [end EXCEPT ![c] = "none"]
    /\ UNCHANGED <<searching, subagentRuns, webSearchCalls, unaudited, faults>>

SubprocessEnds(c, e) ==
    /\ pc[c] = "subprocess"
    /\ pc' = [pc EXCEPT ![c] = "audit"]
    /\ end' = [end EXCEPT ![c] = e]
    /\ UNCHANGED <<run, searching, subagentRuns, webSearchCalls, unaudited,
                   faults>>

(* `claude` ends by itself.  It has the answers of its tools when it prints*)
(* a result, and may fail without them.                                    *)
Exit(c) ==
    \E e \in Exits \union {"os_error"} :
        /\ e \in Printed => run[c] \notin searching
        /\ SubprocessEnds(c, e)

(* Slip: no timeout for an agent with tools.                               *)
TimesOutUntooled(c) == run[c].agent \notin Tooled /\ SubprocessEnds(c, "timeout")

(* subprocess.run kills `claude`, not the MCP server.                      *)
TimesOut(c) == SubprocessEnds(c, "timeout")

(* Slip: the row is written by the successful path only.                   *)
AuditIfOk(c) ==
    /\ pc[c] = "audit"
    /\ pc' = [pc EXCEPT ![c] = "returned"]
    /\ subagentRuns' = IF Outcome(end[c]) = "ok"
                       THEN subagentRuns \union {Row(run[c], end[c])}
                       ELSE subagentRuns
    /\ UNCHANGED <<run, end, searching, webSearchCalls, unaudited, faults>>

(* The `finally` of run_subagent: _persist_subagent_run.                   *)
Audit(c) ==
    /\ pc[c] = "audit"
    /\ pc' = [pc EXCEPT ![c] = "returned"]
    /\ subagentRuns' = subagentRuns \union {Row(run[c], end[c])}
    /\ UNCHANGED <<run, end, searching, webSearchCalls, unaudited, faults>>

(* Best effort: the caller goes on as if the row had been written.         *)
AuditFails(c) ==
    /\ pc[c] = "audit" /\ faults < MaxFaults
    /\ faults' = faults + 1
    /\ pc' = [pc EXCEPT ![c] = "returned"]
    /\ unaudited' = unaudited \union {run[c]}
    /\ UNCHANGED <<run, end, searching, subagentRuns, webSearchCalls>>

(* The caller has taken the result, or its process is gone.                *)
Hangup(c) ==
    /\ pc' = [pc EXCEPT ![c] = "idle"]
    /\ run' = [run EXCEPT ![c] = NoRun]
    /\ end' = [end EXCEPT ![c] = "none"]

(* The caller's process group is killed, `claude` and its tools with it:   *)
(* by the `timeout 1800` of run_cycle.sh when a trading cycle calls, and   *)
(* from outside in an evaluation's own process, which has no such limit.   *)
KillCall(c) ==
    /\ faults < MaxFaults /\ faults' = faults + 1
    /\ Hangup(c)
    /\ searching' = searching \ {run[c]}
    /\ unaudited' = IF pc[c] \in {"subprocess", "audit"}
                    THEN unaudited \union {run[c]} ELSE unaudited
    /\ UNCHANGED <<subagentRuns, webSearchCalls>>

-----------------------------------------------------------------------------
(* The MCP server *)

(* call_tool hands the query to web_search on a thread.  (MaxSearches = 1: *)
(* a run's second search writes a row like the first one's.)               *)
SearchStarts(c) ==
    /\ pc[c] = "subprocess" /\ run[c].agent \in Tooled
    /\ run[c] \notin searching \union webSearchCalls
    /\ searching' = searching \union {run[c]}
    /\ UNCHANGED <<pc, run, end, subagentRuns, webSearchCalls, unaudited, faults>>

(* The search has its answer, its refusal or its timeout, and the row of   *)
(* any of them carries the RUN_ID of the environment.                      *)
SearchEnds(r) ==
    /\ r \in searching
    /\ searching' = searching \ {r}
    /\ webSearchCalls' = webSearchCalls \union {r}
    /\ UNCHANGED <<pc, run, end, subagentRuns, unaudited, faults>>

(* The row's insert fails, which nobody sees.                              *)
SearchUnaudited(r) ==
    /\ r \in searching /\ faults < MaxFaults
    /\ faults' = faults + 1
    /\ searching' = searching \ {r}
    /\ UNCHANGED <<pc, run, end, subagentRuns, webSearchCalls, unaudited>>

RunnerTypeOK ==
    /\ pc \in [Callers -> {"idle", "subprocess", "audit", "returned"}]
    /\ run \in [Callers -> Runs \union {NoRun}]
    /\ end \in [Callers -> Ends \union {"none"}]
    /\ searching \subseteq Runs /\ unaudited \subseteq Runs
    /\ webSearchCalls \subseteq Runs
    /\ \A a \in subagentRuns : a.run \in Runs
    /\ faults \in 0 .. MaxFaults
=============================================================================
