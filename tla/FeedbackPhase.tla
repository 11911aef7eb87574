---------------------------- MODULE FeedbackPhase ----------------------------
(***************************************************************************)
(* run_feedback_phase, which every trading cycle runs before it trades:    *)
(* the main thread hands each step to a worker thread of a pool of its own *)
(* and waits for it with a timeout (_run_with_timeout).  Leaving the `with *)
(* ThreadPoolExecutor` block joins the worker, after a timeout too.        *)
(*                                                                         *)
(* The lessons step is the inline run of LessonsSummary, beside the cron's *)
(* run.  The other two steps end or raise; OutcomeIngestion and the        *)
(* evaluation say what they do.                                            *)
(***************************************************************************)
EXTENDS LessonsSummary

CONSTANT MaxCycles   \* bound: trading cycles

ASSUME PhaseAssumption == MaxCycles \in Nat

Steps == {"ingestion", "lessons", "tier1"}

VARIABLES
    cycles,    \* trading cycles started
    main,      \* the step the main thread is at, or "trade", or "off"
    waiting,   \* "no", "result" in future.result, "join" after a timeout
    enabled,   \* the steps whose flags are on
    workers,   \* steps whose worker thread runs
    reply,     \* what each step's future holds
    errors,    \* the steps with an error in FeedbackPhaseResult
    submitted, \* the steps given to a worker in this phase
    cycleNow,  \* the time the cycle started
    fresh      \* the predictions this phase's ingestion has resolved

threadVars  == <<workers, reply>>
lessonsVars == <<worldVars, lessons, mark, runVars, failures>>
phaseVars   == <<cycles, main, waiting, enabled, threadVars, errors, submitted,
                 cycleNow, fresh>>

PhaseInit ==
    /\ Init
    /\ cycles = 0 /\ main = "off" /\ waiting = "no"
    /\ enabled = {} /\ workers = {}
    /\ reply = [s \in Steps |-> "none"]
    /\ errors = {} /\ submitted = {}
    /\ cycleNow = 0 /\ fresh = {}

After(s) == CASE s = "ingestion" -> "lessons"
              [] s = "lessons"   -> "tier1"
              [] s = "tier1"     -> "trade"

(* The settings are read once.  With the master flag off no step is on.    *)
StartPhase ==
    /\ main = "off" /\ workers = {} /\ cycles < MaxCycles
    /\ cycles' = cycles + 1
    /\ main' = "ingestion"
    /\ enabled' \in SUBSET Steps
    /\ cycleNow' = clock
    /\ UNCHANGED <<waiting, threadVars, errors, submitted, fresh, lessonsVars>>

(* The flag is off; or the last evaluation is recent.                      *)
SkipStep ==
    /\ main \in Steps /\ waiting = "no"
    /\ main \in enabled => main = "tier1"
    /\ main' = After(main)
    /\ UNCHANGED <<cycles, waiting, enabled, threadVars, errors, submitted,
                   cycleNow, fresh, lessonsVars>>

(* Slip: a step run whatever its flag.                                     *)
SubmitUnflagged ==
    /\ main \in Steps /\ waiting = "no"
    /\ waiting' = "result"
    /\ workers' = workers \union {main}
    /\ submitted' = submitted \union {main}
    /\ IF main = "lessons" THEN StartRunAt("inline", cycleNow)
                           ELSE UNCHANGED lessonsVars
    /\ UNCHANGED <<cycles, main, enabled, reply, errors, cycleNow, fresh>>

Submit ==
    /\ main \in enabled /\ waiting = "no"
    /\ waiting' = "result"
    /\ workers' = workers \union {main}
    /\ submitted' = submitted \union {main}
    /\ IF main = "lessons" THEN StartRunAt("inline", cycleNow)
                           ELSE UNCHANGED lessonsVars
    /\ UNCHANGED <<cycles, main, enabled, reply, errors, cycleNow, fresh>>

(* The phase is over, with its process or for good.                        *)
PhaseOver ==
    /\ main' = "off" /\ waiting' = "no" /\ enabled' = {} /\ workers' = {}
    /\ reply' = [s \in Steps |-> "none"]
    /\ errors' = {} /\ submitted' = {}
    /\ cycleNow' = 0 /\ fresh' = {}

(* _should_run_tier1_eval reads the database outside of any try, and its   *)
(* failure is the trading cycle's.                                         *)
Tier1CheckFails ==
    /\ main = "tier1" /\ "tier1" \in enabled /\ waiting = "no"
    /\ failures < MaxFailures
    /\ failures' = failures + 1
    /\ PhaseOver
    /\ UNCHANGED <<cycles, worldVars, lessons, mark, runVars>>

(* Slip: leaving the phase at the first step that raises.                  *)
TakeResultOrLeave ==
    /\ waiting = "result" /\ reply[main] # "none"
    /\ waiting' = "no"
    /\ errors' = IF reply[main] = "raised" THEN errors \union {main} ELSE errors
    /\ main' = IF reply[main] = "raised" THEN "trade" ELSE After(main)
    /\ UNCHANGED <<cycles, enabled, threadVars, submitted,
                   cycleNow, fresh, lessonsVars>>

TakeResult ==
    /\ waiting = "result" /\ reply[main] # "none"
    /\ waiting' = "no"
    /\ errors' = IF reply[main] = "raised" THEN errors \union {main} ELSE errors
    /\ main' = After(main)
    /\ UNCHANGED <<cycles, enabled, threadVars, submitted,
                   cycleNow, fresh, lessonsVars>>

(* The worker is still running when the time is up.                        *)
TimesOut ==
    /\ waiting = "result" /\ reply[main] = "none"
    /\ waiting' = "join"
    /\ errors' = errors \union {main}
    /\ UNCHANGED <<cycles, main, enabled, threadVars, submitted,
                   cycleNow, fresh, lessonsVars>>

(* Slip: shutdown(wait=False).                                             *)
JoinAtOnce ==
    /\ waiting = "join"
    /\ waiting' = "no"
    /\ main' = After(main)
    /\ UNCHANGED <<cycles, enabled, threadVars, errors, submitted,
                   cycleNow, fresh, lessonsVars>>

(* Slip: the worker's exception surfacing from the pool's exit.            *)
JoinRequiresReply ==
    /\ waiting = "join" /\ reply[main] = "ok"
    /\ waiting' = "no"
    /\ main' = After(main)
    /\ UNCHANGED <<cycles, enabled, threadVars, errors, submitted,
                   cycleNow, fresh, lessonsVars>>

Join ==
    /\ waiting = "join" /\ main \notin workers
    /\ waiting' = "no"
    /\ main' = After(main)
    /\ UNCHANGED <<cycles, enabled, threadVars, errors, submitted,
                   cycleNow, fresh, lessonsVars>>

(* The cycle goes on to the scanner and the agents, and ends.              *)
Trade ==
    /\ main = "trade"
    /\ PhaseOver
    /\ UNCHANGED <<cycles, lessonsVars>>

-----------------------------------------------------------------------------
(* The worker threads *)

WorkerEnds(s, r) ==
    /\ workers' = workers \ {s}
    /\ reply' = [reply EXCEPT ![s] = r]
    /\ UNCHANGED <<cycles, main, waiting, enabled, errors, submitted,
                   cycleNow, fresh>>

(* Ingestion commits one market at a time.                                 *)
IngestMarket(q) ==
    /\ "ingestion" \in workers
    /\ Resolve(q)
    /\ fresh' = fresh \union {q}
    /\ UNCHANGED <<cycles, main, waiting, enabled, threadVars, errors, submitted,
                   cycleNow>>

(* Ingestion and the evaluation, which raise when they fail.               *)
OtherStepEnds(s) ==
    /\ s \in workers \ {"lessons"}
    /\ \E r \in {"ok", "raised"} : WorkerEnds(s, r)
    /\ UNCHANGED lessonsVars

LessonsGoesOn ==
    /\ "lessons" \in workers
    /\ RunStep("inline") /\ phase'["inline"] # "idle"
    /\ UNCHANGED phaseVars

LessonsEnds ==
    /\ "lessons" \in workers
    /\ RunStep("inline") /\ phase'["inline"] = "idle"
    /\ WorkerEnds("lessons", IF phase["inline"] = "mark" THEN "ok" ELSE "raised")

LessonsFails ==
    /\ "lessons" \in workers
    /\ FailRun("inline")
    /\ WorkerEnds("lessons", "raised")

LessonsStep == LessonsGoesOn \/ LessonsEnds
OtherStep == \E s \in Steps : OtherStepEnds(s)

-----------------------------------------------------------------------------
(* `timeout 1800`: the threads end with their process.                     *)
Kill ==
    /\ main # "off" /\ failures < MaxFailures
    /\ failures' = failures + 1
    /\ PhaseOver
    /\ Over("inline")
    /\ UNCHANGED <<cycles, worldVars, lessons, mark>>

(* The world and the cron's run of lessons_summary.                        *)
Elsewhere ==
    /\ \/ Tick
       \/ \E q \in Predictions : Resolve(q)
       \/ StartRun("cron") \/ RunStep("cron") \/ FailRun("cron")
    /\ UNCHANGED phaseVars

MainStep ==
    \/ SkipStep \/ Submit \/ TakeResult \/ TimesOut \/ Join \/ Trade

PhaseNext ==
    \/ StartPhase \/ MainStep \/ Tier1CheckFails
    \/ \E q \in Predictions : IngestMarket(q)
    \/ OtherStep \/ LessonsStep \/ LessonsFails
    \/ Kill \/ Elsewhere

PhaseSpec == PhaseInit /\ [][PhaseNext]_<<phaseVars, lessonsVars>>

(* The main thread runs, and its timer.  Cron starts its run every day,    *)
(* and each run it has started goes on.                                    *)
FairMain == WF_<<phaseVars, lessonsVars>>(MainStep)
FairCron == /\ WF_<<phaseVars, lessonsVars>>(StartRun("cron") /\ UNCHANGED phaseVars)
            /\ WF_<<phaseVars, lessonsVars>>(RunStep("cron") /\ UNCHANGED phaseVars)

(* Each HTTP and database call of a worker comes to an end; an insert that *)
(* waits for the cron's row is next in the queue for it when it is freed.  *)
FairPhaseSpec ==
    /\ PhaseSpec /\ FairMain /\ FairCron
    /\ WF_<<phaseVars, lessonsVars>>(OtherStep)
    /\ SF_<<phaseVars, lessonsVars>>(LessonsStep)

-----------------------------------------------------------------------------
(* The types of the variables of the phase. *)
PhaseTypeOK ==
    /\ cycles \in 0 .. MaxCycles
    /\ main \in Steps \union {"trade", "off"}
    /\ waiting \in {"no", "result", "join"}
    /\ enabled \subseteq Steps /\ workers \subseteq Steps
    /\ reply \in [Steps -> {"none", "ok", "raised"}]
    /\ errors \subseteq submitted /\ submitted \subseteq enabled
    /\ cycleNow \in Times /\ fresh \subseteq resolved
    /\ "lessons" \in workers <=> phase["inline"] # "idle"

(* What this phase's ingestion resolved has its lesson before the cycle    *)
(* trades, when the lessons step reports no failure, or is kept from it by *)
(* an older lesson: "freshly-resolved outcomes and newly-derived lessons   *)
(* land in the TradingAgentTask payload that follows" (feedback_phase.py:  *)
(* 5-7), beside the cron's run and past any timeout.                       *)
FreshLessons ==
    main = "trade" /\ reply["lessons"] = "ok" =>
        \A q \in fresh : InWindow(q, cycleNow) =>
            \E l \in lessons : created[l] <= created[q]

(* Whatever times out, no two steps run side by side, so that the lessons  *)
(* see the phase's outcomes, and none is left running when the cycle goes  *)
(* on to trade (feedback_phase.py:85-87).                                  *)
StepsInOrder ==
    \A s \in workers : s = main /\ waiting # "no"

(* "an exception from outcome ingestion never prevents lessons from        *)
(* running, and a failure in either never prevents the trading-cycle       *)
(* itself from proceeding" (feedback_phase.py:9-12): when the cycle trades *)
(* each of the two that is on was run, and what failed is reported.        *)
StepsIsolated ==
    main = "trade" =>
        /\ enabled \ {"tier1"} \subseteq submitted
        /\ \A s \in submitted : s \in errors \/ reply[s] = "ok"

(* The trading cycle gets through its feedback phase if workers end.       *)
PhaseEnds == main # "off" ~> main = "off"
=============================================================================
