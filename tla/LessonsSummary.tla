---------------------------- MODULE LessonsSummary ----------------------------
(***************************************************************************)
(* lessons_summary.run_once, run by the daily cron and inline by every     *)
(* trading cycle: one transaction that inserts a lesson for each           *)
(* surprising prediction of the lookback window, newest first, against a   *)
(* unique index on the prediction's id.  An insert that meets the other    *)
(* run's uncommitted row waits for that transaction; one that meets a      *)
(* committed row raises IntegrityError, and the handler rolls the whole    *)
(* session back before it goes on with the next row.                       *)
(*                                                                         *)
(* A prediction surprises or not by its p_raw and its outcome alone, as no *)
(* code writes the trades whose notional the PnL band needs.               *)
(***************************************************************************)
EXTENDS Naturals, Sequences, SequencesExt

CONSTANTS
    Predictions,   \* ids of predictions whose outcome will surprise
    MaxTime,       \* bound: the clock
    MaxFailures,   \* bound: runs that fail or are killed
    Lookback       \* LESSONS_LOOKBACK_DAYS

ASSUME LessonsAssumption ==
    /\ IsFiniteSet(Predictions)
    /\ MaxTime \in Nat /\ MaxFailures \in Nat /\ Lookback \in Nat

Runs == {"cron", "inline"}
Times == 0 .. MaxTime

VARIABLES
    clock,
    created,    \* predictions.created_at
    resolved,   \* predictions with an outcome
    lessons,    \* predictions with a committed lesson
    mark,       \* system_state.last_lessons_summary_at
    phase, now,
    rows,       \* the selected rows a run has not reached
    mine,       \* the lessons its open transaction has inserted
    inserted,   \* the number it will return
    failures

worldVars == <<clock, created, resolved>>
runVars   == <<phase, now, rows, mine, inserted>>
vars == <<worldVars, lessons, mark, runVars, failures>>

Other(r) == CHOOSE o \in Runs : o # r

Init ==
    /\ clock = 0
    /\ created \in [Predictions -> Times]
    /\ resolved = {} /\ lessons = {}
    /\ mark = 0
    /\ phase = [r \in Runs |-> "idle"]
    /\ now = [r \in Runs |-> 0]
    /\ rows = [r \in Runs |-> <<>>]
    /\ mine = [r \in Runs |-> {}]
    /\ inserted = [r \in Runs |-> 0]
    /\ failures = 0

-----------------------------------------------------------------------------
Tick ==
    /\ clock < MaxTime
    /\ clock' = clock + 1
    /\ UNCHANGED <<created, resolved, lessons, mark, runVars, failures>>

(* Outcome ingestion, some time after the prediction was made; predictions *)
(* of one cycle resolve with their markets, at different times.            *)
Resolve(q) ==
    /\ q \notin resolved /\ created[q] <= clock
    /\ resolved' = resolved \union {q}
    /\ UNCHANGED <<clock, created, lessons, mark, runVars, failures>>

-----------------------------------------------------------------------------
StartRunAt(r, t) ==
    /\ phase[r] = "idle"
    /\ phase' = [phase EXCEPT ![r] = "select"]
    /\ now' = [now EXCEPT ![r] = t]
    /\ UNCHANGED <<worldVars, lessons, mark, rows, mine, inserted, failures>>

(* The inline run has the time its cycle started.                          *)
StartRun(r) ==
    \E t \in 0 .. clock : (r = "cron" => t = clock) /\ StartRunAt(r, t)

InWindow(q, t) == created[q] + Lookback >= t

(* ORDER BY created_at DESC leaves the order of equal times open.          *)
NewestFirst(s) ==
    \A i, j \in DOMAIN s : i < j => created[s[i]] >= created[s[j]]

SelectResolved(r) ==
    /\ phase[r] = "select"
    /\ phase' = [phase EXCEPT ![r] = "insert"]
    /\ \E s \in SetToSeqs({q \in resolved : InWindow(q, now[r])}) :
          NewestFirst(s) /\ rows' = [rows EXCEPT ![r] = s]
    /\ UNCHANGED <<worldVars, lessons, mark, now, mine, inserted, failures>>

Inserting(r, q) == phase[r] = "insert" /\ rows[r] # <<>> /\ q = Head(rows[r])
NextRow(r) == rows' = [rows EXCEPT ![r] = Tail(@)]

(* Slip: the table without its unique index.                               *)
InsertUnindexed(r, q) ==
    /\ Inserting(r, q)
    /\ q \notin lessons
    /\ mine' = [mine EXCEPT ![r] = @ \union {q}]
    /\ inserted' = [inserted EXCEPT ![r] = @ + 1]
    /\ NextRow(r)
    /\ UNCHANGED <<worldVars, lessons, mark, phase, now, failures>>

InsertLesson(r, q) ==
    /\ Inserting(r, q)
    /\ q \notin lessons \union mine[Other(r)]
    /\ mine' = [mine EXCEPT ![r] = @ \union {q}]
    /\ inserted' = [inserted EXCEPT ![r] = @ + 1]
    /\ NextRow(r)
    /\ UNCHANGED <<worldVars, lessons, mark, phase, now, failures>>

(* IntegrityError: the rollback takes every lesson of this run with it,    *)
(* and not the count.                                                      *)
InsertConflict(r, q) ==
    /\ Inserting(r, q)
    /\ q \in lessons
    /\ mine' = [mine EXCEPT ![r] = {}]
    /\ NextRow(r)
    /\ UNCHANGED <<worldVars, lessons, mark, phase, now, inserted, failures>>

(* Slip: rolling back once more on the way out.                            *)
CommitNothing(r) ==
    /\ phase[r] = "insert" /\ rows[r] = <<>>
    /\ mine' = [mine EXCEPT ![r] = {}]
    /\ phase' = [phase EXCEPT ![r] = "mark"]
    /\ UNCHANGED <<worldVars, lessons, mark, now, rows, inserted, failures>>

Commit(r) ==
    /\ phase[r] = "insert" /\ rows[r] = <<>>
    /\ lessons' = lessons \union mine[r]
    /\ mine' = [mine EXCEPT ![r] = {}]
    /\ phase' = [phase EXCEPT ![r] = "mark"]
    /\ UNCHANGED <<worldVars, mark, now, rows, inserted, failures>>

(* What is uncommitted is rolled back.                                     *)
Over(r) ==
    /\ phase' = [phase EXCEPT ![r] = "idle"]
    /\ now' = [now EXCEPT ![r] = 0]
    /\ rows' = [rows EXCEPT ![r] = <<>>]
    /\ mine' = [mine EXCEPT ![r] = {}]
    /\ inserted' = [inserted EXCEPT ![r] = 0]

WriteHighWaterMark(r) ==
    /\ phase[r] = "mark"
    /\ mark' = now[r]
    /\ Over(r)
    /\ UNCHANGED <<worldVars, lessons, failures>>

(* Each waits for a row of the other, which takes equal creation times in  *)
(* two orders: PostgreSQL cancels r, which is no IntegrityError, and the   *)
(* waiting insert of the other is next in the queue for r's row.           *)
DeadlockVictim(r, q) ==
    LET o == Other(r) IN
    /\ \E held \in mine[o] : Inserting(r, held)
    /\ q \in mine[r] /\ Inserting(o, q)
    /\ phase' = [phase EXCEPT ![r] = "idle"]
    /\ now' = [now EXCEPT ![r] = 0]
    /\ rows' = [rows EXCEPT ![r] = <<>>, ![o] = Tail(@)]
    /\ mine' = [mine EXCEPT ![r] = {}, ![o] = @ \union {q}]
    /\ inserted' = [inserted EXCEPT ![r] = 0, ![o] = @ + 1]
    /\ UNCHANGED <<worldVars, lessons, mark, failures>>

FailRun(r) ==
    /\ phase[r] # "idle" /\ failures < MaxFailures
    /\ failures' = failures + 1
    /\ Over(r)
    /\ UNCHANGED <<worldVars, lessons, mark>>

-----------------------------------------------------------------------------
RunStep(r) ==
    \/ SelectResolved(r)
    \/ \E q \in Predictions :
          InsertLesson(r, q) \/ InsertConflict(r, q) \/ DeadlockVictim(r, q)
    \/ Commit(r) \/ WriteHighWaterMark(r)

Next ==
    \/ Tick
    \/ \E q \in Predictions : Resolve(q)
    \/ \E r \in Runs : StartRun(r) \/ RunStep(r) \/ FailRun(r)

Spec == Init /\ [][Next]_vars

(* cron starts a run every day, and a run that started goes on, or its     *)
(* process is killed by `timeout 1800`.                                    *)
FairSpec ==
    /\ Spec
    /\ WF_vars(StartRun("cron"))
    /\ \A r \in Runs : WF_vars(RunStep(r))

-----------------------------------------------------------------------------
(* The types of the variables. *)
TypeOK ==
    /\ clock \in Times /\ created \in [Predictions -> Times]
    /\ resolved \subseteq Predictions /\ lessons \subseteq Predictions
    /\ mark \in Times
    /\ phase \in [Runs -> {"idle", "select", "insert", "mark"}]
    /\ now \in [Runs -> Times]
    /\ \A r \in Runs : rows[r] \in Seq(Predictions) /\ IsInjective(rows[r])
    /\ mine \in [Runs -> SUBSET Predictions]
    /\ \A r \in Runs : inserted[r] >= Cardinality(mine[r])
    /\ failures \in 0 .. MaxFailures

(* Cron and inline runs that overlap never write two lessons about one     *)
(* prediction, whichever of them waits, rolls back, commits or dies        *)
(* (migration 0002).  A lesson is about an outcome that is known.          *)
OneLessonEach ==
    /\ mine["cron"] \intersect mine["inline"] = {}
    /\ \A r \in Runs : mine[r] \intersect lessons = {} /\ mine[r] \subseteq resolved

(* The surprise that is older than every lesson gets its lesson, unless it *)
(* leaves the window first, through failures, deadlocks and overlaps:      *)
(* only an older lesson can keep a prediction from being learned.          *)
OldestIsLearned ==
    \A q \in Predictions :
        q \in resolved ~> \/ \E l \in lessons : created[l] <= created[q]
                          \/ ~InWindow(q, clock)

-----------------------------------------------------------------------------
(* "Selects resolved predictions in the lookback window, filters via the   *)
(* surprise heuristic, and INSERTs new rows" and "Re-runs are idempotent"  *)
(* (lessons_summary.py:3-5): a resolved surprise gets its lesson, unless   *)
(* it leaves the window first.                                             *)
SurpriseIsLearned ==
    \A q \in Predictions :
        q \in resolved ~> q \in lessons \/ ~InWindow(q, clock)
=============================================================================
