------------------------ MODULE FeedbackPhaseProofs ------------------------
(***************************************************************************)
(* The safety of LessonsSummary and of FeedbackPhase, which extends it,    *)
(* for any finite set of predictions, any times and any bounds.  First the *)
(* two overlapping runs: what they have inserted is disjoint, new and      *)
(* about a known outcome.  Then the phase with its worker threads: the     *)
(* order and the isolation of the steps, and that the cycle trades with    *)
(* the lessons of what it has just ingested, whatever the cron's run does  *)
(* beside it; each of its steps is one of the two runs or leaves them be.  *)
(***************************************************************************)
EXTENDS FeedbackPhase, FiniteSetTheorems, TLAPS

-----------------------------------------------------------------------------
(* The runs of LessonsSummary.  Counts says what the number a run returns  *)
(* bounds, and RowsResolved where its rows come from.                      *)

(* The types that need no counting.                                        *)
PlainTypes ==
    /\ clock \in Times /\ created \in [Predictions -> Times]
    /\ resolved \subseteq Predictions /\ lessons \subseteq Predictions
    /\ mark \in Times
    /\ phase \in [Runs -> {"idle", "select", "insert", "mark"}]
    /\ now \in [Runs -> Times]
    /\ rows \in [Runs -> Seq(Predictions)]
    /\ mine \in [Runs -> SUBSET Predictions]
    /\ inserted \in [Runs -> Nat]
    /\ failures \in 0 .. MaxFailures

RowsResolved ==
    \A r \in Runs :
       /\ \A i \in DOMAIN rows[r] : rows[r][i] \in resolved
       /\ IsInjective(rows[r])

Counts == \A r \in Runs : inserted[r] >= Cardinality(mine[r])

Inv == PlainTypes /\ RowsResolved /\ Counts /\ OneLessonEach

-----------------------------------------------------------------------------
LEMMA OtherRun ==
  \A r \in Runs : /\ Other(r) \in Runs /\ Other(r) # r
                  /\ \A o \in Runs : o = r \/ o = Other(r)
  BY DEF Other, Runs

(* A subset of the predictions is finite, and a prediction more counts for *)
(* at most one.                                                            *)
LEMMA OneMore ==
  ASSUME NEW S \in SUBSET Predictions, NEW q \in Predictions
  PROVE  /\ Cardinality(S) \in Nat /\ Cardinality(S \union {q}) \in Nat
         /\ Cardinality(S \union {q}) <= Cardinality(S) + 1
<1>1. IsFiniteSet(S) /\ IsFiniteSet(S \union {q})
  BY FS_Subset, FS_AddElement, LessonsAssumption
<1>2. Cardinality(S) \in Nat /\ Cardinality(S \union {q}) \in Nat
  BY <1>1, FS_CardinalityType
<1> QED
  BY <1>1, <1>2, FS_AddElement

(* What SELECT returns: each row once, of the set it selects from.         *)
LEMMA SelectedRows ==
  ASSUME NEW S \in SUBSET Predictions, NEW s \in SetToSeqs(S)
  PROVE  s \in Seq(S) /\ IsInjective(s)
<1>1. IsFiniteSet(S)
  BY FS_Subset, LessonsAssumption
<1>2. Cardinality(S) \in Nat
  BY <1>1, FS_CardinalityType
<1> QED
  BY <1>2 DEF SetToSeqs, IsInjective

(* The rest of a run's rows, after the first.                              *)
LEMMA RestOfRows ==
  ASSUME NEW s \in Seq(Predictions), s # <<>>, IsInjective(s)
  PROVE  /\ Head(s) \in Predictions /\ Tail(s) \in Seq(Predictions)
         /\ Head(s) = s[1] /\ 1 \in DOMAIN s
         /\ IsInjective(Tail(s))
         /\ \A i \in DOMAIN Tail(s) : \E j \in DOMAIN s : Tail(s)[i] = s[j]
<1>1. /\ Head(s) \in Predictions /\ Tail(s) \in Seq(Predictions)
      /\ Head(s) = s[1] /\ 1 \in DOMAIN s
  OBVIOUS
<1>2. \A i \in DOMAIN Tail(s) : i + 1 \in DOMAIN s /\ Tail(s)[i] = s[i + 1]
  OBVIOUS
<1>3. DOMAIN Tail(s) \subseteq Nat
  BY <1>1
<1>4. IsInjective(Tail(s))
  BY <1>2, <1>3 DEF IsInjective
<1> QED
  BY <1>1, <1>2, <1>4

-----------------------------------------------------------------------------
LEMMA InvInit == Init => Inv
<1> SUFFICES ASSUME Init PROVE Inv
  OBVIOUS
<1>1. Cardinality({}) = 0
  BY FS_EmptySet
<1>2. PlainTypes
  BY LessonsAssumption DEF Init, PlainTypes, Times
<1>3. RowsResolved /\ OneLessonEach
  BY DEF Init, RowsResolved, OneLessonEach, IsInjective, Runs
<1>4. Counts
  BY <1>1 DEF Init, Counts
<1> QED
  BY <1>2, <1>3, <1>4 DEF Inv

(* The steps of a run that neither insert nor commit: its rows and its     *)
(* lessons shrink, or it forgets them.                                     *)
LEMMA QuietStep ==
  ASSUME Inv, PlainTypes', resolved \subseteq resolved', UNCHANGED lessons,
         \A r \in Runs : rows'[r] = rows[r] \/ rows'[r] = <<>>,
         \A r \in Runs : \/ mine'[r] = mine[r] /\ inserted'[r] = inserted[r]
                         \/ mine'[r] = {}
  PROVE  Inv'
<1>1. Cardinality({}) = 0
  BY FS_EmptySet
<1>2. RowsResolved'
  BY DEF Inv, RowsResolved, IsInjective
<1>3. ASSUME NEW r \in Runs PROVE inserted'[r] >= Cardinality(mine'[r])
  <2>1. CASE mine'[r] = mine[r] /\ inserted'[r] = inserted[r]
    BY <2>1 DEF Inv, Counts
  <2>2. CASE mine'[r] = {}
    <3>1. inserted'[r] \in Nat /\ Cardinality(mine'[r]) = 0
      BY <1>1, <2>2 DEF PlainTypes
    <3> QED
      BY <3>1
  <2> QED
    BY <2>1, <2>2
<1>4. OneLessonEach'
  BY DEF Inv, OneLessonEach, Runs
<1> QED
  BY <1>2, <1>3, <1>4 DEF Inv, Counts

LEMMA SelectStep ==
  ASSUME Inv, NEW r \in Runs, SelectResolved(r)
  PROVE  Inv'
<1> DEFINE S == {q \in resolved : InWindow(q, now[r])}
<1>1. PICK s \in SetToSeqs(S) : rows' = [rows EXCEPT ![r] = s]
  BY DEF SelectResolved
<1>2. s \in Seq(S) /\ IsInjective(s) /\ S \subseteq Predictions
  BY <1>1, SelectedRows DEF Inv, PlainTypes
<1>3. s \in Seq(Predictions)
  BY <1>2
<1>4. PlainTypes'
  BY <1>1, <1>3 DEF SelectResolved, worldVars, Inv, PlainTypes
<1>5. RowsResolved'
  BY <1>1, <1>2 DEF SelectResolved, worldVars, Inv, PlainTypes, RowsResolved
<1>6. (Counts /\ OneLessonEach)'
  BY DEF SelectResolved, worldVars, Inv, Counts, OneLessonEach
<1> QED
  BY <1>4, <1>5, <1>6 DEF Inv

(* A lesson is inserted by r: its own row, or the one the victim of a      *)
(* deadlock held.                                                          *)
LEMMA InsertStep ==
  ASSUME Inv, NEW r \in Runs, NEW q \in Predictions, InsertLesson(r, q)
  PROVE  Inv'
<1> USE DEF InsertLesson, Inserting, NextRow, worldVars, Inv
<1>1. q \in resolved /\ rows'[r] = Tail(rows[r])
  BY RestOfRows DEF PlainTypes, RowsResolved
<1>2. PlainTypes'
  BY RestOfRows DEF PlainTypes, RowsResolved
<1>3. RowsResolved'
  BY <1>1, RestOfRows DEF PlainTypes, RowsResolved
<1>4. Counts'
  <2>1. mine[r] \in SUBSET Predictions /\ inserted[r] \in Nat
        /\ inserted[r] >= Cardinality(mine[r])
    BY DEF PlainTypes, Counts
  <2>2. inserted'[r] = inserted[r] + 1 /\ mine'[r] = mine[r] \union {q}
    BY DEF PlainTypes
  <2>3. inserted'[r] >= Cardinality(mine'[r])
    BY <2>1, <2>2, OneMore
  <2>4. \A p \in Runs \ {r} : inserted'[p] = inserted[p] /\ mine'[p] = mine[p]
    BY DEF PlainTypes
  <2> QED
    BY <2>3, <2>4 DEF Counts
<1>5. OneLessonEach'
  BY <1>1, OtherRun DEF PlainTypes, OneLessonEach, Runs
<1> QED
  BY <1>2, <1>3, <1>4, <1>5

LEMMA ConflictStep ==
  ASSUME Inv, NEW r \in Runs, NEW q \in Predictions, InsertConflict(r, q)
  PROVE  Inv'
<1> USE DEF InsertConflict, Inserting, NextRow, worldVars, Inv
<1>1. Cardinality({}) = 0
  BY FS_EmptySet
<1>2. PlainTypes'
  BY RestOfRows DEF PlainTypes, RowsResolved
<1>3. RowsResolved'
  BY RestOfRows DEF PlainTypes, RowsResolved
<1>4. Counts'
  BY <1>1 DEF PlainTypes, Counts
<1>5. OneLessonEach'
  BY DEF PlainTypes, OneLessonEach, Runs
<1> QED
  BY <1>2, <1>3, <1>4, <1>5

LEMMA CommitStep ==
  ASSUME Inv, NEW r \in Runs, Commit(r)
  PROVE  Inv'
<1> USE DEF Commit, worldVars, Inv
<1>1. Cardinality({}) = 0
  BY FS_EmptySet
<1>2. PlainTypes'
  BY DEF PlainTypes
<1>3. RowsResolved'
  BY DEF RowsResolved
<1>4. Counts'
  BY <1>1 DEF PlainTypes, Counts
<1>5. OneLessonEach'
  BY DEF PlainTypes, OneLessonEach, Runs
<1> QED
  BY <1>2, <1>3, <1>4, <1>5

(* The survivor of a deadlock has the row of the victim, which rolls back. *)
LEMMA DeadlockStep ==
  ASSUME Inv, NEW r \in Runs, NEW q \in Predictions, DeadlockVictim(r, q)
  PROVE  Inv'
<1> DEFINE o == Other(r)
<1> USE DEF Inserting, worldVars, Inv
<1>1. o \in Runs /\ o # r /\ \A p \in Runs : p = r \/ p = o
  BY OtherRun
<1>2. /\ rows[o] # <<>> /\ q = Head(rows[o]) /\ q \in mine[r]
      /\ rows' = [rows EXCEPT ![r] = <<>>, ![o] = Tail(@)]
      /\ mine' = [mine EXCEPT ![r] = {}, ![o] = @ \union {q}]
      /\ inserted' = [inserted EXCEPT ![r] = 0, ![o] = @ + 1]
      /\ phase' = [phase EXCEPT ![r] = "idle"] /\ now' = [now EXCEPT ![r] = 0]
      /\ UNCHANGED <<worldVars, lessons, mark, failures>>
  BY DEF DeadlockVictim
<1> HIDE DEF o
<1>3. Cardinality({}) = 0
  BY FS_EmptySet
<1>4. PlainTypes'
  <2>1. rows' \in [Runs -> Seq(Predictions)]
    <3>1. Tail(rows[o]) \in Seq(Predictions)
      BY <1>1, <1>2, RestOfRows DEF PlainTypes, RowsResolved
    <3>2. <<>> \in Seq(Predictions)
      OBVIOUS
    <3> QED
      BY <1>1, <1>2, <3>1, <3>2 DEF PlainTypes
  <2>2. mine' \in [Runs -> SUBSET Predictions] /\ inserted' \in [Runs -> Nat]
    BY <1>1, <1>2 DEF PlainTypes
  <2>3. phase' \in [Runs -> {"idle", "select", "insert", "mark"}]
        /\ now' \in [Runs -> Times]
    BY <1>1, <1>2, LessonsAssumption DEF PlainTypes, Times
  <2> QED
    BY <1>2, <2>1, <2>2, <2>3 DEF PlainTypes
<1>5. rows'[r] = <<>> /\ rows'[o] = Tail(rows[o])
  BY <1>1, <1>2 DEF PlainTypes
<1>6. RowsResolved'
  <2>1. rows[o] \in Seq(Predictions) /\ IsInjective(rows[o])
    BY <1>1 DEF PlainTypes, RowsResolved
  <2>2. IsInjective(Tail(rows[o]))
        /\ \A i \in DOMAIN Tail(rows[o]) : Tail(rows[o])[i] \in resolved
    BY <1>1, <1>2, <2>1, RestOfRows DEF RowsResolved
  <2>3. IsInjective(<<>>) /\ \A i \in DOMAIN <<>> : <<>>[i] \in resolved
    BY DEF IsInjective
  <2>4. ASSUME NEW p \in Runs
        PROVE  IsInjective(rows'[p]) /\ \A i \in DOMAIN rows'[p] : rows'[p][i] \in resolved
    <3>1. CASE p = r
      BY <1>5, <2>3, <3>1
    <3>2. CASE p = o
      BY <1>5, <2>2, <3>2
    <3> QED
      BY <1>1, <3>1, <3>2
  <2> QED
    BY <1>2, <2>4 DEF RowsResolved
<1>7. /\ mine'[r] = {} /\ mine'[o] = mine[o] \union {q}
      /\ inserted'[r] = 0 /\ inserted'[o] = inserted[o] + 1
  BY <1>1, <1>2 DEF PlainTypes
<1>8. Counts'
  <2>1. mine[o] \in SUBSET Predictions /\ inserted[o] \in Nat
        /\ inserted[o] >= Cardinality(mine[o])
    BY <1>1 DEF PlainTypes, Counts
  <2>2. inserted'[o] >= Cardinality(mine'[o])
    BY <1>7, <2>1, OneMore
  <2>3. inserted'[r] >= Cardinality(mine'[r])
    BY <1>3, <1>7
  <2> QED
    BY <1>1, <2>2, <2>3 DEF Counts
<1>9. OneLessonEach'
  BY <1>1, <1>2, <1>7 DEF PlainTypes, OneLessonEach, Runs
<1> QED
  BY <1>4, <1>6, <1>8, <1>9

LEMMA InvNext == Inv /\ [Next]_vars => Inv'
<1> SUFFICES ASSUME Inv, [Next]_vars PROVE Inv'
  OBVIOUS
<1> USE LessonsAssumption DEF worldVars, runVars
<1>1. CASE Tick
  <2>1. PlainTypes'
    BY <1>1 DEF Tick, Inv, PlainTypes, Times
  <2> QED
    BY <1>1, <2>1, QuietStep DEF Tick
<1>2. ASSUME NEW q \in Predictions, Resolve(q) PROVE Inv'
  <2>1. PlainTypes'
    BY <1>2 DEF Resolve, Inv, PlainTypes
  <2> QED
    BY <1>2, <2>1, QuietStep DEF Resolve
<1>3. ASSUME NEW r \in Runs, StartRun(r) PROVE Inv'
  <2>1. PlainTypes'
    BY <1>3 DEF StartRun, StartRunAt, Inv, PlainTypes, Times
  <2> QED
    BY <1>3, <2>1, QuietStep DEF StartRun, StartRunAt
<1>4. ASSUME NEW r \in Runs, WriteHighWaterMark(r) \/ FailRun(r) PROVE Inv'
  <2>1. PlainTypes'
    <3>1. <<>> \in Seq(Predictions) /\ 0 \in Times
      BY DEF Times
    <3>2. /\ phase' \in [Runs -> {"idle", "select", "insert", "mark"}]
          /\ now' \in [Runs -> Times] /\ rows' \in [Runs -> Seq(Predictions)]
          /\ mine' \in [Runs -> SUBSET Predictions] /\ inserted' \in [Runs -> Nat]
      <4>1. Over(r)
        BY <1>4 DEF WriteHighWaterMark, FailRun
      <4>2. rows' \in [Runs -> Seq(Predictions)]
        BY <4>1, <3>1 DEF Over, Inv, PlainTypes
      <4>3. mine' \in [Runs -> SUBSET Predictions] /\ inserted' \in [Runs -> Nat]
        BY <4>1 DEF Over, Inv, PlainTypes
      <4>4. phase' \in [Runs -> {"idle", "select", "insert", "mark"}]
        BY <4>1 DEF Over, Inv, PlainTypes
      <4>5. now' \in [Runs -> Times]
        BY <4>1, <3>1 DEF Over, Inv, PlainTypes
      <4> QED
        BY <4>2, <4>3, <4>4, <4>5
    <3>3. mark' \in Times /\ failures' \in 0 .. MaxFailures
          /\ UNCHANGED <<clock, created, resolved, lessons>>
      BY <1>4 DEF WriteHighWaterMark, FailRun, Inv, PlainTypes
    <3> QED
      BY <3>2, <3>3 DEF Inv, PlainTypes
  <2> QED
    BY <1>4, <2>1, QuietStep DEF WriteHighWaterMark, FailRun, Over, Inv, PlainTypes
<1>5. ASSUME NEW r \in Runs,
             \/ SelectResolved(r) \/ Commit(r)
             \/ \E q \in Predictions :
                   InsertLesson(r, q) \/ InsertConflict(r, q) \/ DeadlockVictim(r, q)
      PROVE  Inv'
  BY <1>5, SelectStep, CommitStep, InsertStep, ConflictStep, DeadlockStep
<1>6. CASE UNCHANGED vars
  <2>1. PlainTypes'
    BY <1>6 DEF vars, Inv, PlainTypes
  <2> QED
    BY <1>6, <2>1, QuietStep DEF vars
<1> QED
  BY <1>1, <1>2, <1>3, <1>4, <1>5, <1>6 DEF Next, RunStep

-----------------------------------------------------------------------------
(* The inductive invariant holds in every reachable state.                 *)
THEOREM Invariance == Spec => []Inv
  BY InvInit, InvNext, PTL DEF Spec

(* The variables keep their types, no run meets a row twice, and the       *)
(* number it returns is never less than what it still holds.               *)
THEOREM LessonsTypeCorrect == Spec => []TypeOK
<1>1. Inv => TypeOK
  BY DEF Inv, PlainTypes, RowsResolved, Counts, TypeOK
<1> QED
  BY <1>1, Invariance, PTL

(* Runs that overlap never write two lessons about one prediction, and     *)
(* none without an outcome, whichever waits, rolls back or dies.           *)
THEOREM LessonsAreUnique == Spec => []OneLessonEach
<1>1. Inv => OneLessonEach
  BY DEF Inv
<1> QED
  BY <1>1, Invariance, PTL
-----------------------------------------------------------------------------
(* The phase of FeedbackPhase.                                             *)

(* The steps the main thread has left behind.                              *)
Done == CASE main = "lessons" -> {"ingestion"}
          [] main = "tier1"   -> {"ingestion", "lessons"}
          [] main = "trade"   -> Steps
          [] OTHER            -> {}

(* Between two phases, nothing of the last one is left.                    *)
OffIsClean ==
    main = "off" => waiting = "no" /\ submitted = {} /\ errors = {} /\ fresh = {}

(* A future is waited for from its submission on, and holds a reply only   *)
(* when its worker has ended.                                              *)
Futures ==
    /\ waiting # "no" => main \in submitted
    /\ submitted \subseteq IF waiting = "no" THEN Done ELSE Done \union {main}
    /\ \A s \in Steps : reply[s] # "none" => s \in submitted \ workers

(* What is behind the main thread was run if it had to, and reported.      *)
DoneReported ==
    /\ (enabled \ {"tier1"}) \intersect Done \subseteq submitted
    /\ \A s \in submitted \intersect Done : s \in errors \/ reply[s] = "ok"
    /\ waiting = "join" => main \in errors

(* The predictions that the phase owes a lesson.                           *)
Due == {q \in fresh : InWindow(q, cycleNow)}

(* q is learned, or an older prediction is, by one of the lessons in L.    *)
Learned(q, L) == \E l \in L : created[l] <= created[q]

(* The inline run still has q before it; or it has passed q by, has only   *)
(* older rows before it, and q is learned if its transaction commits.      *)
InHand(q) ==
    LET s == rows["inline"] IN
    \/ \E i \in DOMAIN s : s[i] = q
    \/ /\ \A i \in DOMAIN s : created[s[i]] <= created[q]
       /\ Learned(q, lessons \union mine["inline"])

LessonsCover ==
    /\ phase["inline"] # "idle" => now["inline"] = cycleNow
    /\ phase["inline"] = "insert" =>
         NewestFirst(rows["inline"]) /\ \A q \in Due : InHand(q)
    /\ phase["inline"] = "mark" \/ reply["lessons"] = "ok" =>
         \A q \in Due : Learned(q, lessons)

(* The control of the phase. *)
Control == PhaseTypeOK /\ StepsInOrder /\ OffIsClean /\ Futures /\ DoneReported

PhaseInv == Inv /\ Control /\ LessonsCover

-----------------------------------------------------------------------------
(* SELECT returns every row of the set: as many rows as it has elements,   *)
(* each once, are all of them.                                             *)
LEMMA SelectedAll ==
  ASSUME NEW S \in SUBSET Predictions, NEW s \in SetToSeqs(S), NEW q \in S
  PROVE  \E i \in DOMAIN s : s[i] = q
<1>1. IsFiniteSet(S) /\ Cardinality(S) \in Nat
  BY FS_Subset, FS_CardinalityType, LessonsAssumption
<1>2. s \in Injection(1 .. Cardinality(S), S)
  BY DEF SetToSeqs, Injection, IsInjective
<1>3. Cardinality(1 .. Cardinality(S)) = Cardinality(S)
  BY <1>1, FS_Interval
<1>4. s \in Surjection(1 .. Cardinality(S), S)
  BY <1>1, <1>2, <1>3, FS_Injection
<1> QED
  BY <1>4 DEF Surjection

LEMMA LaterSteps ==
  /\ After("ingestion") = "lessons" /\ After("lessons") = "tier1"
  /\ After("tier1") = "trade"
  BY DEF After

(* What the main thread has behind it before and after it goes on.         *)
LEMMA DoneGrows ==
  ASSUME main \in Steps, main' = After(main)
  PROVE  Done' = Done \union {main} /\ main' \in Steps \union {"trade"}
<1>1. CASE main = "ingestion"
  BY <1>1, LaterSteps DEF Done, Steps
<1>2. CASE main = "lessons"
  BY <1>2, LaterSteps DEF Done, Steps
<1>3. CASE main = "tier1"
  BY <1>3, LaterSteps DEF Done, Steps
<1> QED
  BY <1>1, <1>2, <1>3 DEF Steps

(* The main thread has a step behind it or before it, not both.            *)
LEMMA NotDone == main \in Steps => main \notin Done
  BY DEF Steps, Done

LEMMA DoneAtTrade == main = "trade" => Done = Steps
  BY DEF Done

-----------------------------------------------------------------------------
(* The inline run beside other steps: what it has in hand it keeps while   *)
(* its rows stand and lessons are only added.                              *)
LEMMA CoverStands ==
  ASSUME LessonsCover, UNCHANGED <<created, cycleNow, fresh>>,
         lessons \subseteq lessons', reply'["lessons"] = reply["lessons"],
         phase'["inline"] = phase["inline"], now'["inline"] = now["inline"],
         rows'["inline"] = rows["inline"], mine'["inline"] = mine["inline"]
  PROVE  LessonsCover'
<1>1. Due' = Due
  BY DEF Due, InWindow
<1>2. \A q \in Due : Learned(q, lessons) => Learned(q, lessons)'
  BY DEF Learned
<1>3. \A q \in Due : InHand(q) => InHand(q)'
  BY DEF InHand, Learned
<1>4. NewestFirst(rows["inline"]) => NewestFirst(rows["inline"])'
  BY DEF NewestFirst
<1> QED
  BY <1>1, <1>2, <1>3, <1>4 DEF LessonsCover

(* It inserts its next row, or meets the other's lesson and rolls back     *)
(* what it has: every row it has passed is at least as new as that one.    *)
LEMMA CoverAdvances ==
  ASSUME Inv, LessonsCover, UNCHANGED <<created, cycleNow, fresh>>,
         lessons \subseteq lessons', reply'["lessons"] = reply["lessons"],
         phase["inline"] = "insert", phase'["inline"] = "insert",
         now'["inline"] = now["inline"],
         rows["inline"] # <<>>, rows'["inline"] = Tail(rows["inline"]),
         \/ mine'["inline"] = mine["inline"] \union {Head(rows["inline"])}
         \/ Head(rows["inline"]) \in lessons
  PROVE  LessonsCover'
<1> DEFINE s == rows["inline"]
<1>1. s \in Seq(Predictions) /\ IsInjective(s) /\ s # <<>>
  BY DEF Inv, PlainTypes, RowsResolved, Runs
<1>2. /\ Tail(s) \in Seq(Predictions) /\ Head(s) = s[1]
      /\ Head(s) \in Predictions /\ 1 \in DOMAIN s
  BY <1>1, RestOfRows
<1>3. /\ \A i \in DOMAIN Tail(s) : i + 1 \in DOMAIN s /\ Tail(s)[i] = s[i + 1]
      /\ DOMAIN Tail(s) \subseteq Nat
  BY <1>1, <1>2
<1>4. \A i \in DOMAIN s : i = 1 \/ \E j \in DOMAIN Tail(s) : Tail(s)[j] = s[i]
  <2> SUFFICES ASSUME NEW i \in DOMAIN s, i # 1
               PROVE  \E j \in DOMAIN Tail(s) : Tail(s)[j] = s[i]
    OBVIOUS
  <2>1. PICK j \in DOMAIN Tail(s) : j + 1 = i
    <3>1. DOMAIN s = 1 .. Len(s) /\ Len(s) \in Nat
      BY <1>1
    <3>2. DOMAIN Tail(s) = 1 .. (Len(s) - 1)
      BY <1>1, <1>2
    <3>3. i - 1 \in DOMAIN Tail(s) /\ (i - 1) + 1 = i
      BY <3>1, <3>2
    <3> QED
      BY <3>3
  <2> QED
    BY <1>3, <2>1
<1>5. created \in [Predictions -> Times] /\ created' = created
  BY DEF Inv, PlainTypes
<1>6. NewestFirst(s) /\ \A q \in Due : InHand(q)
  BY DEF LessonsCover
<1>7. NewestFirst(Tail(s))
  BY <1>3, <1>6 DEF NewestFirst
<1>8. \A i \in DOMAIN Tail(s) : created[Tail(s)[i]] <= created[s[1]]
  BY <1>2, <1>3, <1>6 DEF NewestFirst
<1>9. Due' = Due
  BY DEF Due, InWindow
<1>10. ASSUME NEW q \in Due PROVE InHand(q)'
  <2> DEFINE L == lessons' \union mine'["inline"]
  <2>1. (\E i \in DOMAIN Tail(s) : Tail(s)[i] = q)
        \/ ((\A i \in DOMAIN Tail(s) : created[Tail(s)[i]] <= created[q])
            /\ \E l \in L : created[l] <= created[q])
    <3>1. CASE \E i \in DOMAIN s : i # 1 /\ s[i] = q
      BY <1>4, <3>1
    <3>2. CASE s[1] = q
      <4>1. q \in L
        BY <1>2, <3>2
      <4>2. created[q] \in Nat
        BY <1>2, <1>5, <3>2 DEF Times
      <4> QED
        BY <1>8, <3>2, <4>1, <4>2
    <3>3. CASE /\ \A i \in DOMAIN s : created[s[i]] <= created[q]
               /\ Learned(q, lessons \union mine["inline"])
      <4>1. created[s[1]] <= created[q]
        BY <1>2, <3>3
      <4>2. \E l \in L : created[l] <= created[q]
        BY <1>2, <3>3, <4>1 DEF Learned
      <4> QED
        BY <1>3, <3>3, <4>2
    <3> QED
      BY <1>6, <3>1, <3>2, <3>3 DEF InHand
  <2> QED
    BY <1>5, <2>1 DEF InHand, Learned
<1>11. NewestFirst(rows["inline"])'
  BY <1>5, <1>7 DEF NewestFirst
<1>12. \A q \in Due : Learned(q, lessons) => Learned(q, lessons)'
  BY DEF Learned
<1> QED
  BY <1>9, <1>10, <1>11, <1>12 DEF LessonsCover

-----------------------------------------------------------------------------
(* LessonsSummary, as the phase and the cron drive it.                     *)

LEMMA StartAtStep ==
  ASSUME Inv, NEW r \in Runs, NEW t \in Times, StartRunAt(r, t)
  PROVE  Inv'
<1>1. PlainTypes'
  BY DEF StartRunAt, Inv, PlainTypes, worldVars
<1> QED
  BY <1>1, QuietStep DEF StartRunAt, worldVars

LEMMA KilledStep ==
  ASSUME Inv, NEW r \in Runs, Over(r), failures' \in 0 .. MaxFailures,
         UNCHANGED <<worldVars, lessons, mark>>
  PROVE  Inv'
<1>1. <<>> \in Seq(Predictions) /\ 0 \in Times
  BY LessonsAssumption DEF Times
<1>2. /\ phase' \in [Runs -> {"idle", "select", "insert", "mark"}]
      /\ now' \in [Runs -> Times]
  BY <1>1 DEF Over, Inv, PlainTypes
<1>3. rows' \in [Runs -> Seq(Predictions)]
  BY <1>1 DEF Over, Inv, PlainTypes
<1>4. mine' \in [Runs -> SUBSET Predictions] /\ inserted' \in [Runs -> Nat]
  BY DEF Over, Inv, PlainTypes
<1>5. PlainTypes'
  BY <1>2, <1>3, <1>4 DEF Inv, PlainTypes, worldVars
<1> QED
  BY <1>5, QuietStep DEF Over, PlainTypes, worldVars

LEMMA CountedStep ==
  ASSUME Inv, failures' \in 0 .. MaxFailures,
         UNCHANGED <<worldVars, lessons, mark, runVars>>
  PROVE  Inv'
<1>1. PlainTypes'
  BY DEF Inv, PlainTypes, worldVars, runVars
<1> QED
  BY <1>1, QuietStep DEF worldVars, runVars

(* What a step of the cron's run can do to the inline run and to what is   *)
(* committed: as the victim of a deadlock it lets the inline run's row in. *)
LEMMA CronStep ==
  ASSUME Inv, StartRun("cron") \/ RunStep("cron") \/ FailRun("cron")
  PROVE  /\ Inv' /\ UNCHANGED worldVars /\ lessons \subseteq lessons'
         /\ phase'["inline"] = phase["inline"] /\ now'["inline"] = now["inline"]
         /\ \/ /\ rows'["inline"] = rows["inline"]
               /\ mine'["inline"] = mine["inline"]
            \/ /\ phase["inline"] = "insert" /\ rows["inline"] # <<>>
               /\ rows'["inline"] = Tail(rows["inline"])
               /\ mine'["inline"] = mine["inline"] \union {Head(rows["inline"])}
<1> USE DEF Inv, PlainTypes
<1>1. Inv'
  BY InvNext DEF Next, Runs
<1>2. Other("cron") = "inline" /\ "cron" \in Runs /\ "inline" \in Runs
  BY OtherRun DEF Runs
<1>3. CASE StartRun("cron")
  BY <1>1, <1>3 DEF StartRun, StartRunAt
<1>4. CASE FailRun("cron")
  BY <1>1, <1>4 DEF FailRun, Over
<1>5. CASE SelectResolved("cron")
  BY <1>1, <1>2, <1>5 DEF SelectResolved
<1>6. CASE \E q \in Predictions : InsertLesson("cron", q) \/ InsertConflict("cron", q)
  BY <1>1, <1>2, <1>6 DEF InsertLesson, InsertConflict, NextRow
<1>7. CASE \E q \in Predictions : DeadlockVictim("cron", q)
  <2>1. PICK q \in Predictions : DeadlockVictim("cron", q)
    BY <1>7
  <2>2. phase["inline"] = "insert" /\ rows["inline"] # <<>> /\ q = Head(rows["inline"])
    BY <1>2, <2>1 DEF DeadlockVictim, Inserting
  <2>3. /\ UNCHANGED <<worldVars, lessons>>
        /\ phase'["inline"] = phase["inline"] /\ now'["inline"] = now["inline"]
    BY <1>2, <2>1 DEF DeadlockVictim
  <2>4. /\ rows' = [rows EXCEPT !["cron"] = <<>>, !["inline"] = Tail(@)]
        /\ mine' = [mine EXCEPT !["cron"] = {}, !["inline"] = @ \union {q}]
    BY <1>2, <2>1 DEF DeadlockVictim
  <2>5. /\ rows'["inline"] = Tail(rows["inline"])
        /\ mine'["inline"] = mine["inline"] \union {q}
    BY <1>2, <2>4
  <2> QED
    BY <1>1, <2>2, <2>3, <2>5
<1>8. CASE Commit("cron")
  BY <1>1, <1>2, <1>8 DEF Commit
<1>9. CASE WriteHighWaterMark("cron")
  BY <1>1, <1>9 DEF WriteHighWaterMark, Over
<1> QED
  BY <1>3, <1>4, <1>5, <1>6, <1>7, <1>8, <1>9 DEF RunStep

-----------------------------------------------------------------------------
LEMMA DoneStands == main' = main => Done' = Done
  BY DEF Done

(* Nothing but the world, the two runs and what is fresh moves.            *)
LEMMA ControlStands ==
  ASSUME Inv, Control, UNCHANGED <<cycles, main, waiting, enabled, workers, reply, errors,
                     submitted, cycleNow>>,
         fresh' \subseteq resolved', main = "off" => fresh' = fresh,
         phase'["inline"] = "idle" <=> phase["inline"] = "idle"
  PROVE  Control'
<1>1. PhaseTypeOK'
  BY DEF Control, PhaseTypeOK
<1>2. StepsInOrder'
  BY DEF Control, StepsInOrder
<1>3. OffIsClean'
  BY DEF Control, OffIsClean
<1>4. Futures'
  BY DoneStands DEF Control, Futures
<1>5. DoneReported'
  BY DoneStands DEF Control, DoneReported
<1> QED
  BY <1>1, <1>2, <1>3, <1>4, <1>5 DEF Control

(* A worker ends.                                                          *)
LEMMA ControlEnds ==
  ASSUME Inv, Control, NEW s \in workers, NEW r \in {"ok", "raised"}, WorkerEnds(s, r),
         resolved' = resolved,
         "lessons" \in workers \ {s} <=> phase'["inline"] # "idle"
  PROVE  Control'
<1>1. PhaseTypeOK'
  BY DEF Control, PhaseTypeOK, WorkerEnds
<1>2. StepsInOrder'
  BY DEF Control, StepsInOrder, WorkerEnds
<1>3. OffIsClean'
  BY DEF Control, OffIsClean, WorkerEnds
<1>4. Futures'
  BY DoneStands DEF Control, Futures, StepsInOrder, WorkerEnds
<1>5. DoneReported'
  BY DoneStands DEF Control, PhaseTypeOK, DoneReported, Futures, WorkerEnds
<1> QED
  BY <1>1, <1>2, <1>3, <1>4, <1>5 DEF Control

(* The main thread leaves a step, which is over and reported.               *)
LEMMA ControlMovesOn ==
  ASSUME Inv, Control, main \in Steps, main \notin workers,
         main' = After(main), waiting' = "no",
         UNCHANGED <<cycles, enabled, threadVars, submitted, cycleNow, fresh, lessonsVars>>,
         errors \subseteq errors', errors' \subseteq submitted,
         main \in submitted => main \in errors' \/ reply[main] = "ok",
         main \in enabled \ {"tier1"} => main \in submitted
  PROVE  Control'
<1>1. PhaseTypeOK'
  BY DoneGrows DEF Control, PhaseTypeOK, threadVars, lessonsVars, runVars,
     worldVars
<1>2. StepsInOrder'
  BY DEF Control, StepsInOrder, threadVars
<1>3. OffIsClean'
  BY DoneGrows DEF OffIsClean, Steps
<1>4. Futures'
  BY DoneGrows DEF Control, Futures, threadVars
<1>5. DoneReported'
  BY DoneGrows DEF Control, DoneReported, threadVars
<1> QED
  BY <1>1, <1>2, <1>3, <1>4, <1>5 DEF Control

(* The phase is over.                                                      *)
LEMMA ControlOver ==
  ASSUME Inv, Control, PhaseOver, phase'["inline"] = "idle", UNCHANGED cycles
  PROVE  Control'
<1>1. PhaseTypeOK'
  BY LessonsAssumption DEF Control, PhaseTypeOK, PhaseOver, Times
<1>2. StepsInOrder'
  BY DEF StepsInOrder, PhaseOver
<1>3. OffIsClean'
  BY DEF OffIsClean, PhaseOver
<1>4. Futures'
  BY DEF Futures, PhaseOver
<1>5. DoneReported'
  BY DEF DoneReported, PhaseOver
<1> QED
  BY <1>1, <1>2, <1>3, <1>4, <1>5 DEF Control

LEMMA ControlStarts ==
  ASSUME Inv, Control, StartPhase
  PROVE  Control'
<1>1. PhaseTypeOK'
  BY PhaseAssumption DEF Control, PhaseTypeOK, OffIsClean, Steps, StartPhase,
     threadVars, lessonsVars, runVars, Inv, PlainTypes
<1>2. StepsInOrder'
  BY DEF StepsInOrder, StartPhase, threadVars
<1>3. OffIsClean'
  BY DEF OffIsClean, StartPhase
<1>4. Futures'
  BY DEF Control, Futures, OffIsClean, StartPhase, threadVars
<1>5. DoneReported'
  BY DEF Control, DoneReported, OffIsClean, StartPhase, Done
<1> QED
  BY <1>1, <1>2, <1>3, <1>4, <1>5 DEF Control

LEMMA ControlSubmits ==
  ASSUME Inv, Control, Submit
  PROVE  Control'
<1>1. PhaseTypeOK'
  BY DEF Control, PhaseTypeOK, Submit, StartRunAt, lessonsVars, runVars,
     worldVars, Inv, PlainTypes, Runs
<1>2. StepsInOrder'
  BY DEF Control, StepsInOrder, Submit
<1>3. OffIsClean'
  BY DEF Control, PhaseTypeOK, OffIsClean, Steps, Submit
<1>4. Futures'
  BY NotDone, DoneStands DEF Control, Futures, Submit
<1>5. DoneReported'
  BY NotDone, DoneStands DEF Control, DoneReported, Steps, Submit
<1> QED
  BY <1>1, <1>2, <1>3, <1>4, <1>5 DEF Control

LEMMA ControlTimesOut ==
  ASSUME Inv, Control, TimesOut
  PROVE  Control'
<1>1. PhaseTypeOK'
  BY DEF Control, PhaseTypeOK, Futures, TimesOut, threadVars, lessonsVars,
     runVars, worldVars
<1>2. StepsInOrder'
  BY DEF Control, StepsInOrder, TimesOut, threadVars
<1>3. OffIsClean'
  BY DEF Control, OffIsClean, TimesOut
<1>4. Futures'
  BY DoneStands DEF Control, Futures, TimesOut, threadVars
<1>5. DoneReported'
  BY DoneStands DEF Control, DoneReported, TimesOut, threadVars
<1> QED
  BY <1>1, <1>2, <1>3, <1>4, <1>5 DEF Control
-----------------------------------------------------------------------------
(* The inline run's own steps. *)

LEMMA CoverVacuous ==
  ASSUME phase'["inline"] = "idle", reply'["lessons"] # "ok" \/ fresh' = {}
  PROVE  LessonsCover'
  BY DEF LessonsCover, Due

(* It selects everything that is due.                                      *)
LEMMA CoverSelects ==
  ASSUME PhaseInv, "lessons" \in workers, SelectResolved("inline"),
         UNCHANGED phaseVars
  PROVE  LessonsCover'
<1> DEFINE S == {q \in resolved : InWindow(q, now["inline"])}
<1>1. PICK s \in SetToSeqs(S) : NewestFirst(s) /\ rows' = [rows EXCEPT !["inline"] = s]
  BY DEF SelectResolved
<1>2. /\ rows'["inline"] = s /\ phase'["inline"] = "insert"
      /\ phase["inline"] # "idle" /\ UNCHANGED <<now, created>>
  BY <1>1 DEF SelectResolved, PhaseInv, Inv, PlainTypes, Runs, worldVars
<1>3. now["inline"] = cycleNow /\ cycleNow' = cycleNow
  BY <1>2 DEF PhaseInv, LessonsCover, phaseVars
<1>4. Due' = Due /\ Due \subseteq S
  BY <1>2, <1>3 DEF Due, InWindow, phaseVars, PhaseInv, Control, PhaseTypeOK
<1>5. S \subseteq Predictions
  BY DEF PhaseInv, Inv, PlainTypes
<1>6. \A q \in Due : \E i \in DOMAIN s : s[i] = q
  BY <1>1, <1>4, <1>5, SelectedAll
<1>7. \A q \in Due' : InHand(q)'
  BY <1>2, <1>4, <1>6 DEF InHand
<1>8. NewestFirst(rows["inline"])'
  BY <1>1, <1>2 DEF NewestFirst
<1>9. reply'["lessons"] # "ok"
  BY DEF PhaseInv, Control, Futures, phaseVars, threadVars, Steps
<1> QED
  BY <1>2, <1>3, <1>7, <1>8, <1>9 DEF LessonsCover

(* With no row left, it has passed every due prediction by.                *)
LEMMA CoverCommits ==
  ASSUME PhaseInv, Commit("inline"), UNCHANGED phaseVars
  PROVE  LessonsCover'
<1>1. /\ phase["inline"] = "insert" /\ rows["inline"] = <<>>
      /\ lessons' = lessons \union mine["inline"]
      /\ phase'["inline"] = "mark" /\ UNCHANGED <<now, created>>
  BY DEF Commit, PhaseInv, Inv, PlainTypes, Runs, worldVars
<1>2. Due' = Due
  BY <1>1 DEF Due, InWindow, phaseVars
<1>3. \A q \in Due : Learned(q, lessons \union mine["inline"])
  <2>1. ~ \E i \in DOMAIN rows["inline"] : TRUE
    BY <1>1
  <2>2. \A q \in Due : InHand(q)
    BY <1>1 DEF PhaseInv, LessonsCover
  <2> QED
    BY <2>1, <2>2 DEF InHand
<1>4. \A q \in Due' : Learned(q, lessons)'
  BY <1>1, <1>2, <1>3 DEF Learned
<1> QED
  BY <1>1, <1>4 DEF PhaseInv, LessonsCover, phaseVars

LEMMA CoverGoesOn ==
  ASSUME PhaseInv, LessonsGoesOn
  PROVE  LessonsCover'
<1> USE DEF PhaseInv
<1>1. /\ "lessons" \in workers /\ UNCHANGED phaseVars
      /\ RunStep("inline") /\ phase'["inline"] # "idle" /\ "inline" \in Runs
  BY DEF LessonsGoesOn, Runs
<1>2. CASE SelectResolved("inline")
  BY <1>1, <1>2, CoverSelects
<1>3. CASE Commit("inline")
  BY <1>1, <1>3, CoverCommits
<1>4. ASSUME NEW q \in Predictions, InsertLesson("inline", q) \/ InsertConflict("inline", q)
      PROVE  LessonsCover'
  <2>1. /\ phase["inline"] = "insert" /\ rows["inline"] # <<>>
        /\ rows'["inline"] = Tail(rows["inline"])
        /\ UNCHANGED <<worldVars, lessons, phase, now>>
    BY <1>1, <1>4 DEF InsertLesson, InsertConflict, Inserting, NextRow, Inv, PlainTypes
  <2>2. \/ mine'["inline"] = mine["inline"] \union {Head(rows["inline"])}
        \/ Head(rows["inline"]) \in lessons
    BY <1>1, <1>4 DEF InsertLesson, InsertConflict, Inserting, Inv, PlainTypes
  <2> QED
    BY <1>1, <2>1, <2>2, CoverAdvances DEF phaseVars, threadVars, worldVars
<1>5. ~ \E q \in Predictions : DeadlockVictim("inline", q)
  BY <1>1 DEF DeadlockVictim, Inv, PlainTypes
<1>6. ~ WriteHighWaterMark("inline")
  BY <1>1 DEF WriteHighWaterMark, Over, Inv, PlainTypes
<1> QED
  BY <1>1, <1>2, <1>3, <1>4, <1>5, <1>6 DEF RunStep

(* It answers "ok" only when it has committed.                             *)
LEMMA CoverEnds ==
  ASSUME PhaseInv, LessonsEnds
  PROVE  LessonsCover'
<1>1. /\ phase'["inline"] = "idle" /\ UNCHANGED <<fresh, cycleNow>>
      /\ reply'["lessons"] = IF phase["inline"] = "mark" THEN "ok" ELSE "raised"
  BY DEF LessonsEnds, WorkerEnds, PhaseInv, Control, PhaseTypeOK
<1>2. CASE phase["inline"] # "mark"
  BY <1>1, <1>2, CoverVacuous
<1>3. CASE phase["inline"] = "mark"
  <2>1. UNCHANGED <<created, lessons>>
    BY <1>3 DEF LessonsEnds, RunStep, SelectResolved, InsertLesson,
       InsertConflict, Commit, DeadlockVictim, WriteHighWaterMark, worldVars
  <2>2. Due' = Due /\ \A q \in Due : Learned(q, lessons)
    BY <1>1, <1>3, <2>1 DEF Due, InWindow, PhaseInv, LessonsCover
  <2>3. \A q \in Due' : Learned(q, lessons)'
    BY <2>1, <2>2 DEF Learned
  <2> QED
    BY <1>1, <2>3 DEF LessonsCover
<1> QED
  BY <1>2, <1>3

-----------------------------------------------------------------------------
(* Every step of the phase. *)

LEMMA PhaseInvInit == PhaseInit => PhaseInv
<1> SUFFICES ASSUME PhaseInit PROVE PhaseInv
  OBVIOUS
<1>1. Inv
  BY InvInit DEF PhaseInit
<1>2. Control
  BY PhaseAssumption, LessonsAssumption DEF PhaseInit, Init, Control,
     PhaseTypeOK, StepsInOrder, OffIsClean, Futures, DoneReported, Times, Runs
<1>3. LessonsCover
  BY DEF PhaseInit, Init, LessonsCover, Runs, Due
<1> QED
  BY <1>1, <1>2, <1>3 DEF PhaseInv

LEMMA QuietLessons ==
  ASSUME PhaseInv, UNCHANGED lessonsVars
  PROVE  Inv'
  BY InvNext DEF PhaseInv, lessonsVars, vars

(* The main thread's steps leave the inline run's work alone.              *)
LEMMA MainSteps ==
  ASSUME PhaseInv, SkipStep \/ TakeResult \/ TimesOut \/ Join
  PROVE  PhaseInv'
<1> USE DEF PhaseInv
<1>1. /\ UNCHANGED <<lessonsVars, threadVars, fresh, cycleNow>>
  BY DEF SkipStep, TakeResult, TimesOut, Join
<1>2. Inv'
  BY <1>1, QuietLessons
<1>3. LessonsCover'
  BY <1>1, CoverStands DEF lessonsVars, worldVars, runVars, threadVars
<1>4. CASE SkipStep
  BY <1>2, <1>3, <1>4, ControlMovesOn, NotDone
     DEF SkipStep, Control, StepsInOrder, PhaseTypeOK, Futures
<1>5. CASE TakeResult
  <2>1. main \in submitted /\ main \in Steps
    BY <1>5 DEF TakeResult, Control, Futures, PhaseTypeOK
  <2>2. main \notin workers
    BY <1>5, <2>1 DEF TakeResult, Control, Futures
  <2>3. /\ errors \subseteq errors' /\ errors' \subseteq submitted
        /\ main \in errors' \/ reply[main] = "ok"
    BY <1>5, <2>1 DEF TakeResult, Control, PhaseTypeOK
  <2> QED
    BY <1>2, <1>3, <1>5, <2>1, <2>2, <2>3, ControlMovesOn DEF TakeResult
<1>6. CASE TimesOut
  BY <1>2, <1>3, <1>6, ControlTimesOut
<1>7. CASE Join
  <2>1. main \in submitted /\ main \in Steps /\ main \in errors
    BY <1>7 DEF Join, Control, DoneReported, PhaseTypeOK
  <2> QED
    BY <1>2, <1>3, <1>7, <2>1, ControlMovesOn DEF Join, Control, PhaseTypeOK
<1> QED
  BY <1>4, <1>5, <1>6, <1>7

LEMMA SubmitStep ==
  ASSUME PhaseInv, Submit
  PROVE  PhaseInv'
<1> USE DEF PhaseInv
<1>1. Control'
  BY ControlSubmits
<1>2. CASE main # "lessons"
  <2>1. UNCHANGED <<lessonsVars, reply, fresh, cycleNow>>
    BY <1>2 DEF Submit
  <2> QED
    BY <1>1, <2>1, QuietLessons, CoverStands DEF lessonsVars, worldVars, runVars
<1>3. CASE main = "lessons"
  <2>1. StartRunAt("inline", cycleNow) /\ UNCHANGED <<reply, cycleNow>>
    BY <1>3 DEF Submit
  <2>2. Inv'
    BY <2>1, StartAtStep DEF Runs, Control, PhaseTypeOK
  <2>3. phase'["inline"] = "select" /\ now'["inline"] = cycleNow
    BY <2>1 DEF StartRunAt, Inv, PlainTypes, Runs
  <2>4. reply["lessons"] # "ok"
    BY <1>3, NotDone DEF Submit, Control, Futures, Steps
  <2>5. LessonsCover'
    BY <2>1, <2>3, <2>4 DEF LessonsCover
  <2> QED
    BY <1>1, <2>2, <2>5
<1> QED
  BY <1>2, <1>3

LEMMA StartPhaseStep ==
  ASSUME PhaseInv, StartPhase
  PROVE  PhaseInv'
<1> USE DEF PhaseInv
<1>1. UNCHANGED lessonsVars /\ phase["inline"] = "idle" /\ fresh' = {}
  BY DEF StartPhase, Control, OffIsClean, PhaseTypeOK
<1> QED
  BY <1>1, QuietLessons, ControlStarts, CoverVacuous DEF lessonsVars, runVars

(* The phase ends with the cycle or with its process.                      *)
LEMMA PhaseOverSteps ==
  ASSUME PhaseInv, Trade \/ Tier1CheckFails \/ Kill
  PROVE  PhaseInv'
<1> USE DEF PhaseInv
<1>1. PhaseOver /\ UNCHANGED cycles /\ fresh' = {}
  BY DEF Trade, Tier1CheckFails, Kill, PhaseOver
<1>2. Inv' /\ phase'["inline"] = "idle"
  <2>1. CASE Trade
    <3>1. "lessons" \notin workers
      BY <2>1 DEF Trade, Control, StepsInOrder
    <3> QED
      BY <2>1, <3>1, QuietLessons DEF Trade, Control, PhaseTypeOK, lessonsVars, runVars
  <2>2. CASE Tier1CheckFails
    <3>1. "lessons" \notin workers
      BY <2>2 DEF Tier1CheckFails, Control, StepsInOrder
    <3>2. failures' \in 0 .. MaxFailures
      BY <2>2, LessonsAssumption DEF Tier1CheckFails, Inv, PlainTypes
    <3> QED
      BY <2>2, <3>1, <3>2, CountedStep DEF Tier1CheckFails, Control, PhaseTypeOK, runVars
  <2>3. CASE Kill
    <3>1. failures' \in 0 .. MaxFailures
      BY <2>3, LessonsAssumption DEF Kill, Inv, PlainTypes
    <3>2. phase'["inline"] = "idle" /\ "inline" \in Runs
      BY <2>3 DEF Kill, Over, Inv, PlainTypes, Runs
    <3> QED
      BY <2>3, <3>1, <3>2, KilledStep DEF Kill
  <2> QED
    BY <2>1, <2>2, <2>3
<1> QED
  BY <1>1, <1>2, ControlOver, CoverVacuous

(* Ingestion runs before the lessons step, and what it resolves is due.    *)
LEMMA IngestStep ==
  ASSUME PhaseInv, NEW q \in Predictions, IngestMarket(q)
  PROVE  PhaseInv'
<1> USE DEF PhaseInv
<1>1. main = "ingestion" /\ "lessons" \notin workers /\ reply["lessons"] = "none"
  BY DEF IngestMarket, Control, StepsInOrder, Futures, Done, Steps
<1>2. Inv'
  BY InvNext DEF IngestMarket, Next
<1>3. phase'["inline"] = "idle" /\ phase["inline"] = "idle"
  BY <1>1 DEF IngestMarket, Resolve, runVars, Control, PhaseTypeOK
<1>4. fresh' \subseteq resolved'
  BY DEF IngestMarket, Resolve, Control, PhaseTypeOK
<1>5. Control'
  BY <1>1, <1>3, <1>4, ControlStands DEF IngestMarket, threadVars
<1>6. LessonsCover'
  BY <1>1, <1>3, CoverVacuous DEF IngestMarket, threadVars
<1> QED
  BY <1>2, <1>5, <1>6

LEMMA OtherEndsStep ==
  ASSUME PhaseInv, NEW s \in Steps, OtherStepEnds(s)
  PROVE  PhaseInv'
<1> USE DEF PhaseInv
<1>1. PICK r \in {"ok", "raised"} : WorkerEnds(s, r)
  BY DEF OtherStepEnds
<1>2. s \in workers /\ s # "lessons" /\ UNCHANGED lessonsVars
  BY DEF OtherStepEnds
<1>3. Control'
  BY <1>1, <1>2, ControlEnds DEF lessonsVars, worldVars, runVars, Control, PhaseTypeOK
<1>4. reply'["lessons"] = reply["lessons"] /\ UNCHANGED <<fresh, cycleNow>>
  BY <1>1, <1>2 DEF WorkerEnds
<1> QED
  BY <1>2, <1>3, <1>4, QuietLessons, CoverStands DEF lessonsVars, worldVars, runVars

LEMMA LessonsSteps ==
  ASSUME PhaseInv, LessonsGoesOn \/ LessonsEnds \/ LessonsFails
  PROVE  PhaseInv'
<1> USE DEF PhaseInv
<1>1. "inline" \in Runs /\ "lessons" \in workers /\ phase["inline"] # "idle"
  BY DEF Runs, LessonsGoesOn, LessonsEnds, LessonsFails, Control, PhaseTypeOK
<1>2. Inv' /\ resolved' = resolved
  BY <1>1, InvNext DEF LessonsGoesOn, LessonsEnds, LessonsFails, Next, RunStep, FailRun,
     SelectResolved, InsertLesson, InsertConflict, DeadlockVictim, Commit,
     WriteHighWaterMark, worldVars
<1>3. CASE LessonsGoesOn
  <2>1. Control'
    BY <1>2, <1>3, ControlStands DEF LessonsGoesOn, phaseVars, threadVars,
       Control, PhaseTypeOK
  <2> QED
    BY <1>2, <1>3, <2>1, CoverGoesOn
<1>4. CASE LessonsEnds
  <2>1. phase'["inline"] = "idle"
    BY <1>4 DEF LessonsEnds
  <2>2. \E r \in {"ok", "raised"} : WorkerEnds("lessons", r)
    BY <1>4 DEF LessonsEnds
  <2>3. Control'
    BY <1>1, <1>2, <2>1, <2>2, ControlEnds
  <2> QED
    BY <1>2, <1>4, <2>3, CoverEnds
<1>5. CASE LessonsFails
  <2>1. phase'["inline"] = "idle" /\ WorkerEnds("lessons", "raised")
    BY <1>1, <1>5 DEF LessonsFails, FailRun, Over, Inv, PlainTypes
  <2>2. Control'
    BY <1>1, <1>2, <2>1, ControlEnds
  <2>3. reply'["lessons"] = "raised"
    BY <2>1 DEF WorkerEnds, Control, PhaseTypeOK, Steps
  <2> QED
    BY <1>2, <2>1, <2>2, <2>3, CoverVacuous
<1> QED
  BY <1>3, <1>4, <1>5

LEMMA ElsewhereStep ==
  ASSUME PhaseInv, Elsewhere
  PROVE  PhaseInv'
<1> USE DEF PhaseInv
<1>1. UNCHANGED <<cycles, main, waiting, enabled, workers, reply, errors, submitted,
                  cycleNow, fresh>>
  BY DEF Elsewhere, phaseVars, threadVars
<1>2. CASE Tick \/ \E q \in Predictions : Resolve(q)
  <2>1. Inv'
    BY <1>2, InvNext DEF Next
  <2>2. UNCHANGED <<created, lessons, runVars>> /\ resolved \subseteq resolved'
    BY <1>2 DEF Tick, Resolve
  <2>3. Control'
    BY <1>1, <2>2, ControlStands DEF runVars, Control, PhaseTypeOK
  <2> QED
    BY <1>1, <2>1, <2>2, <2>3, CoverStands DEF runVars
<1>3. CASE StartRun("cron") \/ RunStep("cron") \/ FailRun("cron")
  <2>1. Control'
    BY <1>1, <1>3, CronStep, ControlStands DEF worldVars, Control, PhaseTypeOK
  <2>2. LessonsCover'
    BY <1>1, <1>3, CronStep, CoverStands, CoverAdvances DEF worldVars
  <2> QED
    BY <1>3, <2>1, <2>2, CronStep
<1> QED
  BY <1>2, <1>3 DEF Elsewhere

LEMMA PhaseInvNext ==
  PhaseInv /\ [PhaseNext]_<<phaseVars, lessonsVars>> => PhaseInv'
<1> SUFFICES ASSUME PhaseInv, PhaseNext \/ UNCHANGED <<phaseVars, lessonsVars>>
             PROVE  PhaseInv'
  OBVIOUS
<1>1. CASE UNCHANGED <<phaseVars, lessonsVars>>
  <2>1. Control'
    BY <1>1, ControlStands DEF PhaseInv, phaseVars, threadVars, lessonsVars, worldVars,
       runVars, Control, PhaseTypeOK
  <2>2. LessonsCover'
    BY <1>1, CoverStands DEF PhaseInv, phaseVars, threadVars, lessonsVars, worldVars, runVars
  <2> QED
    BY <1>1, <2>1, <2>2, QuietLessons DEF PhaseInv
<1>2. CASE StartPhase
  BY <1>2, StartPhaseStep
<1>3. CASE MainStep
  BY <1>3, MainSteps, SubmitStep, PhaseOverSteps DEF MainStep
<1>4. CASE Tier1CheckFails \/ Kill
  BY <1>4, PhaseOverSteps
<1>5. CASE \E q \in Predictions : IngestMarket(q)
  BY <1>5, IngestStep
<1>6. CASE OtherStep
  BY <1>6, OtherEndsStep DEF OtherStep
<1>7. CASE LessonsStep \/ LessonsFails
  BY <1>7, LessonsSteps DEF LessonsStep
<1>8. CASE Elsewhere
  BY <1>8, ElsewhereStep
<1> QED
  BY <1>1, <1>2, <1>3, <1>4, <1>5, <1>6, <1>7, <1>8 DEF PhaseNext

-----------------------------------------------------------------------------
(* The inductive invariant of the phase beside the cron's run.             *)
THEOREM PhaseInvariance == PhaseSpec => []PhaseInv
  BY PhaseInvInit, PhaseInvNext, PTL DEF PhaseSpec

(* The phase's variables keep their types, a step fails only if it was     *)
(* submitted and is submitted only if it is on, and the lessons worker     *)
(* runs exactly while the inline run is open.                              *)
THEOREM PhaseTypes == PhaseSpec => []PhaseTypeOK
<1>1. PhaseInv => PhaseTypeOK
  BY DEF PhaseInv, Control
<1> QED
  BY <1>1, PhaseInvariance, PTL

(* No two steps run side by side and none outlives the phase, whatever     *)
(* times out: the join at the pool's exit waits for the worker.            *)
THEOREM PhaseInOrder == PhaseSpec => []StepsInOrder
<1>1. PhaseInv => StepsInOrder
  BY DEF PhaseInv, Control
<1> QED
  BY <1>1, PhaseInvariance, PTL

(* A cycle that trades has run the steps that are on, and knows each that  *)
(* failed or timed out.                                                    *)
THEOREM PhaseIsolates == PhaseSpec => []StepsIsolated
<1>1. PhaseInv => StepsIsolated
  BY DoneAtTrade DEF PhaseInv, Control, PhaseTypeOK, DoneReported, StepsIsolated
<1> QED
  BY <1>1, PhaseInvariance, PTL

(* The cycle trades with the lessons of the outcomes it has just ingested, *)
(* unless an older lesson keeps them out or the step reported a failure,   *)
(* however the cron's run inserts, commits, deadlocks or dies beside it.   *)
THEOREM PhaseLearns == PhaseSpec => []FreshLessons
<1>1. PhaseInv => FreshLessons
  BY DEF PhaseInv, LessonsCover, Due, Learned, FreshLessons
<1> QED
  BY <1>1, PhaseInvariance, PTL

(* Inside the phase too, with a run that starts at the cycle's time and    *)
(* dies with the cycle's process, no prediction gets two lessons.          *)
THEOREM PhaseLessonsAreUnique == PhaseSpec => []OneLessonEach
<1>1. PhaseInv => OneLessonEach
  BY DEF PhaseInv, Inv
<1> QED
  BY <1>1, PhaseInvariance, PTL
=============================================================================
