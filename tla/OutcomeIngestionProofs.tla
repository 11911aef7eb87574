----------------------- MODULE OutcomeIngestionProofs -----------------------
(***************************************************************************)
(* The safety of OutcomeIngestion, for any set of markets, any clock and   *)
(* any number of cycles and failures: what two overlapping runs and a      *)
(* trading cycle leave in the database agrees with Gamma, and the mark     *)
(* passes no prediction by.                                                *)
(***************************************************************************)
EXTENDS OutcomeIngestion, TLAPS

(* A run resolves one market at a time, and only one that has an outcome.  *)
UpdatesSettled ==
    \A r \in Runs : phase[r] = "update" => market[r] \in Markets /\ Settled(market[r])

(* Which rows can be there.  The running cycle has written none before     *)
(* PersistPredictions, later cycles none at all; only a row has a trade,   *)
(* and only a trade whose prediction is resolved has a result.             *)
Unwritten(c) == c > cycle \/ (c = cycle /\ stage = "chosen")

RowsInOrder ==
    /\ stage # "off" => cycle \in 1 .. MaxCycles
    /\ \A q \in Predictions :
         /\ trade[q] = "none" => won[q] = "null"
         /\ won[q] # "null" => outcome[q] \in Outcomes
         /\ outcome[q] = "absent" => trade[q] = "none"
         /\ Unwritten(q[2]) => outcome[q] = "absent"
    /\ stage = "written" =>
         \A m \in universe : outcome[<<m, cycle>>] # "absent"

(* A prediction that run r, and no run after it, must resolve.             *)
Owed(r, q) == Unresolved(q) /\ q \notin late /\ now[r] > end[q[1]]

(* A run beyond a market's end date has it in hand: the mark it read does  *)
(* not exclude it, its list holds it, or it is the market being updated.   *)
RunCovers(r, q) ==
    /\ phase[r] = "list"   => since[r] <= end[q[1]]
    /\ phase[r] = "next"   => q[1] \in todo[r]
    /\ phase[r] = "update" => q[1] \in todo[r] \union {market[r]}

RunsCover ==
    \A r \in Runs, q \in Predictions : Owed(r, q) => RunCovers(r, q)

Inv ==
    /\ TypeOK /\ UpdatesSettled /\ RowsInOrder
    /\ GroundTruthAgrees /\ MissedOnlyIfLate /\ RunsCover

-----------------------------------------------------------------------------
(* Every way a step is taken, one case each.                               *)
Steps ==
    \/ Tick
    \/ \E m \in Markets : Close(m)
    \/ \E m \in Markets : Settle(m)
    \/ \E r \in Runs : StartRun(r)
    \/ \E r \in Runs : ReadHighWaterMark(r)
    \/ \E r \in Runs : ListResolvedMarkets(r)
    \/ \E r \in Runs, m \in Markets : GetResolution(r, m)
    \/ \E r \in Runs : IngestMarket(r)
    \/ \E r \in Runs : WriteHighWaterMark(r)
    \/ \E r \in Runs : FailRun(r)
    \/ ChooseUniverse \/ PersistPredictions \/ EndCycle
    \/ \E m \in Markets, side \in Outcomes : PaperTrade(m, side)
    \/ UNCHANGED vars

LEMMA Cases == [Next]_vars => Steps
  BY DEF Next, RunStep, Steps

LEMMA InitInv == Init => Inv
  BY IngestionAssumption DEF Inv, TypeOK, UpdatesSettled, RowsInOrder,
     GroundTruthAgrees, MissedOnlyIfLate, RunsCover, Owed, Predictions, Times,
     Outcomes, Init

LEMMA TickStep ==
  ASSUME Inv, Tick
  PROVE  Inv'
<1>1. TypeOK'
  BY IngestionAssumption DEF Inv, TypeOK, Tick, Times, rowVars, runVars,
     cycleVars
<1>2. UpdatesSettled'
  BY DEF Inv, UpdatesSettled, Settled, Tick, runVars
<1>3. RowsInOrder'
  BY DEF Inv, RowsInOrder, Unwritten, Tick, rowVars, cycleVars
<1>4. GroundTruthAgrees'
  BY DEF Inv, GroundTruthAgrees, Tick, rowVars
<1>5. MissedOnlyIfLate'
  BY DEF Inv, Settled, MissedOnlyIfLate, Tick, rowVars
<1>6. RunsCover'
  BY DEF Inv, RunsCover, RunCovers, Owed, Unresolved, Settled, Tick, rowVars,
     runVars
<1> QED
  BY <1>1, <1>2, <1>3, <1>4, <1>5, <1>6 DEF Inv

LEMMA CloseStep ==
  ASSUME Inv, NEW m \in Markets, Close(m)
  PROVE  Inv'
<1>1. TypeOK'
  BY DEF Inv, TypeOK, Close, rowVars, runVars, cycleVars
<1>2. UpdatesSettled'
  BY DEF Inv, UpdatesSettled, Settled, Close, Outcomes, runVars
<1>3. RowsInOrder'
  BY DEF Inv, RowsInOrder, Unwritten, Close, rowVars, cycleVars
<1>4. GroundTruthAgrees'
  BY DEF Inv, GroundTruthAgrees, Close, Outcomes, rowVars
<1>5. MissedOnlyIfLate'
  BY DEF Inv, Settled, MissedOnlyIfLate, Close, Outcomes, rowVars
<1>6. RunsCover'
  BY DEF Inv, RunsCover, RunCovers, Owed, Unresolved, Settled, Close,
     Outcomes, rowVars, runVars
<1> QED
  BY <1>1, <1>2, <1>3, <1>4, <1>5, <1>6 DEF Inv

LEMMA SettleStep ==
  ASSUME Inv, NEW m \in Markets, Settle(m)
  PROVE  Inv'
<1>1. TypeOK'
  BY DEF Inv, TypeOK, Settle, Of, rowVars, runVars, cycleVars
<1>2. UpdatesSettled'
  BY DEF Inv, UpdatesSettled, Settled, Settle, runVars
<1>3. RowsInOrder'
  BY DEF Inv, RowsInOrder, Unwritten, Settle, rowVars, cycleVars
<1>4. GroundTruthAgrees'
  BY DEF Inv, GroundTruthAgrees, Settle, Outcomes, rowVars
<1>5. MissedOnlyIfLate'
  BY DEF Inv, Settled, MissedOnlyIfLate, Settle, PastEnd, Of, rowVars
<1>6. RunsCover'
  BY DEF Inv, RunsCover, RunCovers, Owed, Unresolved, Settled, Settle,
     PastEnd, Of, rowVars, runVars
<1> QED
  BY <1>1, <1>2, <1>3, <1>4, <1>5, <1>6 DEF Inv

LEMMA StartStep ==
  ASSUME Inv, NEW r \in Runs, StartRun(r)
  PROVE  Inv'
<1>1. TypeOK'
  BY DEF Inv, TypeOK, StartRun, worldVars, rowVars, cycleVars
<1>2. UpdatesSettled'
  BY DEF Inv, UpdatesSettled, Settled, StartRun, worldVars
<1>3. RowsInOrder'
  BY DEF Inv, RowsInOrder, Unwritten, StartRun, rowVars, cycleVars
<1>4. GroundTruthAgrees'
  BY DEF Inv, GroundTruthAgrees, StartRun, worldVars, rowVars
<1>5. MissedOnlyIfLate'
  BY DEF Inv, Settled, MissedOnlyIfLate, StartRun, worldVars, rowVars
<1>6. RunsCover'
  BY DEF Inv, RunsCover, RunCovers, Owed, Unresolved, Settled, StartRun,
     worldVars, rowVars
<1> QED
  BY <1>1, <1>2, <1>3, <1>4, <1>5, <1>6 DEF Inv

LEMMA ReadStep ==
  ASSUME Inv, NEW r \in Runs, ReadHighWaterMark(r)
  PROVE  Inv'
<1>1. TypeOK'
  BY IngestionAssumption DEF Inv, TypeOK, ReadHighWaterMark, Fallback, Times,
     worldVars, rowVars, cycleVars
<1>2. UpdatesSettled'
  BY DEF Inv, UpdatesSettled, Settled, ReadHighWaterMark, worldVars
<1>3. RowsInOrder'
  BY DEF Inv, RowsInOrder, Unwritten, ReadHighWaterMark, rowVars, cycleVars
<1>4. GroundTruthAgrees'
  BY DEF Inv, GroundTruthAgrees, ReadHighWaterMark, worldVars, rowVars
<1>5. MissedOnlyIfLate'
  BY DEF Inv, Settled, MissedOnlyIfLate, ReadHighWaterMark, worldVars, rowVars
<1>6. RunsCover'
  <2> SUFFICES ASSUME NEW x \in Runs, NEW q \in Predictions, Owed(x, q)'
               PROVE  RunCovers(x, q)'
    BY DEF RunsCover
  <2> USE DEF Inv, TypeOK, ReadHighWaterMark
  <2>1. Owed(x, q) /\ q[1] \in Markets /\ end[q[1]] \in Nat
    BY DEF Owed, Unresolved, Settled, Predictions, worldVars, rowVars, Times
  <2>2. CASE x = r
    <3>1. phase'[r] = "list"
      BY DEF Runs
    <3>2. hwm # NoMark => hwm <= end[q[1]]
      BY <2>1 DEF MissedOnlyIfLate, Owed, Unresolved, Times
    <3>3. Fallback(now[r]) = 0
      BY IngestionAssumption DEF Fallback, Times
    <3>4. since'[r] <= end'[q[1]]
      BY <2>1, <3>2, <3>3 DEF worldVars
    <3> QED
      BY <2>2, <3>4 DEF RunCovers
  <2>3. CASE x # r
    <3>1. /\ phase'[x] = phase[x] /\ since'[x] = since[x]
          /\ end' = end /\ todo' = todo /\ market' = market
      BY <2>3 DEF worldVars
    <3> QED
      BY <2>1, <3>1 DEF RunsCover, RunCovers
  <2> QED
    BY <2>2, <2>3
<1> QED
  BY <1>1, <1>2, <1>3, <1>4, <1>5, <1>6 DEF Inv

LEMMA ListStep ==
  ASSUME Inv, NEW r \in Runs, ListResolvedMarkets(r)
  PROVE  Inv'
<1>1. TypeOK'
  BY DEF Inv, TypeOK, ListResolvedMarkets, worldVars, rowVars, cycleVars
<1>2. UpdatesSettled'
  BY DEF Inv, UpdatesSettled, Settled, ListResolvedMarkets, worldVars
<1>3. RowsInOrder'
  BY DEF Inv, RowsInOrder, Unwritten, ListResolvedMarkets, rowVars, cycleVars
<1>4. GroundTruthAgrees'
  BY DEF Inv, GroundTruthAgrees, ListResolvedMarkets, worldVars, rowVars
<1>5. MissedOnlyIfLate'
  BY DEF Inv, Settled, MissedOnlyIfLate, ListResolvedMarkets, worldVars,
     rowVars
<1>6. RunsCover'
  <2> SUFFICES ASSUME NEW x \in Runs, NEW q \in Predictions, Owed(x, q)'
               PROVE  RunCovers(x, q)'
    BY DEF RunsCover
  <2> USE DEF Inv, TypeOK, ListResolvedMarkets
  <2>1. Owed(x, q) /\ q[1] \in Markets /\ end[q[1]] \in Nat
    BY DEF Owed, Unresolved, Settled, Predictions, worldVars, rowVars, Times
  <2>2. CASE x = r
    <3>1. phase'[r] = "next"
      BY DEF Runs
    <3>2. since[r] <= end[q[1]]
      BY <2>1, <2>2 DEF RunsCover, RunCovers
    <3>3. gamma[q[1]] # "open"
      BY <2>1 DEF Owed, Unresolved, Settled, Outcomes
    <3>4. q[1] \in todo'[r]
      BY <2>1, <3>2, <3>3
    <3> QED
      BY <2>2, <3>4 DEF RunCovers
  <2>3. CASE x # r
    <3>1. /\ phase'[x] = phase[x] /\ todo'[x] = todo[x]
          /\ end' = end /\ since' = since /\ market' = market
      BY <2>3 DEF worldVars
    <3> QED
      BY <2>1, <3>1 DEF RunsCover, RunCovers
  <2> QED
    BY <2>2, <2>3
<1> QED
  BY <1>1, <1>2, <1>3, <1>4, <1>5, <1>6 DEF Inv

LEMMA GetStep ==
  ASSUME Inv, NEW r \in Runs, NEW m \in Markets, GetResolution(r, m)
  PROVE  Inv'
<1>1. TypeOK'
  BY DEF Inv, TypeOK, GetResolution, worldVars, rowVars, cycleVars
<1>2. UpdatesSettled'
  BY DEF Inv, TypeOK, UpdatesSettled, Settled, GetResolution, worldVars
<1>3. RowsInOrder'
  BY DEF Inv, RowsInOrder, Unwritten, GetResolution, rowVars, cycleVars
<1>4. GroundTruthAgrees'
  BY DEF Inv, GroundTruthAgrees, GetResolution, worldVars, rowVars
<1>5. MissedOnlyIfLate'
  BY DEF Inv, Settled, MissedOnlyIfLate, GetResolution, worldVars, rowVars
<1>6. RunsCover'
  BY DEF Inv, TypeOK, RunsCover, RunCovers, Owed, Unresolved, Settled,
     GetResolution, worldVars, rowVars
<1> QED
  BY <1>1, <1>2, <1>3, <1>4, <1>5, <1>6 DEF Inv

LEMMA ResultKnown ==
  ASSUME NEW side, NEW o PROVE Result(side, o) \in {"won", "lost"}
  BY DEF Result

LEMMA IngestedFunctions ==
  ASSUME NEW r \in Runs, IngestMarket(r)
  PROVE  /\ outcome' = [q \in Predictions |-> outcome'[q]]
         /\ won' = [q \in Predictions |-> won'[q]]
         /\ pnl' = [q \in Predictions |-> pnl'[q]]
  BY DEF IngestMarket

(* What the transaction makes of one prediction.                           *)
LEMMA IngestedRow ==
  ASSUME NEW r \in Runs, IngestMarket(r), NEW q \in Predictions
  PROVE  /\ q[1] # market[r] =>
              outcome'[q] = outcome[q] /\ won'[q] = won[q] /\ pnl'[q] = pnl[q]
         /\ q[1] = market[r] =>
              /\ outcome'[q] = IF outcome[q] = "null" THEN gamma[market[r]]
                               ELSE outcome[q]
              /\ won'[q] = IF trade[q] # "none" /\ won[q] = "null"
                           THEN Result(trade[q], gamma[market[r]]) ELSE won[q]
              /\ pnl'[q] = IF outcome[q] = "absent" \/ pnl[q] # "null" THEN pnl[q]
                           ELSE IF won'[q] = "null" THEN "zero" ELSE won'[q]
  BY DEF IngestMarket

LEMMA IngestStep ==
  ASSUME Inv, NEW r \in Runs, IngestMarket(r)
  PROVE  Inv'
<1>1. TypeOK'
  <2> USE DEF Inv, TypeOK, IngestMarket
  <2>1. gamma[market[r]] \in Outcomes
    BY DEF UpdatesSettled, Settled
  <2>2. /\ outcome' \in [Predictions -> {"absent", "null"} \union Outcomes]
        /\ won' \in [Predictions -> {"null", "won", "lost"}]
        /\ pnl' \in [Predictions -> {"null", "zero", "won", "lost"}]
    BY <2>1, ResultKnown
  <2> QED
    BY <2>2 DEF worldVars, cycleVars
<1>2. UpdatesSettled'
  BY DEF Inv, TypeOK, UpdatesSettled, Settled, IngestMarket, worldVars
<1>3. RowsInOrder'
  BY DEF Inv, RowsInOrder, Unwritten, Predictions, UpdatesSettled, Settled,
     Outcomes, IngestMarket, cycleVars, TypeOK
<1>4. GroundTruthAgrees'
  <2> SUFFICES ASSUME NEW q \in Predictions
               PROVE  /\ outcome'[q] \in Outcomes <=> pnl'[q] # "null"
                      /\ outcome'[q] \in Outcomes => outcome'[q] = gamma'[q[1]]
                      /\ won'[q] # "null" => (won'[q] = "won" <=> trade'[q] = outcome'[q])
    BY DEF GroundTruthAgrees
  <2>1. gamma[market[r]] \in Outcomes /\ gamma' = gamma /\ trade' = trade
    BY DEF Inv, UpdatesSettled, Settled, IngestMarket, worldVars
  <2>2. /\ outcome[q] \in {"absent", "null"} \union Outcomes
        /\ trade[q] \in {"none"} \union Outcomes
        /\ won[q] \in {"null", "won", "lost"} /\ pnl[q] \in {"null", "zero", "won", "lost"}
    BY DEF Inv, TypeOK
  <2>3. /\ trade[q] = "none" => won[q] = "null"
        /\ won[q] # "null" => outcome[q] \in Outcomes
        /\ outcome[q] = "absent" => trade[q] = "none"
    BY DEF Inv, RowsInOrder
  <2>4. /\ outcome[q] \in Outcomes <=> pnl[q] # "null"
        /\ outcome[q] \in Outcomes => outcome[q] = gamma[q[1]]
        /\ won[q] # "null" => (won[q] = "won" <=> trade[q] = outcome[q])
    BY DEF Inv, GroundTruthAgrees
  <2>5. CASE q[1] # market[r]
    BY <2>1, <2>4, <2>5, IngestedRow
  <2>6. CASE q[1] = market[r]
    BY <2>1, <2>2, <2>3, <2>4, IngestedRow DEF Result
  <2> QED
    BY <2>5, <2>6
<1>5. MissedOnlyIfLate'
  BY DEF Inv, Settled, MissedOnlyIfLate, IngestMarket, worldVars
<1>6. RunsCover'
  BY DEF Inv, RunsCover, RunCovers, Owed, Unresolved, Settled, IngestMarket,
     Outcomes, worldVars
<1> QED
  BY <1>1, <1>2, <1>3, <1>4, <1>5, <1>6 DEF Inv

LEMMA MarkStep ==
  ASSUME Inv, NEW r \in Runs, WriteHighWaterMark(r)
  PROVE  Inv'
<1>1. TypeOK'
  BY IngestionAssumption DEF Inv, TypeOK, WriteHighWaterMark, Over, Times,
     worldVars, rowVars, cycleVars
<1>2. UpdatesSettled'
  BY DEF Inv, UpdatesSettled, Settled, WriteHighWaterMark, Over, worldVars
<1>3. RowsInOrder'
  BY DEF Inv, RowsInOrder, Unwritten, WriteHighWaterMark, rowVars, cycleVars
<1>4. GroundTruthAgrees'
  BY DEF Inv, GroundTruthAgrees, WriteHighWaterMark, worldVars, rowVars
<1>5. MissedOnlyIfLate'
  BY DEF Inv, RunsCover, RunCovers, Owed, Unresolved, Settled,
     MissedOnlyIfLate, WriteHighWaterMark, worldVars, rowVars
<1>6. RunsCover'
  BY DEF Inv, TypeOK, RunsCover, RunCovers, Owed, Unresolved, Settled,
     WriteHighWaterMark, Over, worldVars, rowVars
<1> QED
  BY <1>1, <1>2, <1>3, <1>4, <1>5, <1>6 DEF Inv

LEMMA FailStep ==
  ASSUME Inv, NEW r \in Runs, FailRun(r)
  PROVE  Inv'
<1>1. TypeOK'
  BY IngestionAssumption DEF Inv, TypeOK, FailRun, Over, Times, worldVars,
     rowVars, cycleVars
<1>2. UpdatesSettled'
  BY DEF Inv, TypeOK, UpdatesSettled, Settled, FailRun, Over, worldVars
<1>3. RowsInOrder'
  BY DEF Inv, RowsInOrder, Unwritten, FailRun, rowVars, cycleVars
<1>4. GroundTruthAgrees'
  BY DEF Inv, GroundTruthAgrees, FailRun, worldVars, rowVars
<1>5. MissedOnlyIfLate'
  BY DEF Inv, Settled, MissedOnlyIfLate, FailRun, worldVars, rowVars
<1>6. RunsCover'
  BY DEF Inv, TypeOK, RunsCover, RunCovers, Owed, Unresolved, Settled,
     FailRun, Over, worldVars, rowVars
<1> QED
  BY <1>1, <1>2, <1>3, <1>4, <1>5, <1>6 DEF Inv

LEMMA ChooseStep ==
  ASSUME Inv, ChooseUniverse
  PROVE  Inv'
<1>1. TypeOK'
  BY IngestionAssumption DEF Inv, TypeOK, ChooseUniverse, worldVars, rowVars,
     runVars
<1>2. UpdatesSettled'
  BY DEF Inv, UpdatesSettled, Settled, ChooseUniverse, worldVars, runVars
<1>3. RowsInOrder'
  BY IngestionAssumption DEF Inv, TypeOK, RowsInOrder, Unwritten, Predictions,
     ChooseUniverse, rowVars
<1>4. GroundTruthAgrees'
  BY DEF Inv, GroundTruthAgrees, ChooseUniverse, worldVars, rowVars
<1>5. MissedOnlyIfLate'
  BY DEF Inv, Settled, MissedOnlyIfLate, ChooseUniverse, worldVars, rowVars
<1>6. RunsCover'
  BY DEF Inv, RunsCover, RunCovers, Owed, Unresolved, Settled, ChooseUniverse,
     worldVars, rowVars, runVars
<1> QED
  BY <1>1, <1>2, <1>3, <1>4, <1>5, <1>6 DEF Inv

LEMMA PersistStep ==
  ASSUME Inv, PersistPredictions
  PROVE  Inv'
<1>1. TypeOK'
  <2> USE DEF Inv, TypeOK, PersistPredictions
  <2>1. outcome' \in [Predictions -> {"absent", "null"} \union Outcomes]
    OBVIOUS
  <2>2. cycle \in 1 .. MaxCycles
    BY DEF RowsInOrder
  <2>3. universe \X {cycle} \subseteq Predictions
    BY <2>2 DEF Predictions
  <2>4. late' \subseteq Predictions
    BY <2>3
  <2> QED
    BY <2>4 DEF worldVars, runVars
<1>2. UpdatesSettled'
  BY DEF Inv, UpdatesSettled, Settled, PersistPredictions, worldVars, runVars
<1>3. RowsInOrder'
  BY DEF Inv, TypeOK, RowsInOrder, Unwritten, Predictions, PersistPredictions
<1>4. GroundTruthAgrees'
  BY DEF Inv, RowsInOrder, Unwritten, GroundTruthAgrees, PersistPredictions,
     Outcomes, worldVars
<1>5. MissedOnlyIfLate'
  BY DEF Inv, Settled, MissedOnlyIfLate, PersistPredictions, worldVars
<1>6. RunsCover'
  BY DEF Inv, RunsCover, RunCovers, Owed, Unresolved, Settled,
     PersistPredictions, worldVars, runVars
<1> QED
  BY <1>1, <1>2, <1>3, <1>4, <1>5, <1>6 DEF Inv

LEMMA EndStep ==
  ASSUME Inv, EndCycle
  PROVE  Inv'
<1>1. TypeOK'
  BY DEF Inv, TypeOK, EndCycle, worldVars, rowVars, runVars
<1>2. UpdatesSettled'
  BY DEF Inv, UpdatesSettled, Settled, EndCycle, worldVars, runVars
<1>3. RowsInOrder'
  BY DEF Inv, RowsInOrder, Unwritten, EndCycle, rowVars
<1>4. GroundTruthAgrees'
  BY DEF Inv, GroundTruthAgrees, EndCycle, worldVars, rowVars
<1>5. MissedOnlyIfLate'
  BY DEF Inv, Settled, MissedOnlyIfLate, EndCycle, worldVars, rowVars
<1>6. RunsCover'
  BY DEF Inv, RunsCover, RunCovers, Owed, Unresolved, Settled, EndCycle,
     worldVars, rowVars, runVars
<1> QED
  BY <1>1, <1>2, <1>3, <1>4, <1>5, <1>6 DEF Inv

LEMMA TradeStep ==
  ASSUME Inv, NEW m \in Markets, NEW side \in Outcomes, PaperTrade(m, side)
  PROVE  Inv'
<1>1. TypeOK'
  BY DEF Inv, TypeOK, PaperTrade, worldVars, runVars, cycleVars
<1>2. UpdatesSettled'
  BY DEF Inv, UpdatesSettled, Settled, PaperTrade, worldVars, runVars
<1>3. RowsInOrder'
  BY DEF Inv, RowsInOrder, Unwritten, PaperTrade, cycleVars
<1>4. GroundTruthAgrees'
  <2> SUFFICES ASSUME NEW q \in Predictions
               PROVE  won'[q] # "null" => (won'[q] = "won" <=> trade'[q] = outcome'[q])
    BY DEF GroundTruthAgrees, Inv, PaperTrade, worldVars
  <2>1. won'[q] # "null" => trade'[q] = trade[q]
    BY DEF Inv, RowsInOrder, PaperTrade
  <2> QED
    BY <2>1 DEF Inv, GroundTruthAgrees, PaperTrade
<1>5. MissedOnlyIfLate'
  BY DEF Inv, Settled, MissedOnlyIfLate, PaperTrade, worldVars
<1>6. RunsCover'
  BY DEF Inv, RunsCover, RunCovers, Owed, Unresolved, Settled, PaperTrade,
     worldVars, runVars
<1> QED
  BY <1>1, <1>2, <1>3, <1>4, <1>5, <1>6 DEF Inv

-----------------------------------------------------------------------------
LEMMA Stutter == Inv /\ UNCHANGED vars => Inv'
  BY DEF vars, worldVars, rowVars, runVars, cycleVars, Inv, TypeOK, UpdatesSettled,
     RowsInOrder, Unwritten, GroundTruthAgrees, MissedOnlyIfLate, RunsCover,
     RunCovers, Owed, Unresolved, Settled

LEMMA InvNext == Inv /\ [Next]_vars => Inv'
<1> SUFFICES ASSUME Inv, Steps PROVE Inv'
  BY Cases
<1> QED
  BY TickStep, CloseStep, SettleStep, StartStep, ReadStep, ListStep, GetStep,
     IngestStep, MarkStep, FailStep, ChooseStep, PersistStep, EndStep, TradeStep,
     Stutter DEF Steps

(* Whatever two runs, a trading cycle and Gamma do, the types, the rows and *)
(* the runs' hold on what they owe stay as Inv says.                        *)
THEOREM Invariance == Spec => []Inv
<1> QED
  BY InitInv, InvNext, PTL DEF Spec

(* The variables keep their types, whatever the markets and the bounds.    *)
THEOREM Types == Spec => []TypeOK
<1>1. Inv => TypeOK
  BY DEF Inv
<1> QED
  BY <1>1, Invariance, PTL

(* What _ingest_market writes agrees with Gamma and with itself, however    *)
(* two runs and the cycle's rows and trades interleave and wherever a run   *)
(* dies.                                                                    *)
THEOREM GroundTruth == Spec => []GroundTruthAgrees
<1>1. Inv => GroundTruthAgrees
  BY DEF Inv
<1> QED
  BY <1>1, Invariance, PTL

(* Trade and prediction have the same PnL, or none yet.                    *)
Counted(q) == trade[q] # "none" /\ pnl[q] = won[q]

LEMMA EarlyIsCounted ==
  ASSUME Inv, NEW q \in Predictions, trade[q] # "none", outcome[q] = "null"
  PROVE  Counted(q)
  BY DEF Inv, TypeOK, GroundTruthAgrees, RowsInOrder, Outcomes, Counted

LEMMA CountedStays ==
  ASSUME Inv, NEW q \in Predictions, Counted(q), [Next]_vars
  PROVE  Counted(q)'
<1> USE DEF Counted
<1>1. CASE UNCHANGED rowVars
  BY <1>1 DEF rowVars
<1>2. ASSUME NEW r \in Runs, IngestMarket(r) PROVE Counted(q)'
  <2>1. CASE pnl[q] = "null"
    <3>1. outcome[q] = "null"
      BY <2>1 DEF Inv, TypeOK, GroundTruthAgrees, RowsInOrder, Outcomes
    <3> QED
      BY <1>2, <2>1, <3>1 DEF Inv, TypeOK, IngestMarket, Result
  <2>2. CASE pnl[q] # "null"
    BY <1>2, <2>2 DEF Inv, TypeOK, IngestMarket
  <2> QED
    BY <2>1, <2>2
<1>3. CASE PersistPredictions
  BY <1>3 DEF PersistPredictions
<1>4. ASSUME NEW m \in Markets, NEW side \in Outcomes, PaperTrade(m, side)
      PROVE  Counted(q)'
  BY <1>4 DEF PaperTrade, Inv, TypeOK
<1>5. CASE Tick \/ (\E m \in Markets : Close(m) \/ Settle(m))
           \/ ChooseUniverse \/ EndCycle \/ UNCHANGED vars
  BY <1>1, <1>5 DEF Tick, Close, Settle, ChooseUniverse, EndCycle, vars
<1>6. ASSUME NEW r \in Runs,
             \/ StartRun(r) \/ ReadHighWaterMark(r) \/ ListResolvedMarkets(r)
             \/ (\E m \in Markets : GetResolution(r, m))
             \/ WriteHighWaterMark(r) \/ FailRun(r)
      PROVE  Counted(q)'
  BY <1>1, <1>6 DEF StartRun, ReadHighWaterMark, ListResolvedMarkets, GetResolution,
                    WriteHighWaterMark, FailRun
<1> QED
  BY <1>2, <1>3, <1>4, <1>5, <1>6, Cases DEF Steps

(* A trade that was there before its prediction was resolved is in the      *)
(* prediction's PnL for good.                                               *)
THEOREM EarlyTradesCounted == Spec => EarlyTradesCount
<1> SUFFICES ASSUME NEW q \in Predictions
             PROVE  Spec => [](trade[q] # "none" /\ outcome[q] = "null"
                                 => [](pnl[q] = won[q]))
  BY DEF EarlyTradesCount
<1>1. Inv /\ trade[q] # "none" /\ outcome[q] = "null" => Counted(q)
  BY EarlyIsCounted
<1>2. Inv /\ Counted(q) /\ [Next]_vars => Counted(q)'
  BY CountedStays
<1>3. Counted(q) => pnl[q] = won[q]
  BY DEF Counted
<1> QED
  BY <1>1, <1>2, <1>3, Invariance, PTL DEF Spec

(* The mark that two runs write, in whatever order, never passes over a     *)
(* prediction a run could have resolved.                                    *)
THEOREM NothingMissed == Spec => []MissedOnlyIfLate
<1>1. Inv => MissedOnlyIfLate
  BY DEF Inv
<1> QED
  BY <1>1, Invariance, PTL
=============================================================================
