------------------------- MODULE TradingCycleProofs -------------------------
(***************************************************************************)
(* The properties of TradingCycle, for any markets, any number of cycles   *)
(* and any results.  Inv says what each stage of a cycle relies on: what   *)
(* the cycle has not done yet, what its order loop may still do, and which *)
(* plan it will supersede.                                                 *)
(***************************************************************************)
EXTENDS TradingCycle, TLAPS

(* The stages before the cycle's first committed row.                      *)
Early == {"plan", "scan", "trading", "risk", "persist"}

(* The stages at which the plan to supersede has been read.                *)
PrevKnown == {"scan", "trading", "risk", "persist", "orders", "placing", "write_plan"}

Untouched(c) ==
    /\ plans[c] = "none" /\ heartbeat # c /\ c \notin snapshots
    /\ \A d \in decisions : d[1] # c
    /\ \A m \in Markets : ~Traded(<<c, m>>)

(* A cycle that has not started, or not decided, has left no trace.        *)
FutureUntouched ==
    \A c \in Cycles :
        c > cycle \/ (c = cycle /\ stage \in Early) => Untouched(c)

(* An exit status is that of a cycle that is over.                         *)
ExitsAreOver ==
    \A c \in Cycles : exit[c] # "none" => c < cycle \/ (c = cycle /\ stage = "off")

(* How far the running cycle has come.                                     *)
StageOK ==
    /\ stage # "off" => cycle \in Cycles
    /\ stage \in {"orders", "placing", "write_plan"} => plans[cycle] = "none"
    /\ stage \in {"snapshot", "heartbeat"} => plans[cycle] # "none"
    /\ stage = "heartbeat" => cycle \in snapshots

(* What the order loop has left to do was decided and committed.           *)
LoopOK ==
    /\ todo # {} => stage \in {"orders", "placing"}
    /\ \A m \in todo : <<cycle, m, "trade">> \in decisions /\ m \in markets

(* Only a claimed order was sent; the running cycle holds one claim.       *)
ClaimsOK ==
    \A k \in Orders :
        /\ submissions[k] > 0 => claim[k] # "free"
        /\ claim[k] = "held" => stage = "placing" /\ k[1] = cycle
        /\ \A l \in Placing : claim[k] = "held" => k = l

(* p is the active plan, and the latest of all.                            *)
LatestPlan(p) ==
    /\ p \in Cycles /\ plans[p] = "active"
    /\ \A c \in Cycles : plans[c] # "none" => c <= p
    /\ \A c \in Cycles : plans[c] = "active" => c = p

NoPlan == \A c \in Cycles : plans[c] = "none"

PlansOK ==
    /\ NoPlan \/ \E p \in Cycles : LatestPlan(p)
    /\ stage \in PrevKnown => (prev = 0 /\ NoPlan) \/ LatestPlan(prev)

Inv ==
    /\ TypeOK
    /\ FutureUntouched /\ ExitsAreOver /\ StageOK /\ LoopOK /\ ClaimsOK /\ PlansOK
    /\ OrdersFollowDecisions /\ AbortLeavesNothing /\ HeartbeatMeansComplete

-----------------------------------------------------------------------------
LEMMA InvInit == Init => Inv
<1> SUFFICES ASSUME Init PROVE Inv
  OBVIOUS
<1> USE CycleAssumption DEF Init, Adapter!Init, Cycles, Orders
<1>1. TypeOK
  BY DEF TypeOK, Stages
<1>2. FutureUntouched /\ OrdersFollowDecisions /\ AbortLeavesNothing
  BY DEF FutureUntouched, Untouched, OrdersFollowDecisions, AbortLeavesNothing, Traded
<1>3. ExitsAreOver /\ StageOK /\ LoopOK /\ ClaimsOK
  BY DEF ExitsAreOver, StageOK, LoopOK, ClaimsOK
<1>4. PlansOK /\ HeartbeatMeansComplete
  BY DEF PlansOK, NoPlan, PrevKnown, HeartbeatMeansComplete
<1> QED
  BY <1>1, <1>2, <1>3, <1>4 DEF Inv

(* Each action, with its parameters, or a stuttering step.                 *)
LEMMA Cases ==
  ASSUME [Next]_vars
  PROVE  \/ Start \/ LoadPrevPlan \/ ScanUniverse \/ TradingAgent \/ RiskAgent
         \/ BudgetAbort \/ PersistDecisions
         \/ \E m \in Markets : NoOrder(m) \/ PaperOrder(m) \/ RealReserve(m)
         \/ \E k \in Orders : RealSend(k) \/ RealAbandon(k) \/ VenueExecute(k)
         \/ \E k \in Orders, r \in Results : RealSettle(k, r)
         \/ EndOrders \/ PersistCyclePlan \/ PersistEquitySnapshot \/ WriteHeartbeat
         \/ Fail \/ UNCHANGED vars
  BY DEF Next

-----------------------------------------------------------------------------
(* Types. *)
LEMMA TypeNext == Inv /\ [Next]_vars => TypeOK'
<1> SUFFICES ASSUME Inv, [Next]_vars PROVE TypeOK'
  OBVIOUS
<1> USE CycleAssumption
    DEF Inv, TypeOK, StageOK, Stages, Cycles, Orders, dbVars, venueVars, inputVars,
        ProcessEnds, Done
<1>1. CASE Start
  BY <1>1 DEF Start
<1>2. CASE LoadPrevPlan
  <2>1. prev' \in 0 .. MaxCycles
    BY <1>2 DEF LoadPrevPlan, PlansOK, NoPlan, LatestPlan, Active, Max
  <2> QED
    BY <1>2, <2>1 DEF LoadPrevPlan
<1>3. CASE ScanUniverse
  BY <1>3 DEF ScanUniverse
<1>4. CASE TradingAgent
  BY <1>4 DEF TradingAgent
<1>5. CASE RiskAgent
  BY <1>5 DEF RiskAgent
<1>6. CASE BudgetAbort
  BY <1>6 DEF BudgetAbort
<1>7. CASE PersistDecisions
  <2>1. cycle \in Cycles
    BY <1>7 DEF PersistDecisions
  <2>2. ASSUME NEW m \in DOMAIN chosen
        PROVE  <<cycle, m, chosen[m]>> \in Cycles \X Markets \X {"trade", "skip"}
    BY <2>1
  <2>3. decisions' \subseteq Cycles \X Markets \X {"trade", "skip"}
    BY <1>7, <2>2 DEF PersistDecisions
  <2>4. todo' \subseteq Markets /\ stage' \in Stages
    BY <1>7 DEF PersistDecisions
  <2> QED
    BY <1>7, <2>3, <2>4 DEF PersistDecisions
<1>8. ASSUME NEW m \in Markets, NoOrder(m) \/ PaperOrder(m) PROVE TypeOK'
  <2>1. CASE NoOrder(m)
    BY <2>1 DEF NoOrder
  <2>2. CASE PaperOrder(m)
    BY <2>2 DEF PaperOrder
  <2> QED
    BY <1>8, <2>1, <2>2
<1>9. ASSUME NEW m \in Markets, RealReserve(m) PROVE TypeOK'
  BY <1>9 DEF RealReserve, Adapter!Claim
<1>10. ASSUME NEW k \in Orders, RealSend(k) PROVE TypeOK'
  <2>1. submissions[k] + 1 \in 0 .. 1
    BY <1>10 DEF RealSend, Adapter!Send
  <2>2. submissions' \in [Orders -> 0 .. 1]
    BY <1>10, <2>1 DEF RealSend, Adapter!Send
  <2> QED
    BY <1>10, <2>2 DEF RealSend, Adapter!Send
<1>11. ASSUME NEW k \in Orders, RealAbandon(k) \/ VenueExecute(k) PROVE TypeOK'
  <2>1. CASE RealAbandon(k)
    BY <2>1 DEF RealAbandon, Adapter!Abandon
  <2>2. CASE VenueExecute(k)
    BY <2>2 DEF VenueExecute
  <2> QED
    BY <1>11, <2>1, <2>2
<1>12. ASSUME NEW k \in Orders, NEW r \in Results, RealSettle(k, r) PROVE TypeOK'
  BY <1>12 DEF RealSettle, Adapter!Settle
<1>13. CASE EndOrders
  BY <1>13 DEF EndOrders
<1>14. CASE PersistCyclePlan
  BY <1>14 DEF PersistCyclePlan
<1>15. CASE PersistEquitySnapshot
  BY <1>15 DEF PersistEquitySnapshot
<1>16. CASE WriteHeartbeat
  BY <1>16 DEF WriteHeartbeat
<1>17. CASE Fail
  BY <1>17 DEF Fail
<1>18. CASE UNCHANGED vars
  BY <1>18 DEF vars
<1> QED
  BY <1>1, <1>2, <1>3, <1>4, <1>5, <1>6, <1>7, <1>8, <1>9, <1>10, <1>11, <1>12,
     <1>13, <1>14, <1>15, <1>16, <1>17, <1>18, Cases

-----------------------------------------------------------------------------
(* The plan that a cycle reads is the latest one, and it supersedes that.  *)

LEMMA LoadPrevPlanStep ==
  ASSUME Inv, TypeOK', LoadPrevPlan
  PROVE  PlansOK'
<1> USE DEF Inv, TypeOK, Cycles, LoadPrevPlan, dbVars
<1>1. CASE NoPlan
  <2>1. Active = {}
    BY <1>1 DEF NoPlan, Active
  <2> QED
    BY <1>1, <2>1 DEF PlansOK, NoPlan
<1>2. ASSUME NEW p \in Cycles, LatestPlan(p) PROVE PlansOK'
  <2>1. Active = {p}
    BY <1>2 DEF LatestPlan, Active
  <2>2. Max(Active) = p
    BY <2>1 DEF Max
  <2>3. LatestPlan(p)' /\ prev' = p
    BY <1>2, <2>1, <2>2 DEF LatestPlan
  <2> QED
    BY <2>3 DEF PlansOK
<1> QED
  BY <1>1, <1>2 DEF PlansOK

LEMMA PersistCyclePlanStep ==
  ASSUME Inv, TypeOK', PersistCyclePlan
  PROVE  /\ PlansOK' /\ plans'[cycle] = "active"
         /\ \A c \in Cycles : c > cycle => plans'[c] = "none"
         /\ \A c \in Cycles : c # cycle => (plans'[c] = "none" <=> plans[c] = "none")
<1> USE DEF Inv, TypeOK, Cycles, PersistCyclePlan
<1>1. cycle \in Cycles /\ plans[cycle] = "none" /\ prev # cycle
  BY DEF StageOK, PlansOK, PrevKnown, NoPlan, LatestPlan
<1>2. \A c \in Cycles :
         plans'[c] = IF c = cycle THEN "active"
                     ELSE IF c = prev THEN "superseded" ELSE plans[c]
  BY <1>1
<1>3. \A c \in Cycles : plans'[c] # "none" => c <= cycle
  <2>1. CASE prev = 0 /\ NoPlan
    BY <1>1, <1>2, <2>1 DEF NoPlan
  <2>2. CASE LatestPlan(prev)
    BY <1>1, <1>2, <2>2 DEF LatestPlan, FutureUntouched, Untouched
  <2> QED
    BY <2>1, <2>2 DEF PlansOK, PrevKnown
<1>4. ASSUME NEW c \in Cycles, plans'[c] = "active" PROVE c = cycle
  <2>1. CASE prev = 0 /\ NoPlan
    BY <1>1, <1>2, <1>4, <2>1 DEF NoPlan
  <2>2. CASE LatestPlan(prev)
    BY <1>1, <1>2, <1>4, <2>2 DEF LatestPlan
  <2> QED
    BY <2>1, <2>2 DEF PlansOK, PrevKnown
<1>5. LatestPlan(cycle)'
  BY <1>1, <1>2, <1>3, <1>4 DEF LatestPlan
<1>6. PlansOK'
  BY <1>1, <1>5 DEF PlansOK, PrevKnown
<1>7. \A c \in Cycles : c # cycle => (plans'[c] = "none" <=> plans[c] = "none")
  BY <1>2 DEF PlansOK, PrevKnown, LatestPlan, NoPlan
<1> QED
  BY <1>1, <1>2, <1>3, <1>6, <1>7

(* Each action keeps the rest, and the plans when it is neither of those.  *)
LEMMA InvNext == Inv /\ [Next]_vars => Inv'
<1> SUFFICES ASSUME Inv, [Next]_vars PROVE Inv'
  OBVIOUS
<1> USE CycleAssumption
    DEF Inv, TypeOK, StageOK, LoopOK, Cycles, Orders, dbVars, venueVars, inputVars,
        ProcessEnds, Done, Early, PrevKnown
<1>types. TypeOK'
  BY TypeNext
<1>1. CASE Start
  BY <1>1, <1>types
     DEF Start, FutureUntouched, Untouched, Traded, ExitsAreOver, ClaimsOK, Placing,
         PlansOK, NoPlan, LatestPlan, OrdersFollowDecisions,
         AbortLeavesNothing, HeartbeatMeansComplete
<1>2. CASE LoadPrevPlan
  <2>1. PlansOK'
    BY <1>2, <1>types, LoadPrevPlanStep
  <2>2. (FutureUntouched /\ ExitsAreOver /\ StageOK /\ LoopOK /\ ClaimsOK)'
    BY <1>2, <1>types DEF LoadPrevPlan, FutureUntouched, Untouched, Traded, ExitsAreOver,
       ClaimsOK, Placing
  <2>3. (OrdersFollowDecisions /\ AbortLeavesNothing /\ HeartbeatMeansComplete)'
    BY <1>2, <1>types DEF LoadPrevPlan, Traded, ExitsAreOver, OrdersFollowDecisions,
       AbortLeavesNothing, HeartbeatMeansComplete
  <2> QED
    BY <2>1, <2>2, <2>3, <1>types
<1>3. CASE ScanUniverse
  BY <1>3, <1>types
     DEF ScanUniverse, FutureUntouched, Untouched, Traded, ExitsAreOver, ClaimsOK, Placing,
         PlansOK, NoPlan, LatestPlan, OrdersFollowDecisions,
         AbortLeavesNothing, HeartbeatMeansComplete
<1>4. CASE TradingAgent
  BY <1>4, <1>types
     DEF TradingAgent, FutureUntouched, Untouched, Traded, ExitsAreOver, ClaimsOK, Placing,
         PlansOK, NoPlan, LatestPlan, OrdersFollowDecisions,
         AbortLeavesNothing, HeartbeatMeansComplete
<1>5. CASE RiskAgent
  BY <1>5, <1>types
     DEF RiskAgent, FutureUntouched, Untouched, Traded, ExitsAreOver, ClaimsOK, Placing,
         PlansOK, NoPlan, LatestPlan, OrdersFollowDecisions,
         AbortLeavesNothing, HeartbeatMeansComplete
<1>6. CASE BudgetAbort
  BY <1>6, <1>types
     DEF BudgetAbort, FutureUntouched, Untouched, Traded, ExitsAreOver, ClaimsOK, Placing,
         PlansOK, NoPlan, LatestPlan, OrdersFollowDecisions,
         AbortLeavesNothing, HeartbeatMeansComplete
<1>7. CASE PersistDecisions
  BY <1>7, <1>types
     DEF PersistDecisions, FutureUntouched, Untouched, Traded, ExitsAreOver, ClaimsOK, Placing,
         PlansOK, NoPlan, LatestPlan, OrdersFollowDecisions,
         AbortLeavesNothing, HeartbeatMeansComplete
<1>8. ASSUME NEW m \in Markets, NoOrder(m) PROVE Inv'
  BY <1>8, <1>types
     DEF NoOrder, FutureUntouched, Untouched, Traded, ExitsAreOver, ClaimsOK, Placing,
         PlansOK, NoPlan, LatestPlan, OrdersFollowDecisions,
         AbortLeavesNothing, HeartbeatMeansComplete
<1>9. ASSUME NEW m \in Markets, PaperOrder(m) PROVE Inv'
  BY <1>9, <1>types
     DEF PaperOrder, FutureUntouched, Untouched, Traded, ExitsAreOver, ClaimsOK, Placing,
         PlansOK, NoPlan, LatestPlan, OrdersFollowDecisions,
         AbortLeavesNothing, HeartbeatMeansComplete
<1>10. ASSUME NEW m \in Markets, RealReserve(m) PROVE Inv'
  <2>1. \E c \in {"held", "abandoned"} :
           claim[<<cycle, m>>] = "free" /\ claim' = [claim EXCEPT ![<<cycle, m>>] = c]
    BY <1>10 DEF RealReserve, Adapter!Claim
  <2>2. (FutureUntouched /\ ExitsAreOver /\ StageOK /\ LoopOK)'
    BY <1>10, <1>types, <2>1
       DEF RealReserve, Adapter!Claim, FutureUntouched, Untouched, Traded, ExitsAreOver
  <2>3. ClaimsOK'
    BY <1>10, <1>types, <2>1 DEF RealReserve, Adapter!Claim, ClaimsOK, Placing
  <2>4. (PlansOK /\ OrdersFollowDecisions)'
    BY <1>10, <1>types, <2>1
       DEF RealReserve, Adapter!Claim, PlansOK, NoPlan, LatestPlan,
           OrdersFollowDecisions, Traded
  <2>5. (AbortLeavesNothing /\ HeartbeatMeansComplete)'
    BY <1>10, <1>types, <2>1
       DEF RealReserve, Adapter!Claim, ExitsAreOver, AbortLeavesNothing, Traded,
           HeartbeatMeansComplete
  <2> QED
    BY <1>types, <2>2, <2>3, <2>4, <2>5
<1>11. ASSUME NEW k \in Orders, RealSend(k) PROVE Inv'
  BY <1>11, <1>types
     DEF RealSend, Adapter!Send, FutureUntouched, Untouched, Traded, ExitsAreOver, ClaimsOK, Placing,
         PlansOK, NoPlan, LatestPlan, OrdersFollowDecisions,
         AbortLeavesNothing, HeartbeatMeansComplete
<1>12. ASSUME NEW k \in Orders, NEW r \in Results, RealSettle(k, r) PROVE Inv'
  BY <1>12, <1>types
     DEF RealSettle, Adapter!Settle, FutureUntouched, Untouched, Traded, ExitsAreOver, ClaimsOK, Placing,
         PlansOK, NoPlan, LatestPlan, OrdersFollowDecisions,
         AbortLeavesNothing, HeartbeatMeansComplete
<1>13. ASSUME NEW k \in Orders, RealAbandon(k) PROVE Inv'
  BY <1>13, <1>types
     DEF RealAbandon, Adapter!Abandon, FutureUntouched, Untouched, Traded, ExitsAreOver, ClaimsOK, Placing,
         PlansOK, NoPlan, LatestPlan, OrdersFollowDecisions,
         AbortLeavesNothing, HeartbeatMeansComplete
<1>14. ASSUME NEW k \in Orders, VenueExecute(k) PROVE Inv'
  BY <1>14, <1>types
     DEF VenueExecute, FutureUntouched, Untouched, Traded, ExitsAreOver, ClaimsOK, Placing,
         PlansOK, NoPlan, LatestPlan, OrdersFollowDecisions,
         AbortLeavesNothing, HeartbeatMeansComplete
<1>15. CASE EndOrders
  BY <1>15, <1>types
     DEF EndOrders, FutureUntouched, Untouched, Traded, ExitsAreOver, ClaimsOK, Placing,
         PlansOK, NoPlan, LatestPlan, OrdersFollowDecisions,
         AbortLeavesNothing, HeartbeatMeansComplete
<1>16. CASE PersistCyclePlan
  <2>1. PlansOK'
    BY <1>16, <1>types, PersistCyclePlanStep
  <2>2. (FutureUntouched /\ ExitsAreOver /\ StageOK /\ LoopOK /\ ClaimsOK)'
    BY <1>16, <1>types, PersistCyclePlanStep
    DEF PersistCyclePlan, FutureUntouched, Untouched, Traded, ExitsAreOver,
       ClaimsOK, Placing
  <2>3. (OrdersFollowDecisions /\ AbortLeavesNothing /\ HeartbeatMeansComplete)'
    BY <1>16, <1>types, PersistCyclePlanStep
    DEF PersistCyclePlan, Traded, ExitsAreOver, OrdersFollowDecisions,
       AbortLeavesNothing, HeartbeatMeansComplete
  <2> QED
    BY <2>1, <2>2, <2>3, <1>types
<1>17. CASE PersistEquitySnapshot
  BY <1>17, <1>types
     DEF PersistEquitySnapshot, FutureUntouched, Untouched, Traded, ExitsAreOver, ClaimsOK, Placing,
         PlansOK, NoPlan, LatestPlan, OrdersFollowDecisions,
         AbortLeavesNothing, HeartbeatMeansComplete
<1>18. CASE WriteHeartbeat
  BY <1>18, <1>types
     DEF WriteHeartbeat, FutureUntouched, Untouched, Traded, ExitsAreOver, ClaimsOK, Placing,
         PlansOK, NoPlan, LatestPlan, OrdersFollowDecisions,
         AbortLeavesNothing, HeartbeatMeansComplete
<1>19. CASE Fail
  BY <1>19, <1>types
     DEF Fail, FutureUntouched, Untouched, Traded, ExitsAreOver, ClaimsOK, Placing,
         PlansOK, NoPlan, LatestPlan, OrdersFollowDecisions,
         AbortLeavesNothing, HeartbeatMeansComplete
<1>20. CASE UNCHANGED vars
  BY <1>20, <1>types
     DEF vars, FutureUntouched, Untouched, Traded, ExitsAreOver, ClaimsOK, Placing,
         PlansOK, NoPlan, LatestPlan, OrdersFollowDecisions,
         AbortLeavesNothing, HeartbeatMeansComplete
<1> QED
  BY <1>1, <1>2, <1>3, <1>4, <1>5, <1>6, <1>7, <1>8, <1>9, <1>10,
     <1>11, <1>12, <1>13, <1>14, <1>15, <1>16, <1>17, <1>18, <1>19, <1>20, Cases

-----------------------------------------------------------------------------
(* With a plan in the table, the active one is the latest of all.          *)
LEMMA InvImpliesOneActivePlan == Inv => OneActivePlan
<1> SUFFICES ASSUME Inv, NEW q \in Cycles, plans[q] # "none"
             PROVE  Active = {Max({c \in Cycles : plans[c] # "none"})}
  BY DEF OneActivePlan
<1>1. PICK p \in Cycles : LatestPlan(p)
  BY DEF Inv, PlansOK, NoPlan
<1>2. Active = {p}
  BY <1>1 DEF LatestPlan, Active
<1>3. Max({c \in Cycles : plans[c] # "none"}) = p
  BY <1>1 DEF LatestPlan, Max, Cycles
<1> QED
  BY <1>2, <1>3

(* An order changes only in the stages of the loop, before the plan.       *)
OrdersStand ==
    \A k \in Orders :
       plans[k[1]] # "none" =>
          /\ claim'[k] = claim[k] /\ submissions'[k] = submissions[k]
          /\ k \in paperTrades' <=> k \in paperTrades

LEMMA StepKeepsOrders == Inv /\ [Next]_vars => [OrdersStand]_vars
<1> SUFFICES ASSUME Inv, [Next]_vars, NEW k \in Orders, plans[k[1]] # "none"
             PROVE  /\ claim'[k] = claim[k] /\ submissions'[k] = submissions[k]
                    /\ k \in paperTrades' <=> k \in paperTrades
  BY DEF OrdersStand
<1> USE DEF Inv, TypeOK, Orders, dbVars, venueVars
<1>1. stage \in {"orders", "placing"} => k[1] # cycle
  BY DEF StageOK
<1>2. claim[k] # "held"
  BY <1>1 DEF ClaimsOK
<1>3. CASE Start \/ LoadPrevPlan \/ ScanUniverse \/ TradingAgent \/ RiskAgent
           \/ BudgetAbort \/ PersistDecisions \/ EndOrders
  BY <1>3 DEF Start, LoadPrevPlan, ScanUniverse, TradingAgent, RiskAgent, BudgetAbort,
              PersistDecisions, EndOrders
<1>4. CASE PersistCyclePlan \/ PersistEquitySnapshot \/ WriteHeartbeat
           \/ UNCHANGED vars
  BY <1>4 DEF PersistCyclePlan, PersistEquitySnapshot, WriteHeartbeat, vars
<1>5. CASE Fail
  BY <1>2, <1>5 DEF Fail, Placing
<1>6. ASSUME NEW m \in Markets, NoOrder(m) \/ PaperOrder(m) \/ RealReserve(m)
      PROVE  /\ claim'[k] = claim[k] /\ submissions'[k] = submissions[k]
             /\ k \in paperTrades' <=> k \in paperTrades
  BY <1>1, <1>6 DEF NoOrder, PaperOrder, RealReserve, Adapter!Claim
<1>7. ASSUME NEW l \in Orders,
             \/ RealSend(l) \/ RealAbandon(l) \/ VenueExecute(l)
             \/ \E r \in Results : RealSettle(l, r)
      PROVE  /\ claim'[k] = claim[k] /\ submissions'[k] = submissions[k]
             /\ k \in paperTrades' <=> k \in paperTrades
  BY <1>2, <1>7 DEF RealSend, Adapter!Send, RealAbandon, Adapter!Abandon, VenueExecute,
                    RealSettle, Adapter!Settle, Placing
<1> QED
  BY <1>3, <1>4, <1>5, <1>6, <1>7, Cases

-----------------------------------------------------------------------------
(* The inductive invariant holds in every reachable state.                 *)
THEOREM Invariance == Spec => []Inv
  BY InvInit, InvNext, PTL DEF Spec

(* The variables of a trading cycle keep their types.                      *)
THEOREM TradingTypeCorrect == Spec => []TypeOK
<1>1. Inv => TypeOK
  BY DEF Inv
<1> QED
  BY <1>1, Invariance, PTL

(* Every order, on paper, reserved or executed, belongs to a committed     *)
(* "trade" decision on a market that has a row, however the cycle ends.    *)
THEOREM OrdersAreDecided == Spec => []OrdersFollowDecisions
<1>1. Inv => OrdersFollowDecisions
  BY DEF Inv
<1> QED
  BY <1>1, Invariance, PTL

(* There is exactly one active plan from the first on, the latest one,     *)
(* whichever cycles die between reading the last plan and superseding it.  *)
THEOREM OnePlanIsActive == Spec => []OneActivePlan
  BY InvImpliesOneActivePlan, Invariance, PTL

(* A cycle that ran out of budget has decided, ordered and planned nothing.*)
THEOREM AbortIsClean == Spec => []AbortLeavesNothing
<1>1. Inv => AbortLeavesNothing
  BY DEF Inv
<1> QED
  BY <1>1, Invariance, PTL

(* The heartbeat names a cycle that finished, with its plan, its snapshot  *)
(* and no order in flight.                                                 *)
THEOREM HeartbeatIsComplete == Spec => []HeartbeatMeansComplete
<1>1. Inv => HeartbeatMeansComplete
  BY DEF Inv
<1> QED
  BY <1>1, Invariance, PTL

(* Once a cycle's plan is written, none of its orders is placed, sent or   *)
(* settled any more.                                                       *)
THEOREM PlanEndsTrading == Spec => NoOrderAfterPlan
<1>1. Inv /\ [Next]_vars => [OrdersStand]_vars
  BY StepKeepsOrders
<1>2. NoOrderAfterPlan <=> [][OrdersStand]_vars
  BY PTL DEF NoOrderAfterPlan, OrdersStand
<1> QED
  BY <1>1, <1>2, Invariance, PTL DEF Spec
=============================================================================
