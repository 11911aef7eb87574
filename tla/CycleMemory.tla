----------------------------- MODULE CycleMemory -----------------------------
(***************************************************************************)
(* What one trading cycle hands to the next through the database: the      *)
(* active cycle plan with its list of priorities (synthesize_cycle_plan)   *)
(* and the agent's notes (NotesTool).  A cycle may fail between any two    *)
(* steps; TradingCycle has the other steps and what they write.            *)
(*                                                                         *)
(* Market ids are numbers, in the order the code sorts them.               *)
(***************************************************************************)
EXTENDS NotesTool, SequencesExt

CONSTANTS
    Markets,
    MaxCycles,    \* bound: cycles that are started
    MaxSaves      \* bound: notes_to_save of one cycle

ASSUME MemoryAssumption ==
    /\ IsFiniteSet(Markets) /\ Markets \subseteq Nat
    /\ MaxCycles \in Nat \ {0} /\ MaxSaves \in Nat

VARIABLES
    priorities,   \* next_priorities of the active row of cycle_plan
    stage, cycle,
    prev,         \* next_priorities of prev_plan, as this cycle read it
    hot,          \* markets predicted with an edge above HIGH_EDGE_THRESHOLD
    traded,       \* markets with a "trade" decision
    saves,        \* notes_to_save still to be written
    lastHot, lastTraded   \* history: the last planned cycle each market was so

planVars == <<priorities, lastHot, lastTraded>>
runVars  == <<stage, cycle, prev, hot, traded, saves>>
vars == <<noteVars, planVars, runVars>>

Off == stage' = "off" /\ prev' = <<>> /\ hot' = {} /\ traded' = {} /\ saves' = 0

Init ==
    /\ NotesInit
    /\ priorities = <<>>
    /\ stage = "off" /\ cycle = 0 /\ prev = <<>>
    /\ hot = {} /\ traded = {} /\ saves = 0
    /\ lastHot = [m \in Markets |-> 0] /\ lastTraded = [m \in Markets |-> 0]

(* _load_prev_plan, before anything else is read.                          *)
Start ==
    /\ stage = "off" /\ cycle < MaxCycles
    /\ stage' = "context"
    /\ cycle' = cycle + 1
    /\ prev' = priorities
    /\ UNCHANGED <<noteVars, planVars, hot, traded, saves>>

(* _collect_trading_context reads the notes, and thereby touches them.     *)
Context ==
    /\ stage = "context"
    /\ stage' = "agents"
    /\ ReadNotes
    /\ UNCHANGED <<planVars, cycle, prev, hot, traded, saves>>

(* Predictions, notes_to_save and decisions come from the two agents.      *)
Agents ==
    /\ stage = "agents"
    /\ stage' = "notes"
    /\ hot' \in SUBSET Markets
    /\ traded' \in SUBSET Markets
    /\ saves' \in 0 .. MaxSaves
    /\ UNCHANGED <<noteVars, planVars, cycle, prev>>

(* _persist_agent_notes, a transaction for each.                           *)
SaveNote ==
    /\ stage = "notes" /\ saves > 0
    /\ saves' = saves - 1
    /\ WriteNote(cycle)
    /\ UNCHANGED <<planVars, stage, cycle, prev, hot, traded>>

(* Only logged: the next note is tried.                                    *)
SaveFails ==
    /\ stage = "notes" /\ saves > 0
    /\ saves' = saves - 1
    /\ UNCHANGED <<noteVars, planVars, stage, cycle, prev, hot, traded>>

EditBetween ==
    /\ stage = "off"
    /\ \E n \in notes : EditNote(n)
    /\ UNCHANGED <<planVars, runVars>>

-----------------------------------------------------------------------------
(* cycle_plan.py *)

(* A set of numbers in order.                                              *)
Sorted(ms) ==
    CHOOSE s \in SetToSeqs(ms) : \A i, j \in DOMAIN s : i < j => s[i] < s[j]

(* What a list has of ms, in the list's order.                             *)
Kept(list, ms) ==
    LET at == Sorted({i \in DOMAIN list : list[i] \in ms})
    IN  [i \in DOMAIN at |-> list[at[i]]]

(* Slip: a market just traded is left out only while it is carried.        *)
NextPrioritiesHotAnyway ==
    LET carried == Kept(prev, Markets \ traded)
    IN  carried \o Sorted(hot \ ToSet(carried))

(* Slip: the sorted list is merged instead of appended.                    *)
NextPrioritiesSorted == Sorted((ToSet(prev) \union hot) \ traded)

(* What was not traded is carried forward; what is new comes after it.     *)
NextPriorities ==
    LET carried == Kept(prev, Markets \ traded)
    IN  carried \o Sorted(hot \ (traded \union ToSet(carried)))

(* synthesize_cycle_plan and _persist_cycle_plan; what else the plan says  *)
(* of this cycle (holds, deferrals, blockers) only the next agents read.   *)
PersistPlan ==
    /\ stage = "notes" /\ saves = 0
    /\ priorities' = NextPriorities
    /\ lastHot' = [m \in Markets |-> IF m \in hot THEN cycle ELSE lastHot[m]]
    /\ lastTraded' = [m \in Markets |-> IF m \in traded THEN cycle ELSE lastTraded[m]]
    /\ Off
    /\ UNCHANGED <<noteVars, cycle>>

(* An exception, a budget abort, a kill: no plan is written.               *)
Fail ==
    /\ stage # "off"
    /\ Off
    /\ UNCHANGED <<noteVars, planVars, cycle>>

Next ==
    \/ Start \/ Context \/ Agents \/ SaveNote \/ SaveFails \/ EditBetween
    \/ PersistPlan \/ Fail

Spec == Init /\ [][Next]_vars

-----------------------------------------------------------------------------
(* The types of the variables. *)
TypeOK ==
    /\ NotesTypeOK
    /\ {priorities, prev} \subseteq Seq(Markets)
    /\ stage \in {"off", "context", "agents", "notes"} /\ cycle \in 0 .. MaxCycles
    /\ hot \subseteq Markets /\ traded \subseteq Markets
    /\ saves \in 0 .. MaxSaves
    /\ {lastHot, lastTraded} \subseteq [Markets -> 0 .. MaxCycles]

(* The priorities are, without repetition, the markets that showed a high  *)
(* edge in a finished cycle and that no finished cycle traded since,       *)
(* however many cycles failed in between (cycle_plan.py:74-94).            *)
PrioritiesAreHistory ==
    /\ ToSet(priorities) = {m \in Markets : lastHot[m] > lastTraded[m]}
    /\ IsInjective(priorities)

(* Priorities queue up: those that stay on the list keep their order and   *)
(* stay ahead of everything a later cycle adds (cycle_plan.py:81-93).      *)
PrioritiesQueue ==
    [][IsPrefix(Kept(priorities, ToSet(priorities')), priorities')]_vars

(* The notes stay within their limit, and a note of the running cycle is   *)
(* evicted only when no older cycle's is left, although the read at its    *)
(* beginning made all of those equally recent (notes_tool.py:131).         *)
FreshNotesSurvive ==
    /\ Cardinality(notes) <= MaxNotes
    /\ \A n \in notes : n.cycle >= lostFresh
=============================================================================
