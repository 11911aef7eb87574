------------------------------ MODULE NotesTool ------------------------------
(***************************************************************************)
(* manage_notes: the trading agent's scratchpad, at most MaxNotes notes in *)
(* the order they were last accessed.  Each call is one transaction, and   *)
(* the clock ticks between two calls.  Bodies and tags are left out.       *)
(***************************************************************************)
EXTENDS Naturals, FiniteSets

CONSTANTS
    MaxNotes,     \* DEFAULT_MAX_NOTES, 50
    MaxEdits      \* bound: calls of the edit action

ASSUME NotesAssumption == MaxNotes \in Nat \ {0} /\ MaxEdits \in Nat

VARIABLES
    notes,        \* rows of notes: [created, cycle, accessed]; cycle is history
    lostFresh,    \* history: the last cycle that evicted a note of its own, or 0
    clock,        \* the time of the last call
    edits

noteVars == <<notes, lostFresh, clock, edits>>

NotesInit == notes = {} /\ lostFresh = 0 /\ clock = 0 /\ edits = 0

Touched(n) == [n EXCEPT !.accessed = clock + 1]

(* Slip: the column keeps no value from a read.                            *)
ReadAges ==
    /\ notes' = {[n EXCEPT !.accessed = 0] : n \in notes}
    /\ clock' = clock + 1
    /\ UNCHANGED <<lostFresh, edits>>

(* _read_notes returns up to the limit, hence all, and touches them all.   *)
ReadNotes ==
    /\ notes' = {Touched(n) : n \in notes}
    /\ clock' = clock + 1
    /\ UNCHANGED <<lostFresh, edits>>

NewNote(c) == [created |-> clock + 1, cycle |-> c, accessed |-> clock + 1]

(* Slip: the newest goes.                                                  *)
Newest(n) == \A m \in notes : m.accessed <= n.accessed

(* ORDER BY last_accessed ASC LIMIT 1: any of those accessed together.     *)
Oldest(n) == \A m \in notes : n.accessed <= m.accessed

(* _write_note: count, evict, insert.                                      *)
WriteNote(c) ==
    /\ IF Cardinality(notes) >= MaxNotes
       THEN \E n \in notes :
               /\ Oldest(n)
               /\ notes' = (notes \ {n}) \union {NewNote(c)}
               /\ lostFresh' = IF n.cycle = c THEN c ELSE lostFresh
       ELSE /\ notes' = notes \union {NewNote(c)}
            /\ UNCHANGED lostFresh
    /\ clock' = clock + 1
    /\ UNCHANGED edits

(* _edit_note, which only the tool's own tests call.                       *)
EditNote(n) ==
    /\ n \in notes /\ edits < MaxEdits
    /\ notes' = (notes \ {n}) \union {Touched(n)}
    /\ clock' = clock + 1
    /\ edits' = edits + 1
    /\ UNCHANGED lostFresh

NotesTypeOK ==
    /\ \A n \in notes :
          n.created \in 1 .. clock /\ n.cycle \in Nat /\ n.accessed \in n.created .. clock
    /\ clock \in Nat /\ lostFresh \in Nat /\ edits \in 0 .. MaxEdits
=============================================================================
