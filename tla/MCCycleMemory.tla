---------------------------- MODULE MCCycleMemory ----------------------------
EXTENDS CycleMemory

(* Kept is what the standard SelectSeq makes of short lists, and Sorted what *)
(* SetToSortSeq makes of small sets.                                         *)
ASSUME KeptIsSelectSeq ==
    \A list \in BoundedSeq(Markets, 4), ms \in SUBSET Markets :
        Kept(list, ms) = SelectSeq(list, LAMBDA m : m \in ms)

ASSUME SortedIsSetToSortSeq ==
    \A ms \in SUBSET (1 .. 5) : Sorted(ms) = SetToSortSeq(ms, <)
=============================================================================
