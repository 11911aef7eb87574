SPECIFICATION Spec
CONSTANTS
    Markets = {1, 2}
    MaxCycles = 3
    MaxNotes = 2
    MaxSaves = 3
    MaxEdits = 1
INVARIANTS
    TypeOK
    PrioritiesAreHistory
    FreshNotesSurvive
PROPERTIES
    PrioritiesQueue
CHECK_DEADLOCK FALSE
