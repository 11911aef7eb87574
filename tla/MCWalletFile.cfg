SPECIFICATION Spec
CONSTANTS
    Keys = {k1, k2}
    Passphrases = {old, new}
    Readers = {r1}
    MaxCommands = 4
    NoKey = NoKey
    Missing = Missing
    Partial = Partial
INVARIANTS
    KeyRecoverable
    GapHasBoth
PROPERTIES
    RotationKeepsKey
CHECK_DEADLOCK FALSE
