SPECIFICATION FairSpec
CONSTANTS
    Procs = {p1, p2}
    Keys = {k1}
    NoKey = NoKey
    RETRY_ATTEMPTS = 3
INVARIANTS
    SingleOwner
    ReservedBeforePosted
    AnswersAgree
    FillsAreReal
PROPERTIES
    FinishedIsFinal
    ImplementsLedger
    CallReturns
