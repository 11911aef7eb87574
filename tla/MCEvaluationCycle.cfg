SPECIFICATION FairSpec
CONSTANTS
    Callers <- MCCallers
    Cycles <- MCCycles
    NoCycle <- MCNoCycle
    Agents <- MCAgents
    Tooled <- MCTooled
    MaxRuns = 1
    MaxFaults = 1
INVARIANTS
    StoredIsAudited
    MarkBehindRows
    SearchesJoin
PROPERTIES
    RefusalIsFinal
    ProcessEnds
CHECK_DEADLOCK FALSE
