CONSTANTS
    Writer = {w1, w2}
    Free = Free
    Stale = Stale
    CutAtNewline = FALSE
    MaxAppends = 4
    MaxKills = 2
    MaxCuts = 1
SPECIFICATION FairSpec
CHECK_DEADLOCK FALSE
INVARIANTS
    TypeOK
    LogReplays
    AckedIsReadable
PROPERTIES
    ImplementsAtomicLog
    AppendEnds
