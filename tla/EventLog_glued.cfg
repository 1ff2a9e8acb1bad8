CONSTANTS
    Writer = {w1, w2}
    Free = Free
    Stale = Stale
    CutAtNewline = TRUE
    MaxAppends = 3
    MaxKills = 0
    MaxCuts = 1
SPECIFICATION Spec
CHECK_DEADLOCK FALSE
INVARIANTS
    AckedIsReadable
