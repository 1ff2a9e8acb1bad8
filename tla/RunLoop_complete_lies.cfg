CONSTANTS
    t1 = t1
    t2 = t2
    t3 = t3
    NoClaim = NoClaim
    NoTask = NoTask
    User = User
    Task = {t1, t2}
    DependsOn <- PairDepends
    Rank <- PairRank
    MaxAttempts <- PairAttempts
    MaxIterations = 3
    MaxConsecutiveFailures = 2
    EditsInTurn = FALSE
    MaxRuns = 2
    MaxFaults = 0
    MaxEdits = 0
    MaxStops = 0
SPECIFICATION Spec
CHECK_DEADLOCK FALSE
INVARIANTS
    CompleteMeansVerified
