CONSTANTS
    t1 = t1
    t2 = t2
    t3 = t3
    NoClaim = NoClaim
    NoTask = NoTask
    User = User
    Task = {t1, t2, t3}
    DependsOn <- ForkDepends
    Rank <- ForkRank
    MaxAttempts <- ForkAttempts
    MaxIterations = 3
    MaxConsecutiveFailures = 2
    EditsInTurn = FALSE
    MaxRuns = 2
    MaxFaults = 1
    MaxEdits = 1
    MaxStops = 1
SPECIFICATION FairSpec
CHECK_DEADLOCK FALSE
INVARIANTS
    TypeOK
    TrueBaseline
    ProjectionIsLogged
    BrakesHold
    OnlyFaultsCost
    CompleteOrStranded
PROPERTIES
    CommitIsJudged
    HonestyIsFree
    UserWorkIsKept
    EvidenceIsKept
    ImplementsLifecycle
    KeepsToBaseline
    RunEnds
