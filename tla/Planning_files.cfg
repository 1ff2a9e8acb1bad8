CONSTANTS
    A = A  B = B  C = C  D = D  h1 = h1  h2 = h2
    Planner = {p1, p2}
    Approver = {a1, a2}
    Plan = {A, B, C, D}
    Broken = {C}
    Poor = {D}
    Hash = {h1, h2}
    SpecHash <- HashOfPlan
    NoPlan = NoPlan
    NoSpec = NoSpec
    MaxPlanAttempts = 2
    SpecEdits = TRUE
    MaxRuns = 1
    MaxTurns = 1
    MaxKills = 1
SPECIFICATION FairSpec
CHECK_DEADLOCK FALSE
INVARIANTS
    TypeOK
    OnlyApprovedRuns
PROPERTIES
    PlanningEnds
