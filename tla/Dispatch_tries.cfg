CONSTANTS
    MaxClaims = 2
    MaxRuns = 2
    MaxKills = 1
    MaxHelpers = 1
SPECIFICATION Spec
CHECK_DEADLOCK FALSE
INVARIANTS
    TypeOK
    OneAgentAtATime
    RunKeepsItsBytes
    JudgedWorkIsThisTrys
PROPERTIES
    TurnEnds
