CONSTANTS
    MaxClaims = 1
    MaxRuns = 1
    MaxKills = 0
    MaxHelpers = 0
SPECIFICATION Spec
CHECK_DEADLOCK FALSE
INVARIANTS
    JudgedWorkIsOwn
