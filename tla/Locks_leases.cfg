CONSTANTS
    Task = {t1}
    Run = Run
    Process = {p1, p2}
    Reaper = {r1, r2}
    Slow = TRUE
    MaxGrants = 3
    MaxKills = 2
SPECIFICATION Spec
CHECK_DEADLOCK FALSE
SYMMETRY LockSymmetry
INVARIANTS
    TypeOK
    RunLockExclusive
    UnwoundIsReleased
PROPERTIES
    LeasesAreLostToRacesOnly
