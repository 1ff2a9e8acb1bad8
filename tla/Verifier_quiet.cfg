CONSTANTS
    Path = {f1, f2, log}
    StatePath = {log}
    Test = {t1, t2}
    CommandsWrite = FALSE
SPECIFICATION Spec
CHECK_DEADLOCK FALSE
SYMMETRY FileSymmetry
INVARIANTS
    TypeOK
    PassedTreeIsInScope
    PassHasEvidence
