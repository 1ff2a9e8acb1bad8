CONSTANTS
    src = src  new = new  build = build  rules = rules
    scratch = scratch  log = log  lock = lock
    None = None
    Ita = Ita
    Path <- AllPaths
    State = {log, lock}
    Control = {lock}
    Lock = lock
    Log = log
    Scratch = scratch
    Rules = rules
    AgentPath = {new, rules}
    CommandPath = {}
    Content = {0, 1}
    Here = 1
    Hidden <- RulesHide
    Heads <- FirstHeads
    ScratchSticks = FALSE
    MaxTurns = 1
    MaxFaults = 0
SPECIFICATION Spec
CHECK_DEADLOCK FALSE
INVARIANTS
    RevertLeavesClean
