CONSTANTS
    src = src  new = new  build = build  rules = rules
    scratch = scratch  log = log  lock = lock
    None = None
    Ita = Ita
    Path <- AllPaths
    State = {log, lock}
    Control = {lock}
    Lock = lock
    Log = log
    Scratch = scratch
    Rules = rules
    AgentPath = {src, new}
    CommandPath = {src, build}
    Content = {0, 1}
    Here = 1
    Hidden <- RulesHide
    Heads <- FirstHeads
    ScratchSticks = TRUE
    MaxTurns = 2
    MaxFaults = 1
SPECIFICATION Spec
CHECK_DEADLOCK FALSE
INVARIANTS
    TypeOK
    RevertIsAccounted
PROPERTIES
    CommitIsWhatWasJudged
    EvidenceIsCommitted
    ImplementsBaseline
