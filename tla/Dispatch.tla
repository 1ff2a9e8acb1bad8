------------------------------ MODULE Dispatch ------------------------------
(***************************************************************************)
(* The agent's processes: redgear/runner.py (the spawn, its wall clock, its  *)
(* one parse retry, its artifact directories), terminate_process_tree of   *)
(* budget.py, and the two tries that orchestrator.py gives a dispatch.     *)
(* An agent runs in a session of its own, writes to the tree when it likes, *)
(* may start a helper (a test run, a server), and outlives a killed redgear. *)
(*                                                                         *)
(* What is said in a reply is abstracted to whether it parses.  A task's   *)
(* states are RunLoop's; what is judged, reverted or committed here is the  *)
(* set of the spawns that wrote to the tree since it was last clean.       *)
(***************************************************************************)
EXTENDS Integers, FiniteSets

CONSTANTS
    MaxClaims, MaxRuns, MaxKills, MaxHelpers \* bounds on the exploration

ASSUME DispatchAssumption ==
    {MaxClaims, MaxRuns, MaxKills, MaxHelpers} \subseteq Nat

MaxTries == 2   \* _MAX_PARSE_ATTEMPTS, of the orchestrator and of the adapter

Spawn == 1 .. MaxClaims * MaxTries * MaxTries

Directory == {s - 1 : s \in Spawn}   \* turn-0000 and so on

Nobody == 0

VARIABLES
    pc,       \* where redgear is
    try,      \* index of the orchestrator's tries
    again,    \* index of the adapter's attempts within a try
    turn,     \* the adapter's turn counter
    spawns,   \* spawns so far; the last is the current one
    base,     \* spawns when this process of redgear started
    tryFrom,  \* first spawn of this try
    dirOf,    \* the turn directory of a spawn
    log,      \* whose bytes the agent_stdout.log of a directory holds
    heard,    \* spawns whose output has been read
    leader,   \* the process that was spawned
    helper,   \* one that it started
    orphans,  \* spawns whose redgear died before them
    dirt,     \* spawns that wrote to the tree since it was clean
    claims, runs, kills

adapterVars == <<turn, dirOf, log, heard>>
agentVars == <<leader, helper, orphans>>
boundVars == <<claims, runs, kills>>
vars == <<pc, try, again, spawns, base, tryFrom, adapterVars, agentVars, dirt, boundVars>>

Helping(s) == helper[s] \in {"pipe", "quiet"}
Running(s) == leader[s] = "running" \/ Helping(s)

Dispatching == pc \in {"try", "argv", "spawn", "wait", "drain", "parse", "timeout"}

TypeOK ==
    /\ pc \in {"idle", "claim", "judge", "try", "argv", "spawn", "wait", "drain", "parse", "timeout"}
    /\ try \in 0 .. MaxTries - 1 /\ again \in 0 .. MaxTries - 1
    /\ turn \in 0 .. spawns - base
    /\ spawns \in Spawn \cup {0} /\ base \in Spawn \cup {0}
    /\ tryFrom \in 0 .. spawns + 1
    /\ dirOf \in [Spawn -> Directory]
    /\ log \in [Directory -> Spawn \cup {Nobody}]
    /\ heard \subseteq 1 .. spawns
    /\ leader \in [Spawn -> {"none", "running", "exited"}]
    /\ helper \in [Spawn -> {"none", "pipe", "quiet", "gone"}]
    /\ orphans \subseteq 1 .. spawns
    /\ dirt \subseteq 1 .. spawns
    /\ claims \in 0 .. MaxClaims /\ runs \in 0 .. MaxRuns /\ kills \in 0 .. MaxKills

Init ==
    /\ pc = "idle" /\ try = 0 /\ again = 0
    /\ turn = 0 /\ spawns = 0 /\ base = 0 /\ tryFrom = 0
    /\ dirOf = [s \in Spawn |-> 0]
    /\ log = [d \in Directory |-> Nobody]
    /\ heard = {}
    /\ leader = [s \in Spawn |-> "none"]
    /\ helper = [s \in Spawn |-> "none"]
    /\ orphans = {} /\ dirt = {}
    /\ claims = 0 /\ runs = 0 /\ kills = 0

-----------------------------------------------------------------------------
(* A run *)

(* A new process, a new adapter, a counter at 0. *)
StartRun ==
    /\ pc = "idle"
    /\ runs < MaxRuns
    /\ dirt = {}
    /\ runs' = runs + 1
    /\ turn' = 0
    /\ base' = spawns
    /\ pc' = "claim"
    /\ UNCHANGED <<try, again, spawns, tryFrom, dirOf, log, heard, agentVars, dirt, claims, kills>>

ClaimTask ==
    /\ pc = "claim"
    /\ claims < MaxClaims
    /\ dirt = {}
    /\ claims' = claims + 1
    /\ try' = 0
    /\ pc' = "try"
    /\ UNCHANGED <<again, spawns, base, tryFrom, adapterVars, agentVars, dirt, runs, kills>>

(* The end of a run; or a dirty tree before a claim. *)
EndRun ==
    /\ pc = "claim"
    /\ pc' = "idle"
    /\ UNCHANGED <<try, again, spawns, base, tryFrom, adapterVars, agentVars, dirt, boundVars>>

(* A try of the orchestrator: the prompt is persisted, the adapter called. *)
BeginTry ==
    /\ pc = "try"
    /\ again' = 0
    /\ tryFrom' = spawns + 1
    /\ pc' = "argv"
    /\ UNCHANGED <<try, spawns, base, adapterVars, agentVars, dirt, boundVars>>

(* Mutant: the timed-out try's work is left for the next one. *)
BrokenRetryAfterTimeout ==
    /\ pc = "timeout" /\ try = 0
    /\ try' = 1
    /\ pc' = "try"
    /\ UNCHANGED <<again, spawns, base, tryFrom, adapterVars, agentVars, dirt, boundVars>>

(* A timeout is a result that did not parse: the tree is reverted for the    *)
(* second try.                                                             *)
RetryAfterTimeout ==
    /\ pc = "timeout" /\ try = 0
    /\ try' = 1
    /\ dirt' = {}
    /\ pc' = "try"
    /\ UNCHANGED <<again, spawns, base, tryFrom, adapterVars, agentVars, boundVars>>

(* After the second, the run ends as runner_error, the tree as it is. *)
GiveUpAfterTimeout ==
    /\ pc = "timeout" /\ try = MaxTries - 1
    /\ pc' = "idle"
    /\ UNCHANGED <<try, again, spawns, base, tryFrom, adapterVars, agentVars, dirt, boundVars>>

(* The gates; a commit or a revert; or a tree kept for a human. *)
JudgeTurn ==
    /\ pc = "judge"
    /\ \/ dirt' = {} /\ pc' = "claim"
       \/ dirt' = dirt /\ pc' = "idle"
    /\ UNCHANGED <<try, again, spawns, base, tryFrom, adapterVars, agentVars, boundVars>>

-----------------------------------------------------------------------------
(* The adapter *)

(* Mutant: every attempt of a dispatch in one directory. *)
BrokenPrepare ==
    /\ pc = "argv"
    /\ spawns' = spawns + 1
    /\ dirOf' = [dirOf EXCEPT ![spawns + 1] = turn]
    /\ turn' = IF again = 0 THEN turn + 1 ELSE turn
    /\ pc' = "spawn"
    /\ UNCHANGED <<try, again, base, tryFrom, log, heard, agentVars, dirt, boundVars>>

(* _turn_dir, _persist_argv; the directory may exist. *)
Prepare ==
    /\ pc = "argv"
    /\ spawns' = spawns + 1
    /\ dirOf' = [dirOf EXCEPT ![spawns + 1] = turn]
    /\ turn' = turn + 1
    /\ pc' = "spawn"
    /\ UNCHANGED <<try, again, base, tryFrom, log, heard, agentVars, dirt, boundVars>>

SpawnAgent ==
    /\ pc = "spawn"
    /\ leader' = [leader EXCEPT ![spawns] = "running"]
    /\ pc' = "wait"
    /\ UNCHANGED <<try, again, spawns, base, tryFrom, adapterVars, helper, orphans, dirt, boundVars>>

(* No such executable: RunnerError leaves the run. *)
SpawnFails ==
    /\ pc = "spawn"
    /\ pc' = "idle"
    /\ UNCHANGED <<try, again, spawns, base, tryFrom, adapterVars, agentVars, dirt, boundVars>>

WriteLog(bytes) == log' = [log EXCEPT ![dirOf[spawns]] = bytes]

(* communicate returns at the end of the pipes, which the helper may hold. *)
Communicated ==
    /\ pc = "wait"
    /\ leader[spawns] = "exited" /\ helper[spawns] # "pipe"
    /\ WriteLog(spawns)
    /\ heard' = heard \cup {spawns}
    /\ pc' = "parse"
    /\ UNCHANGED <<try, again, spawns, base, tryFrom, turn, dirOf, agentVars, dirt, boundVars>>

(* Mutant: SIGTERM, and no kill after the grace. *)
BrokenTimedOut ==
    /\ pc = "wait"
    /\ leader' \in {leader, [leader EXCEPT ![spawns] = "exited"]}
    /\ pc' = "drain"
    /\ UNCHANGED <<try, again, spawns, base, tryFrom, adapterVars, helper, orphans, dirt, boundVars>>

(* terminate_process_tree: nothing if the spawned process has exited already; *)
(* else SIGTERM to its group, which a helper may ignore or have left, and a  *)
(* kill of the process itself.                                             *)
TimedOut ==
    /\ pc = "wait"
    /\ leader' = [leader EXCEPT ![spawns] = "exited"]
    /\ \/ helper' = helper
       \/ /\ leader[spawns] = "running"
          /\ Helping(spawns)
          /\ helper' = [helper EXCEPT ![spawns] = "gone"]
    /\ pc' = "drain"
    /\ UNCHANGED <<try, again, spawns, base, tryFrom, adapterVars, orphans, dirt, boundVars>>

(* Mutant: the second communicate has no timeout. *)
BrokenDrained ==
    /\ pc = "drain"
    /\ helper[spawns] # "pipe"
    /\ WriteLog(spawns)
    /\ heard' = heard \cup {spawns}
    /\ pc' = "timeout"
    /\ UNCHANGED <<try, again, spawns, base, tryFrom, turn, dirOf, agentVars, dirt, boundVars>>

(* communicate again, for 30 s: what was written, or nothing. *)
Drained ==
    /\ pc = "drain"
    /\ IF helper[spawns] = "pipe" THEN WriteLog(Nobody) /\ UNCHANGED heard
       ELSE WriteLog(spawns) /\ heard' = heard \cup {spawns}
    /\ pc' = "timeout"
    /\ UNCHANGED <<try, again, spawns, base, tryFrom, turn, dirOf, agentVars, dirt, boundVars>>

Parsed ==
    /\ pc = "parse"
    /\ pc' = "judge"
    /\ UNCHANGED <<try, again, spawns, base, tryFrom, adapterVars, agentVars, dirt, boundVars>>

(* Mutant: retried for as long as it takes. *)
BrokenParseRetry ==
    /\ pc = "parse"
    /\ again' = again + 1
    /\ pc' = "argv"
    /\ UNCHANGED <<try, spawns, base, tryFrom, adapterVars, agentVars, dirt, boundVars>>

(* The adapter's own retry, with a reminder: nobody reverts. *)
ParseRetry ==
    /\ pc = "parse" /\ again = 0
    /\ again' = 1
    /\ pc' = "argv"
    /\ UNCHANGED <<try, spawns, base, tryFrom, adapterVars, agentVars, dirt, boundVars>>

(* Twice running: RunnerError leaves the run, past run_ended. *)
ParseFails ==
    /\ pc = "parse" /\ again = MaxTries - 1
    /\ pc' = "idle"
    /\ UNCHANGED <<try, again, spawns, base, tryFrom, adapterVars, agentVars, dirt, boundVars>>

-----------------------------------------------------------------------------
(* The agents, the user, and kills (external) *)

LeaderExits(s) ==
    /\ leader[s] = "running"
    /\ leader' = [leader EXCEPT ![s] = "exited"]
    /\ UNCHANGED <<pc, try, again, spawns, base, tryFrom, adapterVars, helper, orphans, dirt, boundVars>>

HelperStarts(s) ==
    /\ leader[s] = "running" /\ helper[s] = "none"
    /\ Cardinality({t \in Spawn : helper[t] # "none"}) < MaxHelpers
    /\ \E how \in {"pipe", "quiet"} : helper' = [helper EXCEPT ![s] = how]
    /\ UNCHANGED <<pc, try, again, spawns, base, tryFrom, adapterVars, leader, orphans, dirt, boundVars>>

HelperEnds(s) ==
    /\ Helping(s)
    /\ helper' = [helper EXCEPT ![s] = "gone"]
    /\ UNCHANGED <<pc, try, again, spawns, base, tryFrom, adapterVars, leader, orphans, dirt, boundVars>>

AgentWrites(s) ==
    /\ Running(s)
    /\ dirt' = dirt \cup {s}
    /\ UNCHANGED <<pc, try, again, spawns, base, tryFrom, adapterVars, agentVars, boundVars>>

(* A kill, or a signal that unwinds: the agent is in a session of its own. *)
Kill ==
    /\ pc # "idle"
    /\ kills < MaxKills
    /\ kills' = kills + 1
    /\ orphans' = orphans \cup {s \in 1 .. spawns : leader[s] = "running"}
    /\ pc' = "idle"
    /\ UNCHANGED <<try, again, spawns, base, tryFrom, adapterVars, leader, helper, dirt, claims, runs>>

UserTidies ==
    /\ pc = "idle"
    /\ dirt # {}
    /\ dirt' = {}
    /\ UNCHANGED <<pc, try, again, spawns, base, tryFrom, adapterVars, agentVars, boundVars>>

-----------------------------------------------------------------------------

Adapter ==
    \/ BeginTry \/ RetryAfterTimeout \/ GiveUpAfterTimeout
    \/ Prepare \/ SpawnAgent \/ SpawnFails
    \/ Communicated \/ TimedOut \/ Drained
    \/ Parsed \/ ParseRetry \/ ParseFails

Run == StartRun \/ ClaimTask \/ EndRun \/ JudgeTurn \/ Adapter

Agent(s) == LeaderExits(s) \/ HelperStarts(s) \/ HelperEnds(s) \/ AgentWrites(s)

Next ==
    \/ Run
    \/ \E s \in Spawn : Agent(s)
    \/ Kill \/ UserTidies

(* Redgear's own steps are taken: its clock runs out even on an agent that    *)
(* never answers.  Nothing is asked of the agents.                         *)
Spec == Init /\ [][Next]_vars /\ WF_vars(Adapter)
-----------------------------------------------------------------------------

(* Two agents never work in one tree: a timed-out one is dead before it is   *)
(* reported, unless redgear itself was killed.                             *)
OneAgentAtATime ==
    \A s \in Spawn :
        leader[s] = "running" => s \in orphans \/ (s = spawns /\ pc = "wait")

(* All that a run has read of its agents' output is still on disk at its end, *)
(* each in its own file ("Both dispatches are kept, not just the last").   *)
RunKeepsItsBytes ==
    \A s \in heard : s > base => log[dirOf[s]] = s

(* What the gates judge was written in this try: nothing of a try that timed *)
(* out is charged to the next.  Two kinds of spawn are exempt, since neither *)
(* a revert nor the loop can stop them: one that had a helper at any time, *)
(* and one that a kill of redgear left without a parent.                   *)
JudgedWorkIsThisTrys ==
    pc = "judge" =>
        \A s \in dirt : s >= tryFrom \/ helper[s] # "none" \/ s \in orphans

(* How many steps of redgear's a turn can still take: those from here to the   *)
(* end of this spawn, four more if the adapter may ask again, ten if the     *)
(* orchestrator may.                                                       *)
StepsToEnd ==
    [try |-> 10, argv |-> 5, spawn |-> 4, wait |-> 3, drain |-> 2, parse |-> 2, timeout |-> 1]

TurnStepsLeft ==
    IF ~Dispatching THEN 0
    ELSE 10 * (MaxTries - 1 - try) + StepsToEnd[pc]
         + (IF again = 0 /\ pc \in {"argv", "spawn", "wait", "parse"} THEN 4 ELSE 0)

(* The retries are nested and have a counter each, one of which is reset: no *)
(* way from one to the other is free, and neither the agents nor their       *)
(* helpers can give a step back.                                           *)
TurnStepsRunOut ==
    [][Dispatching => /\ TurnStepsLeft' <= TurnStepsLeft
                      /\ Adapter => TurnStepsLeft' < TurnStepsLeft]_vars

(* Every turn is judged or given up, if the agent never answers and a helper *)
(* holds its pipes ("Bounded so an unkillable grandchild holding the pipe    *)
(* cannot hang the run").                                                  *)
TurnEnds == Dispatching ~> ~Dispatching

(* What the code does not do, though it says so of the other retry ("Letting *)
(* it survive into the next try would put it in that try's diff"): the work  *)
(* of an unparseable reply is judged as that of the next.                  *)
JudgedWorkIsOwn == pc = "judge" => dirt \subseteq {spawns}

(* Nor is a timed-out process tree always terminated.                      *)
TimedOutTreeIsDead == pc = "timeout" => ~Running(spawns)
=============================================================================
