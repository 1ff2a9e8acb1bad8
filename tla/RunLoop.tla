------------------------------ MODULE RunLoop ------------------------------
(***************************************************************************)
(* `redgear run`: the loop of redgear/orchestrator.py with everything it   *)
(* drives -- the projection and the event log (state_engine.py), the run   *)
(* lock (locks.py), the STOP file and the caps (budget.py), the working    *)
(* tree (vcs.py, gitctx.py) and the agent process (external).              *)
(*                                                                         *)
(* One step is what the program does between two points where a kill, an   *)
(* exception or another actor can be told apart: an append to the log and  *)
(* the write of the projection that follows it are two steps, a pure       *)
(* decision and the append it leads to are one.  The log is kept as its    *)
(* replay (logged, what `redgear rebuild` computes); EventLog models the   *)
(* file itself.  Runs follow one another on the same repository, so a run  *)
(* finds what an earlier one, finished, failed or killed, left behind.     *)
(***************************************************************************)
EXTENDS TaskGraph, Integers

CONSTANTS
    NoTask,                  \* the loop works on no task
    User,                    \* whoever else writes to the working tree
    MaxIterations,           \* Budget.max_iterations
    MaxConsecutiveFailures,  \* Budget.max_consecutive_failures
    EditsInTurn,             \* may the user write while a task is claimed?
    MaxRuns, MaxFaults, MaxEdits, MaxStops  \* bounds on the exploration

ASSUME BudgetAssumption ==
    /\ MaxIterations \in Nat \ {0}
    /\ MaxConsecutiveFailures \in Nat \ {0}

ASSUME EnvironmentAssumption ==
    /\ User \notin Task
    /\ NoTask \notin Task
    /\ EditsInTurn \in BOOLEAN
    /\ {MaxRuns, MaxFaults, MaxEdits, MaxStops} \subseteq Nat

VARIABLES
    \* on disk, or in git
    disk,       \* .redgear/task_graph.json
    logged,     \* replay of .redgear/events.jsonl onto the plan's definition
    openRun,    \* the log holds a run_started that no run_ended follows
    lock,       \* .redgear/locks/run.lock
    stop,       \* does .redgear/STOP exist?
    history,    \* the commits of HEAD made since the plan was approved
    dirt,       \* who wrote what the tree has and HEAD has not
    \* in the memory of the process
    pc,         \* where run() is
    mem,        \* its graph
    cur,        \* the task it works on
    try,        \* index of the dispatch try (0 or 1)
    outcome,    \* outcome of the turn
    iter,       \* counters.iterations
    consec,     \* counters.consecutive_failures
    why,        \* the reason given to finish()
    \* what happened, for the properties
    prompted,   \* last iteration directory a prompt of this run was written to
    judged,     \* whose writes were in the diff the gates last saw
    late,       \* claims made since STOP was created
    \* how much of each bound is used
    runs, faults, edits, stops

diskVars == <<disk, logged, openRun, lock, stop, history, dirt>>
procVars == <<pc, mem, cur, try, outcome, iter, consec, why>>
seenVars == <<prompted, judged, late>>
boundVars == <<runs, faults, edits, stops>>
vars == <<diskVars, procVars, seenVars, boundVars>>

-----------------------------------------------------------------------------
(* Shapes *)

Author == Task \cup {User}

(* A commit: on whose behalf, and whose writes it holds. *)
Commit == [task : Author, writes : SUBSET Author]

HeadCommit == Len(history)

(* diff_patch and changed_files against a claim's base_commit. *)
DiffSince(base) ==
    dirt \cup UNION {history[i].writes : i \in (base + 1) .. HeadCommit}

HonestExits == {"blocked", "scope_insufficient"}
TurnOutcomes == {"completed"} \cup HonestExits

Reasons == {"none", "complete", "stopped", "blocked", "budget_exhausted",
            "runner_error"}

(* Places where a task is claimed and its turn not yet settled. *)
TurnPlaces == {"persist_claimed", "prompt", "announce", "dispatch", "retry",
               "judge", "pass", "fail", "persist_verified", "commit",
               "persist_rejected", "decide", "persist_escalated"}

(* Places between turns. *)
LoopPlaces == {"load", "top", "select", "finish", "release"}

Places == {"idle"} \cup LoopPlaces \cup TurnPlaces

Live == pc # "idle"

TypeOK ==
    /\ disk \in Graph
    /\ logged \in Graph
    /\ openRun \in BOOLEAN
    /\ lock \in {"free", "held", "stale"}
    /\ stop \in BOOLEAN
    /\ history \in Seq(Commit)
    /\ dirt \in SUBSET Author
    /\ pc \in Places
    /\ mem \in Graph
    /\ cur \in Task \cup {NoTask}
    /\ try \in {0, 1}
    /\ outcome \in TurnOutcomes
    /\ iter \in Nat
    /\ consec \in Nat
    /\ why \in Reasons
    /\ prompted \in Int
    /\ judged \in SUBSET Author
    /\ late \in Nat
    /\ {runs, faults, edits, stops} \subseteq Nat

-----------------------------------------------------------------------------
(* A repository with an approved plan, a clean tree and no run. *)

Init ==
    /\ disk = PlanDefinition
    /\ logged = PlanDefinition
    /\ openRun = FALSE
    /\ lock = "free"
    /\ stop = FALSE
    /\ history = <<>>
    /\ dirt = {}
    /\ pc = "idle"
    /\ mem = PlanDefinition
    /\ cur = NoTask
    /\ try = 0
    /\ outcome = "completed"
    /\ iter = 0
    /\ consec = 0
    /\ why = "none"
    /\ prompted = -1
    /\ judged = {}
    /\ late = 0
    /\ runs = 0 /\ faults = 0 /\ edits = 0 /\ stops = 0

Goto(place) == pc' = place

(* append_event for an event about one task. *)
LogEvent(t, kind, num) ==
    logged' = [logged EXCEPT ![t] = ReplayEvent(logged[t], kind, num)]

(* _commit_transition up to the append: the new graph exists in memory and *)
(* in the log; Persist writes it to disk.                                  *)
Transition(t, node, kind, num) ==
    /\ LogEvent(t, kind, num)
    /\ mem' = [mem EXCEPT ![t] = node]

(* persist_graph: os.replace of the whole file, never a partial one. *)
SaveGraph == disk' = mem

(* unexpected_dirt and _assert_clean_tree; .redgear/ itself does not count.  *)
CleanTree == dirt = {}

(* revert_working_tree: restore, then clean, outside .redgear/; the event  *)
(* working_tree_reverted names what is discarded.                          *)
RestoreTree == dirt' = {}

(* commit_verified_task: add -A and commit, whatever the tree holds.       *)
CommitTree(author) ==
    /\ history' = Append(history, [task |-> author, writes |-> dirt])
    /\ dirt' = {}

(* start_run and end_run append run_started and run_ended. *)
OpenRun == openRun' = TRUE
CloseRun == openRun' = FALSE

(* persist_proof: the verdict and the diff the gates saw. *)
KeepProof == judged' = DiffSince(mem[cur].claim)

(* finish(reason): EndRun appends the event. *)
Finish(reason) ==
    /\ why' = reason
    /\ Goto("finish")

(* What a process that ends takes with it. *)
ForgetProcess ==
    /\ mem' = disk
    /\ cur' = NoTask
    /\ try' = 0
    /\ outcome' = "completed"
    /\ iter' = 0
    /\ consec' = 0
    /\ prompted' = -1
    /\ judged' = {}

-----------------------------------------------------------------------------
(* Starting a run *)

(* run_lock: O_CREAT | O_EXCL.  A lock that is there, held or left behind, *)
(* refuses the run (E_RUN_LOCKED) and changes nothing.                     *)
AcquireRunLock ==
    /\ pc = "idle"
    /\ runs < MaxRuns
    /\ lock = "free"
    /\ lock' = "held"
    /\ runs' = runs + 1
    /\ why' = "none"
    /\ Goto("load")
    /\ UNCHANGED <<disk, logged, openRun, stop, history, dirt, mem, cur, try,
                   outcome, iter, consec, seenVars, faults, edits, stops>>

(* DirtyTreeError, from _assert_clean_tree at run start. *)
RefuseDirtyStart ==
    /\ pc = "load"
    /\ ~CleanTree
    /\ Goto("release")
    /\ UNCHANGED <<diskVars, mem, cur, try, outcome, iter, consec, why,
                   seenVars, boundVars>>

(* load_graph, _assert_clean_tree, start_run (run_started), fresh counters.  *)
StartRun ==
    /\ pc = "load"
    /\ CleanTree
    /\ mem' = disk
    /\ OpenRun
    /\ iter' = 0
    /\ consec' = 0
    /\ Goto("top")
    /\ UNCHANGED <<disk, logged, lock, stop, history, dirt, cur, try, outcome,
                   why, seenVars, boundVars>>

-----------------------------------------------------------------------------
(* The top of an iteration *)

StopAtBoundary ==
    /\ pc = "top"
    /\ stop
    /\ Finish("stopped")
    /\ UNCHANGED <<diskVars, mem, cur, try, outcome, iter, consec, seenVars,
                   boundVars>>

(* Mutant: the caps compare with > instead of >=. *)
BrokenCapReached == iter > MaxIterations \/ consec > MaxConsecutiveFailures

CapReached == iter >= MaxIterations \/ consec >= MaxConsecutiveFailures

(* budget_exhausted.  max_wall_clock_s is wall-clock time: it may have passed *)
(* at any boundary, or not.                                                *)
BudgetAtBoundary ==
    /\ pc = "top"
    /\ ~stop
    /\ Finish("budget_exhausted")
    /\ UNCHANGED <<diskVars, mem, cur, try, outcome, iter, consec, seenVars,
                   boundVars>>

(* Mutant: the boundary does not look at STOP. *)
BrokenPassBoundary ==
    /\ pc = "top"
    /\ ~CapReached
    /\ Goto("select")
    /\ UNCHANGED <<diskVars, mem, cur, try, outcome, iter, consec, why,
                   seenVars, boundVars>>

PassBoundary ==
    /\ pc = "top"
    /\ ~stop
    /\ ~CapReached
    /\ Goto("select")
    /\ UNCHANGED <<diskVars, mem, cur, try, outcome, iter, consec, why,
                   seenVars, boundVars>>

-----------------------------------------------------------------------------
(* A. SELECT *)

(* Mutant: an empty queue is a complete run. *)
BrokenDrainQueue ==
    /\ pc = "select"
    /\ NextReady(Recompute(mem)) = {}
    /\ mem' = Recompute(mem)
    /\ Finish("complete")
    /\ UNCHANGED <<diskVars, cur, try, outcome, iter, consec, seenVars,
                   boundVars>>

(* Nothing claimable ends the run. *)
DrainQueue ==
    /\ pc = "select"
    /\ LET g == Recompute(mem)
       IN  /\ NextReady(g) = {}
           /\ mem' = g
           /\ Finish(IF \E t \in Task : g[t].state = "escalated"
                     THEN "blocked" ELSE "complete")
    /\ UNCHANGED <<diskVars, cur, try, outcome, iter, consec, seenVars,
                   boundVars>>

(* DirtyTreeError before a claim: the stack unwinds and finish is not called. *)
RefuseDirtyClaim ==
    /\ pc = "select"
    /\ NextReady(Recompute(mem)) # {}
    /\ ~CleanTree
    /\ Goto("release")
    /\ UNCHANGED <<diskVars, mem, cur, try, outcome, iter, consec, why,
                   seenVars, boundVars>>

(* Mutant: the tree is only asserted clean at run start. *)
BrokenClaimTask(t) ==
    /\ pc = "select"
    /\ LET g == Recompute(mem)
       IN  /\ t \in NextReady(g)
           /\ mem' = [g EXCEPT ![t] = ClaimNode(g[t], HeadCommit)]
    /\ LogEvent(t, "task_claimed", 0)
    /\ cur' = t
    /\ try' = 0
    /\ late' = IF stop THEN late + 1 ELSE late
    /\ Goto("persist_claimed")
    /\ UNCHANGED <<disk, openRun, lock, stop, history, dirt, outcome, iter,
                   consec, why, prompted, judged, boundVars>>

(* claim_task of the selected task, up to its event. *)
ClaimTask(t) ==
    /\ pc = "select"
    /\ LET g == Recompute(mem)
       IN  /\ t \in NextReady(g)
           /\ g[t].state \in ClaimableFrom
           /\ CleanTree
           /\ mem' = [g EXCEPT ![t] = ClaimNode(g[t], HeadCommit)]
    /\ LogEvent(t, "task_claimed", 0)
    /\ cur' = t
    /\ try' = 0
    /\ late' = IF stop THEN late + 1 ELSE late
    /\ Goto("persist_claimed")
    /\ UNCHANGED <<disk, openRun, lock, stop, history, dirt, outcome, iter,
                   consec, why, prompted, judged, boundVars>>

(* Mutant: the loop goes on from the verdict without the commit. *)
UncommittedAfterPersist ==
    [persist_claimed   |-> "prompt",
     persist_verified  |-> "top",
     persist_rejected  |-> "decide",
     persist_escalated |-> "finish"]

(* The second half of every transition, then on to what the loop does next.  *)
AfterPersist ==
    [persist_claimed   |-> "prompt",
     persist_verified  |-> "commit",
     persist_rejected  |-> "decide",
     persist_escalated |-> "finish"]

Persist ==
    /\ pc \in DOMAIN AfterPersist
    /\ SaveGraph
    /\ Goto(AfterPersist[pc])
    /\ UNCHANGED <<logged, openRun, lock, stop, history, dirt, mem, cur, try,
                   outcome, iter, consec, why, seenVars, boundVars>>

-----------------------------------------------------------------------------
(* C. DISPATCH: _dispatch_with_one_retry *)

MaxParseAttempts == 2

(* The iteration directory of this try. *)
DispatchIteration == iter * MaxParseAttempts + try

(* persist_prompt: the file, then the event. *)
WritePrompt ==
    /\ pc = "prompt"
    /\ prompted' = DispatchIteration
    /\ Goto("announce")
    /\ UNCHANGED <<diskVars, mem, cur, try, outcome, iter, consec, why, judged,
                   late, boundVars>>

AnnouncePrompt ==
    /\ pc = "announce"
    /\ Goto("dispatch")
    /\ UNCHANGED <<diskVars, mem, cur, try, outcome, iter, consec, why,
                   seenVars, boundVars>>

(* The agent process (external) writes to the tree or not. *)
AgentWrites == \E w \in SUBSET {cur} : dirt' = dirt \cup w

(* It reports a turn that parses; record_turn appends turn_completed. *)
TurnReturns(o) ==
    /\ pc = "dispatch"
    /\ AgentWrites
    /\ outcome' = o
    /\ Goto("judge")
    /\ UNCHANGED <<disk, logged, openRun, lock, stop, history, mem, cur, try,
                   iter, consec, why, seenVars, boundVars>>

(* Mutant: one retry too many. *)
BrokenTurnUnparseable ==
    /\ pc = "dispatch"
    /\ AgentWrites
    /\ IF try < MaxParseAttempts
       THEN Goto("retry") /\ UNCHANGED why
       ELSE Finish("runner_error")
    /\ UNCHANGED <<disk, logged, openRun, lock, stop, history, mem, cur, try,
                   outcome, iter, consec, seenVars, boundVars>>

(* Its result does not parse, or the dispatch timed out: one retry, then the *)
(* run ends as runner_error with the tree as it is and the task claimed.   *)
TurnUnparseable ==
    /\ pc = "dispatch"
    /\ AgentWrites
    /\ IF try + 1 < MaxParseAttempts
       THEN Goto("retry") /\ UNCHANGED why
       ELSE Finish("runner_error")
    /\ UNCHANGED <<disk, logged, openRun, lock, stop, history, mem, cur, try,
                   outcome, iter, consec, seenVars, boundVars>>

(* The adapter raises RunnerError, which run() does not catch. *)
RunnerRaises ==
    /\ pc = "dispatch"
    /\ AgentWrites
    /\ Goto("release")
    /\ UNCHANGED <<disk, logged, openRun, lock, stop, history, mem, cur, try,
                   outcome, iter, consec, why, seenVars, boundVars>>

(* Mutant: the retry inherits what the unparseable try wrote. *)
BrokenRevertForRetry ==
    /\ pc = "retry"
    /\ try' = try + 1
    /\ Goto("prompt")
    /\ UNCHANGED <<disk, logged, openRun, lock, stop, history, dirt, mem, cur,
                   outcome, iter, consec, why, seenVars, boundVars>>

(* Mutant: the retry is not counted. *)
EndlessRevertForRetry ==
    /\ pc = "retry"
    /\ RestoreTree
    /\ Goto("prompt")
    /\ UNCHANGED <<disk, logged, openRun, lock, stop, history, mem, cur, try,
                   outcome, iter, consec, why, seenVars, boundVars>>

(* _revert_tree, reason unparseable_result; then the second try. *)
RevertForRetry ==
    /\ pc = "retry"
    /\ RestoreTree
    /\ try' = try + 1
    /\ Goto("prompt")
    /\ UNCHANGED <<disk, logged, openRun, lock, stop, history, mem, cur,
                   outcome, iter, consec, why, seenVars, boundVars>>

-----------------------------------------------------------------------------
(* D. VERIFY and E. DECIDE *)

(* Mutant: saying "blocked" consumes an attempt. *)
BrokenEscalateHonest ==
    /\ pc = "judge"
    /\ outcome \in HonestExits
    /\ Transition(cur, EscalateNode(RejectNode(mem[cur]), "blocker"),
                  "task_escalated", 0)
    /\ iter' = iter + 1
    /\ consec' = 0
    /\ why' = "blocked"
    /\ Goto("persist_escalated")
    /\ UNCHANGED <<disk, openRun, lock, stop, history, dirt, cur, try, outcome,
                   seenVars, boundVars>>

(* An honest exit escalates: no gate runs and no attempt is consumed.      *)
(* counters.with_success() and finish("blocked") follow the transition.    *)
EscalateHonest ==
    /\ pc = "judge"
    /\ outcome \in HonestExits
    /\ mem[cur].state \in EscalatableFrom
    /\ Transition(cur, EscalateNode(mem[cur], "blocker"), "task_escalated", 0)
    /\ iter' = iter + 1
    /\ consec' = 0
    /\ why' = "blocked"
    /\ Goto("persist_escalated")
    /\ UNCHANGED <<disk, openRun, lock, stop, history, dirt, cur, try, outcome,
                   seenVars, boundVars>>

(* Mutant: the diff misses the untracked files (no intent-to-add). *)
BrokenJudge(verdict) ==
    /\ pc = "judge"
    /\ outcome = "completed"
    /\ judged' = {}
    /\ Goto(verdict)
    /\ UNCHANGED <<diskVars, mem, cur, try, outcome, iter, consec, why,
                   prompted, late, boundVars>>

(* run_gates over the diff against the claim's baseline, then the proof next *)
(* to the prompt of this try.  The verdict is the gates'; the loop must cope *)
(* with either.  Files are the turns that wrote them here, so what the     *)
(* gates' own commands write is not seen: WorkTree has it.                 *)
Judge(verdict) ==
    /\ pc = "judge"
    /\ outcome = "completed"
    /\ KeepProof
    /\ Goto(verdict)
    /\ UNCHANGED <<diskVars, mem, cur, try, outcome, iter, consec, why,
                   prompted, late, boundVars>>

MarkVerified ==
    /\ pc = "pass"
    /\ mem[cur].state \in VerifiableFrom
    /\ LET proof == mem[cur].attempts + 1
       IN  Transition(cur, VerifyNode(mem[cur], proof), "task_verified", proof)
    /\ Goto("persist_verified")
    /\ UNCHANGED <<disk, openRun, lock, stop, history, dirt, cur, try, outcome,
                   iter, consec, why, seenVars, boundVars>>

(* _commit_verified: the commit, task_committed, counters.with_success() and *)
(* the next iteration.                                                     *)
CommitVerified ==
    /\ pc = "commit"
    /\ CommitTree(cur)
    /\ iter' = iter + 1
    /\ consec' = 0
    /\ Goto("top")
    /\ UNCHANGED <<disk, logged, openRun, lock, stop, mem, cur, try, outcome,
                   why, seenVars, boundVars>>

(* Mutant: the event carries the attempts before this one. *)
BrokenRejectTask ==
    /\ pc = "fail"
    /\ mem[cur].state \in RejectableFrom
    /\ Transition(cur, RejectNode(mem[cur]), "task_rejected", mem[cur].attempts)
    /\ iter' = iter + 1
    /\ consec' = consec + 1
    /\ Goto("persist_rejected")
    /\ UNCHANGED <<disk, openRun, lock, stop, history, dirt, cur, try, outcome,
                   why, seenVars, boundVars>>

RejectTask ==
    /\ pc = "fail"
    /\ mem[cur].state \in RejectableFrom
    /\ Transition(cur, RejectNode(mem[cur]), "task_rejected", mem[cur].attempts + 1)
    /\ iter' = iter + 1
    /\ consec' = consec + 1
    /\ Goto("persist_rejected")
    /\ UNCHANGED <<disk, openRun, lock, stop, history, dirt, cur, try, outcome,
                   why, seenVars, boundVars>>

(* No attempt left: the task waits for a human and the tree is kept.       *)
EscalateExhausted ==
    /\ pc = "decide"
    /\ mem[cur].attempts >= MaxAttempts[cur]
    /\ mem[cur].state \in EscalatableFrom
    /\ Transition(cur, EscalateNode(mem[cur], "attempts_exhausted"),
                  "task_escalated", 0)
    /\ why' = "blocked"
    /\ Goto("persist_escalated")
    /\ UNCHANGED <<disk, openRun, lock, stop, history, dirt, cur, try, outcome,
                   iter, consec, seenVars, boundVars>>

(* Mutant: the comparison with max_attempts is off by one. *)
BrokenRevertForNextAttempt ==
    /\ pc = "decide"
    /\ mem[cur].attempts <= MaxAttempts[cur]
    /\ RestoreTree
    /\ Goto("top")
    /\ UNCHANGED <<disk, logged, openRun, lock, stop, history, mem, cur, try,
                   outcome, iter, consec, why, seenVars, boundVars>>

(* An attempt is left: _revert_tree, reason gate_failure.                  *)
RevertForNextAttempt ==
    /\ pc = "decide"
    /\ mem[cur].attempts < MaxAttempts[cur]
    /\ RestoreTree
    /\ Goto("top")
    /\ UNCHANGED <<disk, logged, openRun, lock, stop, history, mem, cur, try,
                   outcome, iter, consec, why, seenVars, boundVars>>

-----------------------------------------------------------------------------
(* Ending a run *)

(* end_run appends run_ended. *)
EndRun ==
    /\ pc = "finish"
    /\ CloseRun
    /\ Goto("release")
    /\ UNCHANGED <<disk, logged, lock, stop, history, dirt, mem, cur, try,
                   outcome, iter, consec, why, seenVars, boundVars>>

(* The finally of run_lock, on return and on an exception alike.           *)
ReleaseRunLock ==
    /\ pc = "release"
    /\ lock' = "free"
    /\ ForgetProcess
    /\ Goto("idle")
    /\ UNCHANGED <<disk, logged, openRun, stop, history, dirt, why, late,
                   boundVars>>

(* An exception the loop does not catch: TimeoutError from the log's lock, *)
(* CommitFailedError from git, OSError, KeyboardInterrupt.                 *)
Unwind ==
    /\ Live
    /\ pc # "release"
    /\ faults < MaxFaults
    /\ faults' = faults + 1
    /\ why' = "none"
    /\ Goto("release")
    /\ UNCHANGED <<diskVars, mem, cur, try, outcome, iter, consec, seenVars,
                   runs, edits, stops>>

(* The process is killed.  The lock file stays. *)
Crash ==
    /\ Live
    /\ faults < MaxFaults
    /\ faults' = faults + 1
    /\ lock' = "stale"
    /\ why' = "none"
    /\ ForgetProcess
    /\ Goto("idle")
    /\ UNCHANGED <<disk, logged, openRun, stop, history, dirt, late, runs,
                   edits, stops>>

-----------------------------------------------------------------------------
(* The user *)

UserEdits ==
    /\ edits < MaxEdits
    /\ EditsInTurn \/ pc \notin TurnPlaces
    /\ edits' = edits + 1
    /\ dirt' = dirt \cup {User}
    /\ UNCHANGED <<disk, logged, openRun, lock, stop, history, procVars,
                   seenVars, runs, faults, stops>>

(* Told that the tree is dirty, the user commits or discards what is there.  *)
UserTidies ==
    /\ pc = "idle"
    /\ dirt # {}
    /\ dirt' = {}
    /\ \/ UNCHANGED history
       \/ history' = Append(history, [task |-> User, writes |-> dirt])
    /\ UNCHANGED <<disk, logged, openRun, lock, stop, procVars, seenVars,
                   boundVars>>

(* Told that a lock is left behind, the user deletes it. *)
UserRemovesLock ==
    /\ lock = "stale"
    /\ lock' = "free"
    /\ UNCHANGED <<disk, logged, openRun, stop, history, dirt, procVars,
                   seenVars, boundVars>>

(* `redgear stop`, and the deletion of the file it created. *)
RequestStop ==
    /\ stops < MaxStops
    /\ ~stop
    /\ stops' = stops + 1
    /\ stop' = TRUE
    /\ late' = 0
    /\ UNCHANGED <<disk, logged, openRun, lock, history, dirt, procVars,
                   prompted, judged, runs, faults, edits>>

ClearStop ==
    /\ pc = "idle"
    /\ stop
    /\ stop' = FALSE
    /\ UNCHANGED <<disk, logged, openRun, lock, history, dirt, procVars,
                   seenVars, boundVars>>

-----------------------------------------------------------------------------

Engine ==
    \/ RefuseDirtyStart \/ StartRun
    \/ StopAtBoundary \/ BudgetAtBoundary \/ PassBoundary
    \/ DrainQueue \/ RefuseDirtyClaim
    \/ \E t \in Task : ClaimTask(t)
    \/ Persist
    \/ WritePrompt \/ AnnouncePrompt
    \/ \E o \in TurnOutcomes : TurnReturns(o)
    \/ TurnUnparseable \/ RunnerRaises \/ RevertForRetry
    \/ EscalateHonest
    \/ \E v \in {"pass", "fail"} : Judge(v)
    \/ MarkVerified \/ CommitVerified
    \/ RejectTask \/ EscalateExhausted \/ RevertForNextAttempt
    \/ EndRun \/ ReleaseRunLock

Environment ==
    \/ AcquireRunLock
    \/ Unwind \/ Crash
    \/ UserEdits \/ UserTidies \/ UserRemovesLock \/ RequestStop \/ ClearStop

Next == Engine \/ Environment

Spec == Init /\ [][Next]_vars

(* run() is one thread that never waits for anything but the agent process,  *)
(* and the adapter's timeout bounds that wait: once started it keeps going.  *)
FairSpec == Spec /\ WF_vars(Engine)
-----------------------------------------------------------------------------
(* Safety *)

(* The agent always starts from the baseline: whatever an earlier try, an  *)
(* earlier attempt, an earlier run or the user wrote is gone from the tree *)
(* or committed below the claim's base_commit before a prompt is dispatched  *)
(* (_assert_clean_tree, _commit_verified and both uses of _revert_tree).   *)
DispatchStartsClean ==
    pc \in {"persist_claimed", "prompt", "announce", "dispatch"} =>
        /\ dirt = {}
        /\ mem[cur].claim = HeadCommit

(* So the diff the gates judge, and the one persisted as proof, holds no   *)
(* write but those of this task's turn (vcs.py: what makes base_commit a   *)
(* true baseline rather than a fiction).                                   *)
DiffIsThisTurn ==
    pc \in {"judge", "pass", "fail"} => DiffSince(mem[cur].claim) \subseteq {cur}

(* Both halves of it: base_commit is where every turn starts and what its   *)
(* diff is taken against.                                                  *)
TrueBaseline == DispatchStartsClean /\ DiffIsThisTurn

(* The commits of the run loop.  What a verified task's commit holds is    *)
(* what its gates saw: nothing is swept into it by `git add -A` between the  *)
(* verdict and the commit.  The verdict is on disk and in the log by then, *)
(* and no task is committed twice, whatever runs came before.              *)
CommitsOf(t) == {i \in 1 .. HeadCommit : history[i].task = t}

CommitIsJudged ==
    [][Live /\ history' # history =>
           /\ dirt = judged
           /\ disk[cur].state = "verified" /\ logged[cur].state = "verified"
           /\ CommitsOf(cur) = {}]_vars

(* No work is built on an unproven foundation: a task that has left the    *)
(* queue on disk has all its dependencies verified on disk, whatever crashes *)
(* and restarts came between (recompute_readiness, never trusted from file). *)
FoundationVerified ==
    \A t \in Task : disk[t].state \notin Recomputable => DepsVerified(disk, t)

(* The log accounts for everything the projection says: it may be ahead of *)
(* it after a crash, never behind (_commit_transition appends first).      *)
ProjectionIsLogged ==
    \A t \in Task :
        /\ disk[t].attempts <= logged[t].attempts
        /\ disk[t].state = "claimed" => logged[t].state \notin Recomputable
        /\ disk[t].state = "verified" =>
               logged[t].state = "verified" /\ logged[t].proof = disk[t].proof
        /\ disk[t].state = "rejected" =>
               logged[t].state \in {"claimed", "rejected", "escalated"}
        /\ disk[t].state = "escalated" => logged[t].state = "escalated"

(* Honesty is free (G3): only the verdict of a turn that claimed completion  *)
(* consumes an attempt; blocked, scope_insufficient, an unparseable result,  *)
(* a killed or an unwound run never do.                                    *)
HonestyIsFree ==
    [][\A t \in Task : disk'[t].attempts # disk[t].attempts =>
           /\ t = cur /\ outcome = "completed"
           /\ judged = DiffSince(disk[t].claim)
           /\ disk'[t].attempts = disk[t].attempts + 1]_vars

(* A run never writes a prompt over one it already wrote: every dispatch of  *)
(* a run, retries included, has an iteration directory of its own.         *)
PromptNeverOverwritten ==
    [][pc = "prompt" /\ pc' = "announce" => prompted' > prompted]_vars

(* The brakes hold over a whole run, retries and escalations included: the *)
(* caps are hard, and after STOP appears at most the task being selected   *)
(* at that moment is still claimed.                                        *)
CapsHold == iter <= MaxIterations /\ consec <= MaxConsecutiveFailures

StopIsPrompt == late <= 1

BrakesHold == CapsHold /\ StopIsPrompt

(* A kill or an escaping exception costs a task at most one attempt more     *)
(* than its plan allows (between task_rejected and task_escalated it leaves  *)
(* a claimable task with none left), and only a fault ever does: budgets   *)
(* are not lost between runs.                                              *)
AttemptsPerFault == \A t \in Task : disk[t].attempts <= MaxAttempts[t] + faults

(* Verified work is committed: a task is verified and has no commit only     *)
(* while its commit is due, or because a fault came between its verdict and  *)
(* its commit, one task per fault (_commit_verified follows mark_verified).  *)
Uncommitted == {t \in Task : disk[t].state = "verified" /\ CommitsOf(t) = {}}

UncommittedPerFault ==
    Cardinality(Uncommitted) <= faults + (IF pc = "commit" THEN 1 ELSE 0)

(* redgear never destroys or commits what the user wrote: their edits leave  *)
(* the dirty set only by their own hand (_assert_clean_tree, "destroying   *)
(* that is not redgear's call to make").                                   *)
UserWorkIsKept == [][(User \in dirt /\ User \notin dirt') => (pc = "idle")]_vars

(* The loop only discards writes of a task it will dispatch again: by the  *)
(* log the task is still claimed (a result did not parse) or was rejected  *)
(* with an attempt left.  A task that is escalated, or that has spent its  *)
(* attempts, keeps its failure state for a human.                          *)
EvidenceIsKept ==
    [][(dirt' # dirt /\ dirt' = {} /\ Live /\ history' = history) =>
           \/ logged[cur].state = "claimed"
           \/ /\ logged[cur].state = "rejected"
              /\ logged[cur].attempts < MaxAttempts[cur]]_vars

(* What does hold of a run that ends as complete: everything is verified, or *)
(* a task an earlier run left in its turn is what it did not look at.  It    *)
(* never hides an escalated, a rejected or a claimable task (DrainQueue).  *)
CompleteOrStranded ==
    why = "complete" =>
        \/ \A t \in Task : disk[t].state = "verified"
        \/ \E t \in Task : disk[t].state \in VerifiableFrom

-----------------------------------------------------------------------------
(* Refinement: the projection on disk goes through the abstract lifecycle, *)
(* whatever is killed, retried, reverted or refused on the way.            *)

StageOf(node) == IF node.state \in Recomputable THEN "open" ELSE node.state

Lifecycle == INSTANCE TaskLifecycle WITH
    stage <- [t \in Task |-> StageOf(disk[t])],
    spent <- [t \in Task |-> disk[t].attempts]

ImplementsLifecycle == Lifecycle!Spec

(* What the loop does to the working tree are the steps that WorkTree shows  *)
(* the git commands to implement: no turn starts on a dirty tree, every one  *)
(* ends in a commit, a revert or a run that stops, and HEAD only gets what a *)
(* commit takes.                                                           *)
PlaceOf ==
    CASE pc \in {"top", "select"} -> "claim"
      [] pc \in {"persist_claimed", "prompt", "announce", "dispatch"} -> "turn"
      [] pc \in {"judge", "pass", "fail"} -> "judge"
      [] pc \in {"persist_verified", "commit"} -> "commit"
      [] pc \in {"retry", "persist_rejected", "decide"} -> "revert"
      [] OTHER -> "idle"

(* What HEAD has of an author: as much as the commits that hold its writes.  *)
HeadOf == [a \in Author |-> Cardinality({i \in 1 .. HeadCommit : a \in history[i].writes})]

Base == INSTANCE Baseline WITH
    Work <- Author,
    Written <- {},
    place <- PlaceOf,
    head <- HeadOf

KeepsToBaseline == Base!Spec

-----------------------------------------------------------------------------
(* Why a run ends: the steps it may still take.  A turn that is not counted  *)
(* yet lies below the boundary that follows it, the second try below the   *)
(* first, and the counter is only moved where 20 steps are given up.       *)
StepsInPlace ==
    [persist_rejected |-> 19, decide |-> 18, top |-> 17, select |-> 16,
     persist_claimed |-> 15, retry |-> 11, prompt |-> 10, announce |-> 9,
     dispatch |-> 8, judge |-> 7, pass |-> 6, fail |-> 6, persist_verified |-> 5,
     commit |-> 4, persist_escalated |-> 3, finish |-> 2, release |-> 1]

StepsLeft ==
    IF pc = "idle" THEN 0
    ELSE IF pc = "load" THEN 20 * (MaxIterations + 1)
    ELSE 20 * (MaxIterations - iter) + StepsInPlace[pc]
         + (IF try = 0 /\ pc \in {"prompt", "announce", "dispatch"} THEN 4 ELSE 0)

(* Every step of the loop uses one up, and while a run is live nothing gives *)
(* any back: neither the agent's answers, nor a verdict, a revert, a refusal *)
(* or the user.  So a run has at most 20 * (MaxIterations + 1) of them.    *)
StepsRunOut ==
    [][Live => StepsLeft' <= StepsLeft /\ (Engine => StepsLeft' < StepsLeft)]_vars

-----------------------------------------------------------------------------
(* Liveness: whatever the agent answers, however it is judged or stopped, a  *)
(* run that has started ends.                                              *)
RunEnds == Live ~> ~Live

-----------------------------------------------------------------------------
(* What the repository says and the code does not keep.                    *)

(* An escalated task waits for a human: by the log, the only authority on  *)
(* what happened, nothing ever happens to it again (a kill between         *)
(* task_escalated and the write of the projection refutes it).             *)
EscalatedWaits ==
    [][\A t \in Task : logged[t].state = "escalated" => logged'[t] = logged[t]]_vars

(* A task never gets more attempts than its plan allows: a kill between      *)
(* task_rejected and task_escalated leaves a claimable task with none left, *)
(* which the next run dispatches.                                          *)
AttemptsBounded == \A t \in Task : disk[t].attempts <= MaxAttempts[t]

(* One commit per verified task, and none for any other, whenever no commit  *)
(* is due: a kill between the verdict and the commit leaves a verified task  *)
(* that no later run commits.                                              *)
OneCommitPerVerified ==
    pc \notin {"pass", "persist_verified", "commit"} =>
        \A t \in Task :
            Cardinality({i \in 1 .. HeadCommit : history[i].task = t}) =
                IF disk[t].state = "verified" THEN 1 ELSE 0

(* Only a fault refutes the last two, and only a fault lets the log and the  *)
(* projection part: without one, `redgear rebuild` finds every task at the *)
(* stage the projection has it at, but for the transition in progress.     *)
LogAgrees ==
    pc \notin DOMAIN AfterPersist =>
        \A t \in Task : /\ StageOf(logged[t]) = StageOf(disk[t])
                        /\ logged[t].attempts = disk[t].attempts

ExactWithoutFaults ==
    faults = 0 => AttemptsBounded /\ OneCommitPerVerified /\ LogAgrees

(* What a kill or an escaping exception costs, over any number of runs: one  *)
(* attempt or one commit, and nothing is lost without one.                 *)
OnlyFaultsCost == AttemptsPerFault /\ UncommittedPerFault /\ ExactWithoutFaults

(* "Everything verified is a complete run" (exit code 0): the second       *)
(* run after a runner_error refutes it (run complete_lies).                *)
CompleteMeansVerified ==
    why = "complete" => \A t \in Task : disk[t].state = "verified"

(* Every run that starts is closed by run_ended, whatever the termination: *)
(* an exception or a kill refutes it (MaxFaults = 1).                      *)
RunsAreClosed == pc = "idle" => ~openRun

(* `redgear rebuild` finds the projection equal to the replay of the log   *)
(* once a run has ended through finish: an escalation refutes it, and so   *)
(* does a task that has become ready.                                      *)
RebuildMatches == pc = "idle" /\ why # "none" => disk = logged
=============================================================================
