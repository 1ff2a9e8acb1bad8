# redgear in TLA+

redgear drives a coding agent through a plan: it claims a task, dispatches a
prompt, judges what the agent left in the working tree with six deterministic
gates, and commits, reverts or stops for a human.  Its state is a handful of
files under `.redgear/` and a git repository.  Everything that makes it hard is
between two writes: a kill, an exception, a second process, a human who edits.

This directory holds TLA+ modules translated from `src/redgear/`, TLC
configurations that check them on small instances, and TLAPS proofs for every
value of the constants.  `PROJECT.json` maps each definition to its lines and
lists the runs, hazards, findings, mutants and theorems.

    tlc -workers 2 -config RunLoop_runs.cfg MCRunLoop.tla
    tlapm RunLoopProofs.tla

## 1. The system

| Component | State | Operations | Talks to |
|---|---|---|---|
| run loop (`orchestrator.py`) | its graph in memory, current task, counters, reason | `run`, `_dispatch_with_one_retry`, `_commit_verified`, `_revert_tree` | everything below |
| task graph (`state_engine.py`, `schemas.py`) | `task_graph.json` | claim, verify, reject, escalate, readiness, selection, replay | appends to the event log first, then replaces the file |
| graph validation (`state_engine.py`) | none | `validate_graph`, `find_cycle` | run on every load and every generated plan |
| event log (`events.py`) | `events.jsonl` and its lock file | `append`, `last_seq`, `replay` | called by all writers of state |
| locks (`locks.py`) | `run.lock`, task leases | acquire, release by token, reap | the run lock wraps `run`; leases and reaping have no caller |
| budget and STOP (`budget.py`) | the `STOP` file, run counters | `budget_exhausted`, `request_stop` | read at the loop boundary only |
| working tree (`vcs.py`, `gitctx.py`) | git index, tree, HEAD | dirty check, intent-to-add and diff, revert, commit | shared with the user, the agent and what the gates execute |
| gate pipeline (`verifier.py`) | none (one proof per call) | `run_gates` and six gates | runs lint and tests inside the tree it judges |
| planner (`planner.py`) | `spec.json`, `task_graph.json` | `generate_plan`, `approve_plan` | an agent; a human; no lock |
| commands (`cli.py`), HTTP API (`api/app.py`) | none | `plan`, `approve`, `run`, `stop`, `verify`, `rebuild`, ...; `POST /plan/approve` | the above |
| agent adapter (`runner.py`) | turn counter, artifact files | `dispatch` with a parse retry of its own, `dispatch_json` | the agent process, `terminate_process_tree` |
| prompt engine, redaction, hashing, paths, errors | none | pure functions | |

What is hard, and what makes each part correct:

* **Run loop.**  A turn is a dozen writes to four places (log, projection, tree,
  iteration directories), and any of them may be the last.  Correct: every turn
  starts from the committed baseline, the diff judged is that turn's alone, the
  commit is what was judged, only judged failures cost attempts, evidence for a
  human is kept, nothing is built on unverified work, caps and STOP hold, and a
  run ends.
* **Working tree.**  Four views of the same files (HEAD, index, tree, ignore
  rules), changed by a sequence of git commands of which any may fail.  Correct:
  the commit holds what was judged and the evidence for it, a revert leaves
  HEAD, spares what is not the turn's and names what it destroys.
* **Agent adapter.**  Processes that do not answer, leave helpers on their pipes
  and outlive a killed redgear, under two nested retries.  Correct: one agent at
  a time, every turn ends, what is judged was written in this try, raw output
  is kept.
* **Event log.**  Several processes append; a write may be cut and power lost.
  Correct: a seq is a position, damage is last, what was acknowledged is
  readable.
* **Locks.**  Files created, read and unlinked in separate steps.  Correct: one
  run at a time, a live lease stands, an unwinding process strands nothing, a
  dead one's lock is recovered.
* **Gates.**  Skips mean different things, and commands execute in the tree that
  was audited.  Correct: no command before both audits, a PASS has evidence and
  an audited tree, a failed gate and a FAIL say why.
* **Validation.**  Correct: exactly the acyclic graphs pass, and an
  implementation is judged by tests that others write.
* **Planning.**  Three commands on one graph file without a lock.  Correct: what
  is active or runs was approved, and only sound plans are written.

## 2. The modules

| Module | Models | Proofs |
|---|---|---|
| `TaskGraph` | the graph as a value: nodes, transitions, readiness, selection, replay | used below |
| `TaskLifecycle` | abstract: what a task may go through | refined by `RunLoop` |
| `RunLoop` | `redgear run` with its disk, log, lock, tree, agent, user, kills | `RunLoopProofs` |
| `Baseline` | abstract: a turn's tree, with judge, commit and revert as single steps | refined by `WorkTree` and by `RunLoop` |
| `WorkTree` | the git commands of a turn over HEAD, index and tree, and the suite's scratch directory | `WorkTreeProofs` |
| `Dispatch` | the agent's processes: spawn, wall clock, termination, retries, artifacts | `DispatchProofs` |
| `AtomicLog` | abstract: a log that only grows, seq = position | refined by `EventLog` |
| `EventLog` | `append` under its lock file, with cuts and power losses | `EventLogProofs` |
| `Locks` | run lock and leases of several processes, and reapers | `LocksProofs` |
| `Verifier` | `run_gates` over any tree, task, declaration and report | `VerifierProofs` |
| `PlanGraph` | `validate_graph` with `find_cycle`, one iteration at a time | `PlanGraphProofs` |
| `Planning` | plan, approve and run as processes on the same files | `PlanningProofs` |
| `MC*` | the small instances TLC uses | |

**RunLoop.**  `disk` is `task_graph.json`; `mem` the loop's copy; `logged` the
replay of the log, which is the part of the log the properties need; `history`
the commits; `dirt` whose writes the tree has and HEAD has not.  A commit is a
position in `history`, so a claim's `base_commit` is a number and `DiffSince` is
what `gitctx` would show.  `pc` names the places of `run()` where an append and
the following write, or a decision and an effect, can be separated.
`_commit_transition` is `Transition` (append) and `Persist` (replace), with the
counters and the reason the loop sets next.  `TurnReturns`, `TurnUnparseable`
and `RunnerRaises` are one call of the adapter each: it writes, or not, and
answers.  `Unwind` is an exception that leaves `run()` through the `finally` of
the run lock; `Crash` leaves the lock.

**WorkTree.**  A tree maps each path to its content or to `None`; the index also
has `Ita`, the entry that `git add -A -N` makes.  `Ignored` applies the rules
that are in the tree at that moment to untracked paths, as git does.  Each
`git` call is an action of its own and may be the last: `Unwind` is its failure
or an exception, `Kill` the end of the process.  `AgentWrites` changes any of
`AgentPath` at once, which is what a turn looks like from outside.  `reported`
is what `revert_working_tree` lists, `saved` the tree when it was asked.
The linter, the suite and the coverage export run in the repository's root after
the audit: `CommandsWrite` changes any of `CommandPath`, and the suite may leave
its scratch directory behind (`ScratchSticks`).  `judged` is what the audit saw,
`patch` the diff that is persisted after the commands, so the two may differ.
`Control` are the state paths that are never committed, `Log` one that is.  What
the git commands do to an intent-to-add entry was observed with git 2.39, not
taken from the comments, which are wrong about it (below).

**Baseline** is where the two meet: a turn dirties the tree, a verdict looks at
it, and by then the commands of the gates may have written what they write
(`Written`), one step commits it and one step restores it.  `WorkTree` shows that the git
commands amount to that (`ImplementsBaseline`), `RunLoop` that the loop does
nothing else to the tree (`KeepsToBaseline`); there, what HEAD has of an author
is the number of commits that hold its writes.

**Dispatch.**  `try` is the orchestrator's retry, `again` the adapter's; a spawn
is a number, and `dirt` are the spawns that wrote.  The process that was spawned
(`leader`) and one it may start (`helper`) are separate, since a helper may hold
the pipe, ignore SIGTERM or have left the group, and since
`terminate_process_tree` returns at once if the leader has exited.  What a reply
says is `RunLoop`'s business and what a plan reply says `Planning`'s.

**EventLog.**  A line is its seq, writer and whether it parses.  `WriteIsCut`,
`SyncFails`, `Kill` and `PowerLoss` are the failures; `synced` is what the
medium surely has.  A line whose newline is missing is continued by the next
write, which is what `'ab'` does.

**Locks.**  A lock file holds a token; it exists before its record is written.
Time is the set of tokens that have expired.  `ReadBack`/`ReleaseUnlinks` and
`ReapReads`/`ReapLogs`/`ReapUnlinks` are separate, as in the code.

**Verifier.**  A file has content `old`, `new` or none; frozen digests are the
content at the claim.  A suite report is an outcome per test, a set of failed
collectors and a coverage verdict.  Whether commands write is a constant: the
code neither prevents nor notices it.

**PlanGraph.**  Any graph the schema lets through, then references, Kahn's loop,
node checks.  `graph.edges` plays no part in the sort and is left out; so is the
scope-overlap invariant, whose file list no caller passes.  `DepChoices` and
`InheritChoices` limit what TLC enumerates; the proofs leave them open.

**Planning.**  A plan is one of a set, some `Broken` (refused by parsing or
validation), some `Poor` (refused by the quality check), each with the hash of
its requirements.  A graph file is replaced in one step; the load and the write
of a command are different steps.

## 3. What TLC checks

Each passing property has a mutant in the same module: a plausible bug under
which TLC finds the property violated.

| Run | Question | Bounds |
|---|---|---|
| `runs` | what consecutive runs promise, what a fault can cost, and that each run ends; refinement of `TaskLifecycle` and `Baseline` | three tasks in a fork, 2 runs, 1 kill or exception, 1 edit, 1 STOP, caps 3 and 2 |
| `worktree` | what a commit holds, what a revert leaves, spares and names; refinement of `Baseline` | one path of each kind (source, new, ignored, rules, scratch, log, lock), contents 0 and 1, HEAD with the source and either the rules or log and lock, the agent writes the source and the new file, the commands the source and the ignored one, the scratch directory may stick, 2 turns, 1 fault or kill; 5.9 million states |
| `adapter` | one agent at a time, output kept, whose work is judged; every turn ends | 2 claims, 2 runs, so up to 8 spawns, 1 helper, 1 kill |
| `eventlog` | seqs and damage, acknowledged events, refinement of `AtomicLog`, every append ends | 2 writers, 4 appends, 2 deaths, 1 cut |
| `locks` | exclusion, no stranded lock, the one way in which a lease in force is lost | 2 processes that may outlive their leases, 1 task and the run lock, 2 reapers, 3 grants, 2 kills; 5.1 million states |
| `verifier_quiet` | evidence, an audited tree | 2 files and the log, 2 tests, every task and report |
| `plangraph` | the sort is exact | every relation on 3 nodes and an unknown id; every typing and authorship, inheritance of nothing or of one node |
| `planning` | the approval gate; retries end | 2 plans, 2 approvals, 1 run, 1 kill, edits of the spec, 4 possible answers, 2 attempts |

Why these bounds are enough to meet the interesting cases: a fork is the
smallest plan with a dependency and a choice; two runs are needed to see what a
dead run leaves; attempts and caps of 2 and 3 are reached and passed; two
writers race and whoever is left finds what a dead one wrote; three grants are
a lease, its successor and a third that would take the place of either; three
nodes have every shape of cycle (loop, pair, triangle) and a chain; two
planners and two approvers overwrite each other in both orders; one path of each
kind is enough because git treats paths independently but for the rules file,
and two turns because what the first leaves in the index or in HEAD meets the
second; a claim has at most four spawns, and the second run meets the first
one's orphans and artifact directories.

`EditsInTurn`, `CutAtNewline`, `Slow`, `CommandsWrite`, `ScratchSticks` and
`SpecEdits` say whether the environment may do something, `AgentPath` and
`CommandPath` what an agent and the gates' commands write.  A run that sets a
constant to `FALSE` says that a property rests on it; three are:

* `EditsInTurn` in `runs`, for `UserWorkIsKept`, `TrueBaseline`, `CommitIsJudged`,
  `HonestyIsFree` and `KeepsToBaseline`;
* `CutAtNewline` in `eventlog`, for `AckedIsReadable`;
* `CommandsWrite` in `verifier_quiet`, for `PassedTreeIsInScope`.

In `RunLoop` the gates' commands write nothing: a file there is the turn that
wrote it, and a command is no turn.  `WorkTree` is where they write.  So
`CommitIsWhatWasJudged` there does not say that a commit is the tree the audit
saw.  It says that the commit is what the persisted diff shows, whatever wrote
it, and that it differs from what the audit saw only where a command wrote; it
then may hold what no task may write (`CommitIsInScope`, below).
In `worktree` neither the agent nor a command writes the ignore rules, on which
`RevertIsAccounted` and `ImplementsBaseline` rest; the run
`worktree_rules_rewritten` lets the agent write them.

Two properties have no place of their own in a passing run because another
one there implies them: `FoundationVerified`, since `TaskLifecycle` claims a task
only when its dependencies are verified and keeps those verified, and
`RevertLeavesClean`, since a revert of `Baseline` leaves no dirt.

Deadlock is not checked: commands end, and the explorations are bounded.

**Fairness.**  `RunLoop`: weak fairness of the loop's own steps; it is one
thread that waits only for an agent whose call has a timeout.  `EventLog`: weak
fairness of each writer's steps; polling has a deadline.  `Locks`: weak fairness
of processes, clocks and reapers, and strong fairness of a reaper's append, which
is more than any caller provides: the violations under it are therefore not
artefacts of a slow scheduler.  `Planning`: weak fairness of each `plan`
command, whose agent answers or times out.  `Dispatch`: weak fairness of redgear's
own steps within a dispatch, that is, its clock runs out; nothing is asked of
agents and helpers, which may run for ever.

### Disagreements between the code and what it says

Each of these runs checks one property that a comment, the README or a message
states, and TLC finds it violated.  `PROJECT.json` quotes the lines.

| Run | What happens |
|---|---|
| `complete_lies` | a task left claimed by a failed run; the next run reports `complete` (nothing else can make it do so: `CompleteOrStranded`) |
| `eventlog_glued` | a cut that takes only the newline makes the next acknowledged event unreadable |
| `worktree_rules_rewritten` | an agent writes ignore rules and a file they hide, its result does not parse: the revert removes the rules, keeps the file, and the next try has it in its diff |
| `adapter_retry_inherits` | a reply that does not parse: the adapter asks again without a revert, and the second reply is judged for what the first one wrote |

The modules keep further statements the code does not live up to, in their last
section or, where a constant makes the difference, among the others.  They have
no run of their own; a configuration with the constants below shows each.

| Statement | What happens | Constants |
|---|---|---|
| `RunsAreClosed` | a dirty tree before a claim unwinds past `run_ended` | `MaxEdits = 1` |
| `RebuildMatches` | replay restores neither claims, nor escalation records, nor readiness | no fault needed |
| `EscalatedWaits` | a kill between `task_escalated` and the write of the projection: the next run claims the task; without a fault it holds (`EscalatedWaitsWithoutFaults`) | `MaxFaults = 1`, `MaxRuns = 2` |
| `DeadRunLockIsReaped` | the run lock of a dead process is never reaped, expired or not (locks.py:38-39 says it frees itself) | `MaxKills = 1`, `FairSpec` |
| `FailNamesAGate` | a FAIL with no failed gate: scaffold tasks, the expected import-error red | those of `verifier_quiet` |
| `RunMatchesSpec` | a run on requirements edited after the approval; `approval_is_valid` has no caller | `SpecEdits = TRUE` |
| `TimedOutTreeIsDead` | a helper holds the pipe after the agent exited: `terminate_process_tree` returns at once (budget.py:189), the helper lives on, and the turn reports that "the process tree was terminated" (runner.py:667) | `MaxHelpers = 1` |
| `AttemptsBounded` | a kill between the last rejection and the escalation buys another attempt, one per fault at most (`OnlyFaultsCost`) | `MaxFaults = 1`, `MaxRuns = 2` |
| `OneCommitPerVerified` | a kill between the verdict and the commit: never committed, one task per fault at most (`OnlyFaultsCost`) | `MaxFaults = 1` |
| `UserWorkIsKept` | an edit made while a turn runs is reverted or committed with it | `EditsInTurn = TRUE` |
| `CommitIsInScope` | the linter or the suite makes a file that no gate looks at, after the audit passed: `git add -A` commits it (vcs.py:230-233 says a verified task has "by construction" changed only paths in its scope) | those of `worktree` with `AgentPath = {src}`, `CommandPath = {new}` |
| `LiveLeaseStands` | a late holder or the second of two reapers unlinks a lease in force, between its own check and its unlink; there is no other way (`LeasesAreLostToRacesOnly`) | `Slow = TRUE`, or two reapers |
| `ReleasesItsOwn` | a late holder deletes its successor's lease | `Slow = TRUE` |
| `DeadLeaseIsReaped` | a lock file without a record is skipped by every reap | `MaxKills = 1`, `FairSpec` |
| `PassedTreeIsInScope` | a command that writes changes the tree after its audit | `CommandsWrite = TRUE`, one file, one test |
| `FailedGateSaysWhy` | a suite with only errors fails without a reason | those of `verifier_quiet` |
| `PassRanATest` | an implementation without criteria passes with no test run | those of `verifier_quiet` |
| `ImplementationFollowsTests` | an implementation that does not wait for the tests it inherits | those of `plangraph` |
| `ApprovedOnce` | two approvals of one plan in the log | two approvers |
| `GraphHasItsSpec` | a second plan dies after its spec: an old graph beside a new spec | two planners, `HashOfTwo`, `MaxKills = 1` |
| `RunsWhatWasReviewed` | a plan written between the look and the approval is approved unread | two planners |

Four more, of which the last three need no state machine:

* The trap that vcs.py:279-285 describes is not one: `git restore --staged
  --worktree` removes intent-to-add files itself, so the reverse order of the two
  commands would revert as well.
* The artifact counter starts at 0 in each process (runner.py:367), so a second
  run overwrites the turn directories of the first; `RunKeepsItsBytes` is about
  one run for that reason.
* runner.py:94-96 says a timed-out turn "counts as a failed attempt"; the
  orchestrator retries it once and then ends the run as `runner_error`, and no
  attempt is charged.
* A killed redgear leaves its agent running, in a session of its own; no handler
  or record finds it again.  `OneAgentAtATime` excepts such orphans.

## 4. What is proved

All theorems hold for every value of the constants that satisfies the named
assumptions; the `Max...` bounds are arbitrary naturals.

**RunLoopProofs.**  One invariant per question:

* `TypeInv` adds to `TypeOK` that a turn has a task and that its claim is HEAD
  until the commit; without it, no statement about a diff is inductive.
* `BaselineInv`: the tree is clean before the dispatch, holds only the task's
  writes after it, and equals what was judged after the verdict.  It gives
  `TrueBaseline` (`DispatchStartsClean` and `DiffIsThisTurn`) and
  `UserWorkIsKept` under `~EditsInTurn`, which the code cannot enforce.
* `BrakesInv` ties the last prompt directory to `2 * iter + try` and gives
  `BrakesHold` and `PromptNeverOverwritten`, whatever the user does.
* `AgreeInv`: memory and disk agree on every task up to readiness, except on the
  current one between append and write, where they are one transition apart.  So
  only `Persist` is visible in the refinement of `TaskLifecycle`, and it is one
  legal step; `FoundationVerified` follows too.
* `LogInv`: of every task the log says what the projection says, or is one event
  ahead of it (`Leads`).  A claim that reached the log alone stays there until
  the task is claimed again, which is why plain equality is not inductive.  It
  gives `ProjectionIsLogged`.
* `VerdictInv` and `CommitInv`: what the place of the loop says about verdict,
  claim, log and earlier commits.  They give `OnlyVerdictsCost` (an attempt is
  spent by a verdict only, whoever writes to the tree) and, under
  `~EditsInTurn`, `HonestyIsFree` and `CommitIsJudged` (a commit is what the
  gates saw, its verdict is on disk and in the log, and the task has no other).
* `CostInv` counts what a kill or an exception can take: per fault one attempt
  too many (`AttemptsPerFault`) or one verified task without a commit
  (`UncommittedPerFault`).
* `SyncInv`: while `faults = 0`, log, projection, attempts and commits match
  (`ExactWithoutFaults`), and what the log calls escalated is never touched
  again (`EscalatedWaitsWithoutFaults`).  So `AttemptsBounded`,
  `OneCommitPerVerified` and `EscalatedWaits` fail only through a fault;
  `OnlyFaultsCost` is the sum of this and `CostInv`.
* `StrandedInv`: a run ends as `complete` only with every task verified or with
  one that an earlier run left in its turn.  The proof needs that the plan has
  no cycle, and `OneIsNext`: the sort key of `next_ready_task` names exactly one
  task whenever any is claimable, by well-founded induction over a numeric key,
  for finite plans (`TaskAssumption`).
* `StepsLeft`: every step of the loop uses up one of at most
  `20 * (MaxIterations + 1)` and nothing gives one back (`StepsRunOut`).
* `KeepsToBaseline`, under `~EditsInTurn`, needs `TypeInv` alone: each step of the
  loop is one of `Baseline` or leaves tree, HEAD and place alone.

**EventLogProofs.**  `LogInv`: whoever is inside owns the lock, so what it read
about the end of the file is still so when it writes.  It gives `LogReplays`
unconditionally.  With `~CutAtNewline`, `DurableInv` (the
synced part is whole and only `Sync` extends it) gives `AckedIsReadable` and the
refinement of `AtomicLog`.

**LocksProofs.**  `LockInv`: tokens are granted once and nobody touches the run
lock of a live process; exclusion and `UnwoundIsReleased` follow, also with
slow processes and any number of reapers, because reapers pass over the run lock.
`NewestInv` is about leases, with late holders and any number of reapers: a lock
file never goes back to an older token, so whoever is about to unlink decided on
it for the token that is there or for an older one.  It gives
`LeasesAreLostToRacesOnly` without an assumption.
`StandInv` is what it takes for the race not to happen: a process that holds a
lease finds its own, unexpired token at the path, and what a reaper is about to
unlink has expired and is still what it read.  That is preserved only if no
process is slower than its lease (`~Slow`) and one process reaps (`OneReaper`),
which are the assumptions of the two theorems that rest on it, `LiveLeasesStand`
and `LeasesAreExclusive`; section 3 shows what happens without either.

**WorkTreeProofs.**  `GitInv` follows a turn through the commands: what the index
holds at each place is a function of HEAD and the tree, so `add -A` stages the
tree and the unstaging takes out exactly the control files
(`EvidenceIsCommitted`), and a revert after an audit leaves HEAD
whatever was done to the ignore rules, since the audit's intent-to-add has
put the new rules into the index and `restore` takes them back first
(`AuditedRevertIsClean`).  `RecordInv`: from the persisted diff to the commit
nothing of redgear's touches the tree but its own state, so a commit is on record
(`CommitsAreOnRecord`), with no assumption about agents or commands.
`AuditInv`: the paths that no command writes are as the audit saw them.
What is ignored depends on the rules, so this needs `Rules \notin CommandPath`,
and gives `CommitIsWhatWasJudged`.  The other reverts, and what
they spare, need the rules to be those of HEAD: `FixedInv`, under
`Rules \notin AgentPath \cup CommandPath`, gives `RevertLeavesClean` and
`RevertIsAccounted`, and with it each command maps to a step of `Baseline` or a
stutter (`ImplementsBaseline`).

**DispatchProofs.**  `CountInv`: a claim spawns at most four agents, and the
adapter's counter is the number of spawns since the run began, so the turn
directories of a run are distinct (`BytesInv`, for `RunKeepsItsBytes`).
`AgentInv` is `OneAgentAtATime` with the fact that nothing runs that was not
spawned.  `WorkInv`: before a try only what outlived its own try has dirt in the
tree, since a timeout reverts, and during it only this try has more; it
gives `JudgedWorkIsThisTrys`.  `TurnStepsLeft` shows that a turn has at most 20
steps of redgear's own and that neither retry renews the other
(`TurnStepsRunOut`).  None needs an assumption about agents or helpers.

**VerifierProofs.**  `PipelineInv` (gates in order, only skips after a failure,
commands after both audits) gives `NothingRunsUnaudited` and `ProofIsComplete`;
with `~CommandsWrite`, `AuditInv` gives `PassedTreeIsInScope`.  `EvidenceInv`
says of the two gates that read the suite's report what it held when they
passed, and gives `PassHasEvidence` without any assumption.

**PlanGraphProofs.**  `SortInv`: the counts are the dependencies not yet popped,
what was popped is closed under dependencies and acyclic.  So acceptance means
acyclic, which is the assumption `AcyclicAssumption` of `TaskGraph`, and refusal
means that every named node waits for another named one (`SortIsExact`).

**PlanningProofs.**  `GateInv`: an approval holds a sound draft, and its event is
in the log before its write; the log only grows.  So whatever overwrites what,
an active graph has its approval.

Only model-checked is liveness (`RunEnds`, `AppendEnds`, `PlanningEnds`,
`TurnEnds`), which is out of the prover's reach.  For `RunEnds` and `TurnEnds`
the measures above (`StepsRunOut`, `TurnStepsRunOut`) are proved; what is left to TLC is that a live process
always has a step to take.  Only proved: `PromptNeverOverwritten`,
`FoundationVerified`, `RevertLeavesClean`, `StepsRunOut`, `TurnStepsRunOut`,
`NothingRunsUnaudited`, `OnlySoundPlansLand`, `AuditedRevertIsClean`,
`CountsAreRight`, `ProofIsComplete`, `LockExclusive`, `LiveLeaseStands`,
`OnlyVerdictsCost`, `EscalatedWaitsWithoutFaults` and `OneIsNext`.

## 5. What is not modelled

* Text: prompts, commit messages, redaction, canonical JSON, glob syntax.  They
  are relations or model values.
* What git, pytest and the agent CLI print, and the parsing of it, the hunk
  parser of the coverage gate included: `CoverageDelta` takes its result as one of
  the outcomes.  Directories, renames, modes and submodules in the tree.
* A helper of the agent that starts helpers of its own; Windows.
* Time: the wall-clock cap is a choice at the loop boundary (`BudgetAtBoundary`)
  and in `Dispatch` a clock that may run out.  The cost cap is only passed to the
  agent CLI.
* A lock record that is there and cannot be read (the `OSError` at locks.py:60):
  the release would take the file for somebody else's and leave it.
* `init`, `doctor`, `log`, `status`, `ui` and the read-only routes.

## 6. Plan

Done, in this order: `TaskGraph` and `RunLoop` (the core), `TaskLifecycle` and
the refinement, `EventLog` and `AtomicLog`, `Locks`, `Verifier`, `PlanGraph`,
`Planning`, `WorkTree` and `Baseline`, `Dispatch`, with their proofs.

Every safety property that a run checks is proved.  Next:

1. `PatchLines`: the hunk parser and the coverage intersection as functions,
   checked against a reference definition over bounded patches.
