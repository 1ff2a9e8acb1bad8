------------------------------ MODULE WorkTree ------------------------------
(***************************************************************************)
(* The working tree of the target repository through redgear's turns:      *)
(* redgear/vcs.py (the only module that mutates git), redgear/gitctx.py    *)
(* (what it reads of git) and the scratch directory of verifier.py.  HEAD, *)
(* index and tree are functions from paths to contents.  Each git command  *)
(* is a step, so that it can fail, or the process be killed, between any   *)
(* two of them.  What git does (external) was read off git 2.39.           *)
(*                                                                         *)
(* The order of a run, its lock and its caps are RunLoop's; here a run     *)
(* is reduced to what it does to the tree.  No commit is made between a    *)
(* claim and its diff, so the claim's base_commit is HEAD.                 *)
(***************************************************************************)
EXTENDS Naturals

CONSTANTS
    Path,        \* paths of the repository
    State,       \* those under .redgear/ (is_state_path)
    Control,     \* those of State that are locks or STOP
    Lock,        \* the run lock
    Log,         \* the event log
    Scratch,     \* .redgear_harness
    Rules,       \* a .gitignore outside .redgear/
    AgentPath,   \* what an agent writes
    CommandPath, \* what the configured lint, test and coverage commands write
    Content,     \* contents of files
    Here,        \* some content, where only existence matters
    None,        \* no file, no index entry
    Ita,         \* an intent-to-add entry
    Hidden,      \* Hidden[c]: the paths that Rules ignores when it reads c
    Heads,       \* what HEAD may be before the first run
    ScratchSticks, \* may the removal of the scratch directory fail?
    MaxTurns, MaxFaults \* bounds on the exploration

ASSUME PathAssumption ==
    /\ Control \subseteq State
    /\ State \subseteq Path
    /\ Lock \in Control
    /\ Log \in State \ Control
    /\ {Scratch, Rules} \subseteq Path \ State
    /\ Scratch # Rules
    /\ AgentPath \subseteq Path \ State
    /\ Scratch \notin AgentPath
    /\ CommandPath \subseteq Path \ (State \cup {Scratch})

ASSUME ContentAssumption ==
    /\ Here \in Content
    /\ None \notin Content
    /\ Ita \notin Content \cup {None}
    /\ \A c \in Content : \E d \in Content : d # c
    /\ Hidden \in [Content \cup {None} -> SUBSET (Path \ (State \cup {Scratch}))]
    /\ Hidden[None] = {}
    /\ Heads \subseteq [Path -> Content \cup {None}]
    /\ \A h \in Heads : h[Scratch] = None

ASSUME ExplorationAssumption ==
    /\ ScratchSticks \in BOOLEAN
    /\ {MaxTurns, MaxFaults} \subseteq Nat

VARIABLES
    head,      \* HEAD's tree
    index,     \* the index
    tree,      \* the working tree
    pc,        \* where the run is
    try,       \* first or second dispatch of this attempt
    why,       \* reason of the revert under way
    judged,    \* the changed files, as the gates saw them
    patch,     \* the diff persisted with the proof
    reported,  \* RevertResult.paths
    saved,     \* the tree when the revert began
    turns, faults

gitVars == <<head, index, tree>>
turnVars == <<try, why, judged, patch, reported, saved>>
vars == <<gitVars, pc, turnVars, turns, faults>>

-----------------------------------------------------------------------------
(* What git computes *)

File == Content \cup {None}
Tree == [Path -> File]

(* .redgear/.gitignore, written by scaffold, names the control files. *)
Ignored(t) == Hidden[t[Rules]] \cup Control

(* git add -A -N: an entry without content for every untracked file that is  *)
(* not ignored; entries whose file is gone are dropped.                    *)
IntentToAdd(i, t) ==
    [p \in Path |->
        IF t[p] = None THEN None
        ELSE IF i[p] = None /\ p \notin Ignored(t) THEN Ita
        ELSE i[p]]

(* git add -A: an ignored file counts only if it is in the index already.  *)
AddAll(i, t) ==
    [p \in Path |-> IF i[p] = None /\ p \in Ignored(t) THEN None ELSE t[p]]

(* git diff <HEAD>: a path that is not in the index is not there. *)
Diff(h, i, t) ==
    LET seen == [p \in Path |-> IF i[p] = None THEN None ELSE t[p]]
    IN  [p \in {q \in Path : seen[q] # h[q]} |-> seen[p]]

(* git status --porcelain --untracked-files=all *)
Dirty(h, i, t) ==
    {p \in Path :
        \/ i[p] # h[p]
        \/ i[p] # t[p] /\ (i[p] # None \/ p \notin Ignored(t))}

(* git restore --staged --worktree, outside S, on the tree: a path that the  *)
(* index has and HEAD has not is deleted.                                  *)
Restored(h, i, t, S) ==
    [p \in Path |->
        IF p \notin S /\ (h[p] # None \/ i[p] # None) THEN h[p] ELSE t[p]]

(* Mutant: clean -fdx. *)
BrokenCleaned(i, t, S) ==
    [p \in Path |-> IF p \notin S /\ i[p] = None THEN None ELSE t[p]]

(* git clean -fd, outside S. *)
Cleaned(i, t, S) ==
    [p \in Path |->
        IF p \notin S /\ i[p] = None /\ p \notin Ignored(t) THEN None ELSE t[p]]

(* unexpected_dirt: what is dirty and not redgear's own. *)
UnexpectedDirt == Dirty(head, index, tree) \ State

-----------------------------------------------------------------------------

Places == {"idle", "claim", "turn", "audit", "gates", "suite", "proof",
           "add", "unstage", "commit", "keep", "list", "restore", "clean",
           "reverted"}

Live == pc # "idle"

TypeOK ==
    /\ head \in Tree
    /\ index \in [Path -> File \cup {Ita}]
    /\ tree \in Tree
    /\ pc \in Places
    /\ try \in {0, 1}
    /\ why \in {"unparseable_result", "gate_failure"}
    /\ DOMAIN judged \subseteq Path
    /\ DOMAIN patch \subseteq Path
    /\ reported \subseteq Path
    /\ saved \in Tree
    /\ turns \in Nat
    /\ faults \in Nat

NoPatch == [p \in {} |-> None]

(* A repository without a run, clean but for the files that it ignores.  The *)
(* lock of a checkout that tracks it has been deleted.                     *)
Init ==
    /\ head \in Heads
    /\ index = head
    /\ tree \in Tree
    /\ tree[Lock] = None
    /\ \A p \in Path \ {Lock} :
           p \notin Ignored(head) \/ head[p] # None => tree[p] = head[p]
    /\ pc = "idle" /\ try = 0 /\ why = "gate_failure"
    /\ judged = NoPatch /\ patch = NoPatch /\ reported = {} /\ saved = head
    /\ turns = 0 /\ faults = 0

(* append_event: the log's file is never again what HEAD has. *)
Logged(t) == {[t EXCEPT ![Log] = c] : c \in Content \ {head[Log]}}

Unlocked(t) == [t EXCEPT ![Lock] = None]

Goto(place) == pc' = place

(* Nothing of an earlier turn is remembered. *)
ForgetTurn ==
    /\ try' = 0 /\ why' = "gate_failure"
    /\ judged' = NoPatch /\ patch' = NoPatch /\ reported' = {} /\ saved' = head

-----------------------------------------------------------------------------
(* The run *)

(* run_lock, _assert_clean_tree "at run start", run_started. *)
StartRun ==
    /\ pc = "idle"
    /\ tree[Lock] = None
    /\ UnexpectedDirt = {}
    /\ tree' \in Logged([tree EXCEPT ![Lock] = Here])
    /\ Goto("claim")
    /\ UNCHANGED <<head, index, turnVars, turns, faults>>

(* _assert_clean_tree "before claiming", claim_task. *)
ClaimTask ==
    /\ pc = "claim"
    /\ turns < MaxTurns
    /\ UnexpectedDirt = {}
    /\ turns' = turns + 1
    /\ ForgetTurn
    /\ Goto("turn")
    /\ UNCHANGED <<gitVars, faults>>

(* The trees that t may become when someone writes and deletes files of S. *)
Rewritten(t, S) ==
    {[p \in Path |-> IF p \in S THEN w[p] ELSE t[p]] : w \in [S -> File]}

(* The agent (external) writes and deletes files, and answers. *)
AgentWrites == tree' \in Rewritten(tree, AgentPath)

TurnCompleted ==
    /\ pc = "turn"
    /\ AgentWrites
    /\ Goto("audit")
    /\ UNCHANGED <<head, index, turnVars, turns, faults>>

(* Its result does not parse: reverted, once. *)
TurnUnparseable ==
    /\ pc = "turn"
    /\ try = 0
    /\ AgentWrites
    /\ why' = "unparseable_result"
    /\ Goto("list")
    /\ UNCHANGED <<head, index, try, judged, patch, reported, saved, turns, faults>>

(* The second one does not parse, or the agent says that it is blocked: the  *)
(* run ends, the tree stays as it is for a human.                          *)
TurnKept ==
    /\ pc = "turn"
    /\ \E t \in Rewritten(tree, AgentPath) : tree' = Unlocked(t)
    /\ ForgetTurn
    /\ Goto("idle")
    /\ UNCHANGED <<head, index, turns, faults>>

(* Mutant: the audit does not see what git does not know yet. *)
BrokenScopeCheck ==
    /\ pc = "audit"
    /\ judged' = Diff(head, index, tree)
    /\ Goto("gates")
    /\ UNCHANGED <<gitVars, try, why, patch, reported, saved, turns, faults>>

(* changed_files, for scope_check: the only index entries that the audit makes *)
(* hold no content.                                                        *)
ScopeCheck ==
    /\ pc = "audit"
    /\ index' = IntentToAdd(index, tree)
    /\ judged' = Diff(head, index', tree)
    /\ Goto("gates")
    /\ UNCHANGED <<head, tree, try, why, patch, reported, saved, turns, faults>>

(* run_harness makes a scratch directory, unless a gate failed before. *)
HarnessStarts ==
    /\ pc = "gates"
    /\ tree' = [tree EXCEPT ![Scratch] = Here]
    /\ Goto("suite")
    /\ UNCHANGED <<head, index, turnVars, turns, faults>>

NoHarness ==
    /\ pc = "gates"
    /\ Goto("proof")
    /\ UNCHANGED <<gitVars, turnVars, turns, faults>>

(* What the configured commands (external) write while lint runs, the suite,  *)
(* or the coverage export: all in the repository's root, after the audits. *)
CommandsWrite ==
    /\ pc \in {"gates", "suite"}
    /\ tree' \in Rewritten(tree, CommandPath)
    /\ UNCHANGED <<head, index, pc, turnVars, turns, faults>>

(* rmtree of the scratch directory, with ignore_errors. *)
Swept(t) == {[t EXCEPT ![Scratch] = None]} \cup (IF ScratchSticks THEN {t} ELSE {})

(* The finally of run_harness. *)
HarnessEnds ==
    /\ pc = "suite"
    /\ tree' \in Swept(tree)
    /\ Goto("proof")
    /\ UNCHANGED <<head, index, turnVars, turns, faults>>

(* Mutant: the diff is taken with the audit's index, without looking again   *)
(* for files that came after it.                                           *)
BrokenPersistProof ==
    /\ pc = "proof"
    /\ patch' = Diff(head, index, tree)
    /\ why' = "gate_failure"
    /\ \E place \in {"add", "list", "keep"} : Goto(place)
    /\ UNCHANGED <<gitVars, try, judged, reported, saved, turns, faults>>

(* persist_proof with diff_patch (the coverage gate's own intent-to-add has   *)
(* looked at the same tree), then the verdict: a commit, a revert for        *)
(* another attempt, or a tree kept for a human.                            *)
PersistProof ==
    /\ pc = "proof"
    /\ index' = IntentToAdd(index, tree)
    /\ patch' = Diff(head, index', tree)
    /\ why' = "gate_failure"
    /\ \E place \in {"add", "list", "keep"} : Goto(place)
    /\ UNCHANGED <<head, tree, try, judged, reported, saved, turns, faults>>

-----------------------------------------------------------------------------
(* commit_verified_task *)

(* Mutant: the intent to add is taken for an add. *)
BrokenStageAll ==
    /\ pc = "add"
    /\ index' = IntentToAdd(index, tree)
    /\ Goto("unstage")
    /\ UNCHANGED <<head, tree, turnVars, turns, faults>>

(* git add -A -- . *)
StageAll ==
    /\ pc = "add"
    /\ index' = AddAll(index, tree)
    /\ Goto("unstage")
    /\ UNCHANGED <<head, tree, turnVars, turns, faults>>

(* Mutant: what is tracked already is committed, lock or not. *)
BrokenUnstageExcluded ==
    /\ pc = "unstage"
    /\ Goto("commit")
    /\ UNCHANGED <<gitVars, turnVars, turns, faults>>

(* staged_paths, is_commit_excluded, restore --staged. *)
UnstageExcluded ==
    /\ pc = "unstage"
    /\ index' = [p \in Path |-> IF p \in Control THEN head[p] ELSE index[p]]
    /\ Goto("commit")
    /\ UNCHANGED <<head, tree, turnVars, turns, faults>>

(* git commit --no-verify, then record_commit; nothing staged, no commit.  *)
CommitStaged ==
    /\ pc = "commit"
    /\ head' = index
    /\ tree' \in {[tree EXCEPT ![Log] = c] : c \in Content \ {head'[Log]}}
    /\ Goto("claim")
    /\ UNCHANGED <<index, turnVars, turns, faults>>

-----------------------------------------------------------------------------
(* revert_working_tree *)

(* Mutant: the list is that of git diff, which needs an index entry. *)
BrokenListDiscarded ==
    /\ pc = "list"
    /\ reported' = DOMAIN Diff(head, index, tree) \ State
    /\ saved' = tree
    /\ Goto("restore")
    /\ UNCHANGED <<gitVars, try, why, judged, patch, turns, faults>>

(* dirty_paths, before anything is discarded. *)
ListDiscarded ==
    /\ pc = "list"
    /\ reported' = UnexpectedDirt
    /\ saved' = tree
    /\ Goto("restore")
    /\ UNCHANGED <<gitVars, try, why, judged, patch, turns, faults>>

(* git restore --staged --worktree -- . :(exclude).redgear *)
RestoreTracked ==
    /\ pc = "restore"
    /\ tree' = Restored(head, index, tree, State)
    /\ index' = [p \in Path |-> IF p \in State THEN index[p] ELSE head[p]]
    /\ Goto("clean")
    /\ UNCHANGED <<head, turnVars, turns, faults>>

(* Mutant: restore is thought to be enough. *)
BrokenCleanUntracked ==
    /\ pc = "clean"
    /\ Goto("reverted")
    /\ UNCHANGED <<gitVars, turnVars, turns, faults>>

(* git clean -fd -- . :(exclude).redgear *)
CleanUntracked ==
    /\ pc = "clean"
    /\ tree' = Cleaned(index, tree, State)
    /\ Goto("reverted")
    /\ UNCHANGED <<head, index, turnVars, turns, faults>>

(* record_revert; the second try, or the next iteration. *)
AfterRevert ==
    /\ pc = "reverted"
    /\ try' = IF why = "unparseable_result" THEN 1 ELSE try
    /\ Goto(IF why = "unparseable_result" THEN "turn" ELSE "claim")
    /\ UNCHANGED <<gitVars, why, judged, patch, reported, saved, turns, faults>>

-----------------------------------------------------------------------------
(* How a run ends *)

(* finish() between two iterations or after an escalation, or a dirty tree   *)
(* before a claim.                                                         *)
EndRun ==
    /\ pc \in {"claim", "keep"}
    /\ tree' = Unlocked(tree)
    /\ ForgetTurn
    /\ Goto("idle")
    /\ UNCHANGED <<head, index, turns, faults>>

(* A git command fails (_git_write, _run_git), or anything else raises: the  *)
(* harness's own finally and the run lock's are all that happens.          *)
Unwind ==
    /\ Live
    /\ faults < MaxFaults
    /\ faults' = faults + 1
    /\ \E t \in IF pc = "suite" THEN Swept(tree) ELSE {tree} : tree' = Unlocked(t)
    /\ ForgetTurn
    /\ Goto("idle")
    /\ UNCHANGED <<head, index, turns>>

Kill ==
    /\ Live
    /\ faults < MaxFaults
    /\ faults' = faults + 1
    /\ ForgetTurn
    /\ Goto("idle")
    /\ UNCHANGED <<gitVars, turns>>

-----------------------------------------------------------------------------
(* The user, between runs *)

UserRemovesLock ==
    /\ pc = "idle"
    /\ tree[Lock] # None
    /\ tree' = Unlocked(tree)
    /\ UNCHANGED <<head, index, pc, turnVars, turns, faults>>

(* Told that the tree is dirty, they commit or discard what is there; the  *)
(* scratch directory goes either way.                                      *)
UserTidies ==
    /\ pc = "idle"
    /\ UnexpectedDirt # {}
    /\ LET t == [tree EXCEPT ![Scratch] = None]
           i == AddAll(index, t)
           r == Restored(head, index, t, State)
       IN  \/ head' = i /\ index' = i /\ tree' = t
           \/ /\ index' = [p \in Path |-> IF p \in State THEN index[p] ELSE head[p]]
              /\ tree' = Cleaned(index', r, State)
              /\ UNCHANGED head
    /\ UNCHANGED <<pc, turnVars, turns, faults>>

-----------------------------------------------------------------------------

Run ==
    \/ StartRun \/ ClaimTask
    \/ TurnCompleted \/ TurnUnparseable \/ TurnKept
    \/ ScopeCheck \/ HarnessStarts \/ NoHarness \/ CommandsWrite \/ HarnessEnds
    \/ PersistProof
    \/ StageAll \/ UnstageExcluded \/ CommitStaged
    \/ ListDiscarded \/ RestoreTracked \/ CleanUntracked \/ AfterRevert
    \/ EndRun

Environment == Unwind \/ Kill \/ UserRemovesLock \/ UserTidies

Next == Run \/ Environment

Spec == Init /\ [][Next]_vars
-----------------------------------------------------------------------------
(* Safety *)

Commits == pc = "commit" /\ pc' = "claim"

Moved == {p \in Path \ State : head'[p] # head[p]}

(* What may differ between the audit and the commit. *)
Written == CommandPath \cup (IF ScratchSticks THEN {Scratch} ELSE {})

(* The commit is the persisted diff, path for path and content for content. *)
CommitIsOnRecord ==
    /\ Moved = DOMAIN patch \ State
    /\ \A p \in Moved : head'[p] = patch[p]

(* Wherever no command wrote, it is also what the scope audit saw. *)
CommitIsAudited ==
    \A p \in (Path \ State) \ Written :
        /\ p \in Moved <=> p \in DOMAIN judged
        /\ p \in Moved => head'[p] = judged[p]

(* A verified task's commit hides nothing and adds nothing: `git add -A` takes *)
(* up exactly the diff kept with the proof, whatever the gates' commands did *)
(* to the tree meanwhile, and of what they left alone it takes up exactly    *)
(* what the scope audit passed (commit_verified_task).                     *)
CommitIsWhatWasJudged == [][Commits => CommitIsOnRecord /\ CommitIsAudited]_vars

(* "A verified task has, by construction, changed only paths inside its      *)
(* declared scope": nothing is committed that the audit did not look at.   *)
(* A command of the gates that makes a file refutes it.                    *)
CommitIsInScope == [][Commits => Moved \subseteq DOMAIN judged]_vars

(* Work is never committed without the evidence for it, nor with the lock of *)
(* the run that made it, tracked or not.                                   *)
EvidenceIsCommitted ==
    [][Commits =>
           /\ head'[Log] = tree[Log]
           /\ \A p \in Control : head'[p] = head[p]]_vars

(* A revert undoes the turn: a retry starts from HEAD, whatever the agent    *)
(* wrote, and whether or not the turn was audited.                         *)
RevertLeavesClean == pc = "reverted" => UnexpectedDirt = {}

(* So it does after an audit even if the agent rewrote the ignore rules,     *)
(* because intent-to-add has put them, and what they show, into the index. *)
AuditedRevertIsClean ==
    pc = "reverted" /\ why = "gate_failure" => UnexpectedDirt = {}

(* It answers for what it destroys: neither the state directory nor what is  *)
(* ignored ("a virtualenv, a build directory and __pycache__ survive        *)
(* untouched"), and nothing that it does not name ("a destructive operation  *)
(* that cannot say what it destroyed is not auditable").                   *)
RevertKeepsTheRest ==
    \A p \in Path : p \in State \/ (head[p] = None /\ p \in Ignored(head)) =>
        tree[p] = saved[p]

RevertSaysWhat == {p \in Path : tree[p] # saved[p]} \subseteq reported

RevertIsAccounted == pc = "reverted" => RevertKeepsTheRest /\ RevertSaysWhat

-----------------------------------------------------------------------------
(* Refinement: to the loop, a revert and a commit are one step each. *)

PlaceOf ==
    CASE pc \in {"idle", "claim", "turn"} -> pc
      [] pc \in {"audit", "gates", "suite", "proof", "keep"} -> "judge"
      [] pc \in {"add", "unstage", "commit"} -> "commit"
      [] pc \in {"list", "restore", "clean"} -> "revert"
      [] pc = "reverted" -> IF why = "unparseable_result" THEN "turn" ELSE "claim"

(* What is up for a commit is the persisted diff, and a revert takes effect   *)
(* with its last command.                                                  *)
DirtOf ==
    CASE pc = "add" -> DOMAIN patch \ State
      [] pc = "clean" -> reported
      [] OTHER -> UnexpectedDirt

HeadOf == [p \in Path \ State |-> head[p]]

Base == INSTANCE Baseline WITH
    Work <- Path \ State,
    Written <- CommandPath \cup {Scratch},
    place <- PlaceOf,
    head <- HeadOf,
    dirt <- DirtOf

ImplementsBaseline == Base!Spec
=============================================================================
