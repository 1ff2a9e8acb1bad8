--------------------------- MODULE RunLoopProofs ---------------------------
(***************************************************************************)
(* Proofs about RunLoop, for every plan, every budget and any number of    *)
(* runs, faults, edits and stops.                                          *)
(***************************************************************************)
EXTENDS RunLoop, TLAPS, SequenceTheorems, FiniteSetTheorems, WellFoundedInduction

-----------------------------------------------------------------------------
(* The operators on nodes and graphs keep their shape. *)

LEMMA ClaimNodeType ==
    ASSUME NEW n \in Node, NEW base \in Nat
    PROVE  ClaimNode(n, base) \in Node
BY DEF ClaimNode, Node, NodeState

LEMMA VerifyNodeType ==
    ASSUME NEW n \in Node, NEW proof \in Nat
    PROVE  VerifyNode(n, proof) \in Node
BY DEF VerifyNode, Node, NodeState

LEMMA RejectNodeType ==
    ASSUME NEW n \in Node
    PROVE  RejectNode(n) \in Node
<1>1. n.attempts + 1 \in Nat /\ n.prior \in Seq(Nat)
  BY DEF Node
<1>2. Append(n.prior, n.attempts + 1) \in Seq(Nat)
  BY <1>1, AppendProperties
<1> QED BY <1>1, <1>2 DEF RejectNode, Node, NodeState

LEMMA EscalateNodeType ==
    ASSUME NEW n \in Node, NEW reason \in EscalationReason
    PROVE  EscalateNode(n, reason) \in Node
BY DEF EscalateNode, Node, NodeState

LEMMA RecomputeType ==
    ASSUME NEW g \in Graph
    PROVE  Recompute(g) \in Graph
BY DEF Recompute, Graph, Node, NodeState

LEMMA PlanDefinitionType == PlanDefinition \in Graph
<1>1. PristineNode \in Node
  BY NoClaimAssumption DEF PristineNode, Node, NodeState, EscalationReason
<1> QED BY <1>1, RecomputeType DEF PlanDefinition, Graph

EventKind == {"task_claimed", "task_verified", "task_rejected", "task_escalated"}

LEMMA ReplayEventType ==
    ASSUME NEW n \in Node, NEW kind \in EventKind, NEW num \in Nat
    PROVE  ReplayEvent(n, kind, num) \in Node
<1>1. CASE kind = "task_claimed"
  BY <1>1 DEF ReplayEvent, Node, NodeState
<1>2. CASE kind = "task_verified"
  BY <1>2 DEF ReplayEvent, Node, NodeState
<1>3. CASE kind = "task_rejected"
  <2>1. Append(n.prior, num) \in Seq(Nat)
    BY AppendProperties DEF Node
  <2> QED BY <1>3, <2>1, NoClaimAssumption DEF ReplayEvent, Node, NodeState
<1>4. CASE kind = "task_escalated"
  BY <1>4 DEF ReplayEvent, Node, NodeState
<1> QED BY <1>1, <1>2, <1>3, <1>4 DEF EventKind

-----------------------------------------------------------------------------
(* Types.  That the diff is taken against a commit needs two facts TypeOK  *)
(* does not state: during a turn the loop has a task, and that task's claim  *)
(* is HEAD.                                                                *)

(* From the claim to the verdict. *)
ClaimPlaces == {"persist_claimed", "prompt", "announce", "dispatch", "retry",
                "judge", "pass", "fail"}

TypeInv ==
    /\ TypeOK
    /\ pc \in TurnPlaces => cur \in Task
    /\ pc \in ClaimPlaces => mem[cur].claim = HeadCommit
    /\ pc = "retry" => try = 0

LEMMA TypeInit == Init => TypeInv
<1> SUFFICES ASSUME Init PROVE TypeInv
  OBVIOUS
<1>1. PlanDefinition \in Graph /\ <<>> \in Seq(Commit)
  BY PlanDefinitionType
<1>2. disk \in Graph /\ logged \in Graph /\ mem \in Graph /\ history \in Seq(Commit)
  BY <1>1 DEF Init
<1>3. openRun \in BOOLEAN /\ stop \in BOOLEAN
  BY DEF Init
<1>4. prompted \in Int
  BY DEF Init
<1>5. iter \in Nat /\ consec \in Nat /\ late \in Nat
      /\ {runs, faults, edits, stops} \subseteq Nat
  BY DEF Init
<1>6. /\ dirt \in SUBSET Author /\ judged \in SUBSET Author
      /\ pc \in Places /\ outcome \in TurnOutcomes /\ why \in Reasons
      /\ lock \in {"free", "held", "stale"}
      /\ cur \in Task \cup {NoTask} /\ try \in {0, 1}
  BY DEF Init, Places, TurnOutcomes, Reasons
<1>7. TypeOK
  BY <1>2, <1>3, <1>4, <1>5, <1>6 DEF TypeOK
<1> QED
  BY <1>7 DEF Init, TypeInv, TurnPlaces, ClaimPlaces

(* A node's event and its new value keep both graphs graphs. *)
LEMMA TransitionType ==
    ASSUME TypeOK, NEW t \in Task, NEW node \in Node, NEW kind \in EventKind,
           NEW num \in Nat, Transition(t, node, kind, num)
    PROVE  logged' \in Graph /\ mem' \in Graph /\ mem'[t] = node
<1>1. logged[t] \in Node
  BY DEF TypeOK, Graph
<1>2. ReplayEvent(logged[t], kind, num) \in Node
  BY <1>1, ReplayEventType
<1> QED BY <1>2 DEF TypeOK, Graph, Transition, LogEvent

LEMMA CommitTreeType ==
    ASSUME TypeOK, NEW a \in Author, CommitTree(a)
    PROVE  history' \in Seq(Commit) /\ dirt' \in SUBSET Author
<1>1. [task |-> a, writes |-> dirt] \in Commit
  BY DEF TypeOK, Commit
<1> QED BY <1>1, AppendProperties DEF TypeOK, CommitTree

(* At HEAD the diff is the dirty tree. *)
LEMMA DiffAtHead ==
    ASSUME TypeOK
    PROVE  DiffSince(HeadCommit) = dirt
<1>1. HeadCommit \in Nat
  BY LenProperties DEF TypeOK, HeadCommit
<1>2. (HeadCommit + 1) .. HeadCommit = {}
  BY <1>1
<1>3. {history[i].writes : i \in {}} = {} /\ UNION {} = {}
  OBVIOUS
<1> QED BY <1>2 DEF DiffSince

LEMMA TypeStep == TypeInv /\ [Next]_vars => TypeInv'
<1> SUFFICES ASSUME TypeInv, [Next]_vars PROVE TypeInv'
  OBVIOUS
<1> USE DEF TypeInv, TurnPlaces, ClaimPlaces, Goto, Finish, HeadCommit
<1>typ. TypeOK
  OBVIOUS
<1>0. CASE UNCHANGED vars
  BY <1>0 DEF TypeOK, vars, diskVars, procVars, seenVars, boundVars
<1>1. CASE RefuseDirtyStart
  BY <1>1 DEF RefuseDirtyStart, TypeOK, Places, LoopPlaces, diskVars, seenVars, boundVars
<1>2. CASE StartRun
  BY <1>2 DEF StartRun, OpenRun, TypeOK, Places, LoopPlaces, seenVars, boundVars
<1>3. CASE StopAtBoundary \/ BudgetAtBoundary \/ PassBoundary
  BY <1>3 DEF StopAtBoundary, BudgetAtBoundary, PassBoundary, TypeOK, Places,
              LoopPlaces, Reasons, diskVars, seenVars, boundVars
<1>4. CASE DrainQueue
  BY <1>4, RecomputeType DEF DrainQueue, TypeOK, Places, LoopPlaces, Reasons,
              diskVars, seenVars, boundVars
<1>5. CASE RefuseDirtyClaim
  BY <1>5 DEF RefuseDirtyClaim, TypeOK, Places, LoopPlaces, diskVars, seenVars, boundVars
<1>6. ASSUME NEW t \in Task, ClaimTask(t) PROVE TypeInv'
  <2> DEFINE g == Recompute(mem)
  <2>1. g \in Graph /\ g[t] \in Node
    BY RecomputeType DEF TypeOK, Graph
  <2>2. HeadCommit \in Nat
    BY LenProperties DEF TypeOK
  <2>3. ClaimNode(g[t], HeadCommit) \in Node
    BY <2>1, <2>2, ClaimNodeType
  <2>4. mem' \in Graph /\ mem'[t].claim = HeadCommit
    BY <1>6, <2>1, <2>3 DEF ClaimTask, Graph, ClaimNode, Node
  <2>5. logged[t] \in Node
    BY DEF TypeOK, Graph
  <2>6. ReplayEvent(logged[t], "task_claimed", 0) \in Node
    BY <2>5, ReplayEventType DEF EventKind
  <2>7. logged' \in Graph
    BY <1>6, <2>6 DEF ClaimTask, LogEvent, TypeOK, Graph
  <2> QED BY <1>6, <2>4, <2>7 DEF ClaimTask, TypeOK, Places, boundVars
<1>7. CASE Persist
  BY <1>7 DEF Persist, SaveGraph, AfterPersist, TypeOK, Places, LoopPlaces, seenVars, boundVars
<1>8. CASE WritePrompt
  BY <1>8 DEF WritePrompt, DispatchIteration, MaxParseAttempts, TypeOK, Places, diskVars, boundVars
<1>9. CASE AnnouncePrompt
  BY <1>9 DEF AnnouncePrompt, TypeOK, Places, diskVars, seenVars, boundVars
<1>10. ASSUME NEW o \in TurnOutcomes, TurnReturns(o) PROVE TypeInv'
  BY <1>10 DEF TurnReturns, AgentWrites, TypeOK, Places, Author, seenVars, boundVars
<1>11. CASE TurnUnparseable
  BY <1>11 DEF TurnUnparseable, AgentWrites, MaxParseAttempts, TypeOK, Places, LoopPlaces,
               Author, Reasons, seenVars, boundVars
<1>12. CASE RunnerRaises
  BY <1>12 DEF RunnerRaises, AgentWrites, TypeOK, Places, LoopPlaces, Author, seenVars, boundVars
<1>13. CASE RevertForRetry
  BY <1>13 DEF RevertForRetry, RestoreTree, TypeOK, Places, seenVars, boundVars
<1>14. CASE EscalateHonest
  <2>1. EscalateNode(mem[cur], "blocker") \in Node /\ cur \in Task
    BY <1>14, EscalateNodeType DEF EscalateHonest, TypeOK, Graph, EscalationReason
  <2>2. logged' \in Graph /\ mem' \in Graph
    BY <1>14, <1>typ, <2>1, TransitionType DEF EscalateHonest, EventKind
  <2> QED BY <1>14, <2>2 DEF EscalateHonest, TypeOK, Places, Reasons, seenVars, boundVars
<1>15. ASSUME NEW v \in {"pass", "fail"}, Judge(v) PROVE TypeInv'
  <2>1. judged' = dirt
    BY <1>15, <1>typ, DiffAtHead DEF Judge, KeepProof
  <2> QED BY <1>15, <2>1 DEF Judge, TypeOK, Places, diskVars, boundVars
<1>16. CASE MarkVerified
  <2> DEFINE proof == mem[cur].attempts + 1
  <2>1. cur \in Task /\ mem[cur] \in Node /\ proof \in Nat
    BY <1>16 DEF MarkVerified, TypeOK, Graph, Node
  <2>2. VerifyNode(mem[cur], proof) \in Node
    BY <2>1, VerifyNodeType
  <2>3. logged' \in Graph /\ mem' \in Graph
    BY <1>16, <1>typ, <2>1, <2>2, TransitionType DEF MarkVerified, EventKind
  <2> QED BY <1>16, <2>3 DEF MarkVerified, TypeOK, Places, seenVars, boundVars
<1>17. CASE CommitVerified
  <2>1. cur \in Author
    BY <1>17 DEF CommitVerified, Author
  <2>2. history' \in Seq(Commit) /\ dirt' \in SUBSET Author
    BY <1>17, <1>typ, <2>1, CommitTreeType DEF CommitVerified
  <2> QED BY <1>17, <2>2 DEF CommitVerified, TypeOK, Places, LoopPlaces, seenVars, boundVars
<1>18. CASE RejectTask
  <2>1. cur \in Task /\ mem[cur] \in Node /\ mem[cur].attempts + 1 \in Nat
    BY <1>18 DEF RejectTask, TypeOK, Graph, Node
  <2>2. RejectNode(mem[cur]) \in Node
    BY <2>1, RejectNodeType
  <2>3. logged' \in Graph /\ mem' \in Graph
    BY <1>18, <1>typ, <2>1, <2>2, TransitionType DEF RejectTask, EventKind
  <2> QED BY <1>18, <2>3 DEF RejectTask, TypeOK, Places, seenVars, boundVars
<1>19. CASE EscalateExhausted
  <2>1. EscalateNode(mem[cur], "attempts_exhausted") \in Node /\ cur \in Task
    BY <1>19, EscalateNodeType DEF EscalateExhausted, TypeOK, Graph, EscalationReason
  <2>2. logged' \in Graph /\ mem' \in Graph
    BY <1>19, <1>typ, <2>1, TransitionType DEF EscalateExhausted, EventKind
  <2> QED BY <1>19, <2>2 DEF EscalateExhausted, TypeOK, Places, Reasons, seenVars, boundVars
<1>20. CASE RevertForNextAttempt
  BY <1>20 DEF RevertForNextAttempt, RestoreTree, TypeOK, Places, LoopPlaces, seenVars, boundVars
<1>21. CASE EndRun
  BY <1>21 DEF EndRun, CloseRun, TypeOK, Places, LoopPlaces, seenVars, boundVars
<1>22. CASE ReleaseRunLock
  BY <1>22 DEF ReleaseRunLock, ForgetProcess, TypeOK, Places, TurnOutcomes, boundVars
<1>23. CASE AcquireRunLock
  BY <1>23 DEF AcquireRunLock, TypeOK, Places, LoopPlaces, Reasons, seenVars
<1>24. CASE Unwind
  BY <1>24 DEF Unwind, TypeOK, Places, LoopPlaces, Reasons, diskVars, seenVars
<1>25. CASE Crash
  BY <1>25 DEF Crash, ForgetProcess, TypeOK, Places, TurnOutcomes, Reasons
<1>26. CASE UserEdits
  BY <1>26 DEF UserEdits, TypeOK, Author, procVars, seenVars
<1>27. CASE UserTidies
  <2>1. CASE UNCHANGED history
    BY <1>27, <2>1 DEF UserTidies, TypeOK, procVars, seenVars, boundVars
  <2>2. CASE history' = Append(history, [task |-> User, writes |-> dirt])
    <3>1. history' \in Seq(Commit) /\ dirt' \in SUBSET Author
      BY <1>27, <1>typ, <2>2, CommitTreeType DEF UserTidies, CommitTree, Author
    <3> QED BY <1>27, <3>1 DEF UserTidies, TypeOK, procVars, seenVars, boundVars
  <2> QED BY <1>27, <2>1, <2>2 DEF UserTidies
<1>28. CASE UserRemovesLock
  BY <1>28 DEF UserRemovesLock, TypeOK, procVars, seenVars, boundVars
<1>29. CASE RequestStop
  <2>1. stop' \in BOOLEAN
    BY <1>29 DEF RequestStop
  <2> QED BY <1>29, <2>1 DEF RequestStop, TypeOK, procVars
<1>30. CASE ClearStop
  <2>1. stop' \in BOOLEAN
    BY <1>30 DEF ClearStop
  <2> QED BY <1>30, <2>1 DEF ClearStop, TypeOK, procVars, seenVars, boundVars
<1> HIDE DEF TypeInv, TurnPlaces, ClaimPlaces, Goto, Finish, HeadCommit
<1> QED
  BY <1>0, <1>1, <1>2, <1>3, <1>4, <1>5, <1>6, <1>7, <1>8, <1>9, <1>10, <1>11,
     <1>12, <1>13, <1>14, <1>15, <1>16, <1>17, <1>18, <1>19, <1>20, <1>21, <1>22,
     <1>23, <1>24, <1>25, <1>26, <1>27, <1>28, <1>29, <1>30
  DEF Next, Engine, Environment

LEMMA TypeInvariant == Spec => []TypeInv
BY TypeInit, TypeStep, PTL DEF Spec

(* Every variable keeps its shape, whatever is killed, retried or edited.  *)
THEOREM TypeCorrect == Spec => []TypeOK
<1>1. TypeInv => TypeOK
  BY DEF TypeInv
<1> QED BY <1>1, TypeInvariant, PTL

-----------------------------------------------------------------------------
(* The baseline.  While the user keeps out of the tree during a turn, the  *)
(* tree is clean until the agent is dispatched, holds only its writes until  *)
(* the turn is settled, and is not touched between the verdict and the     *)
(* commit.                                                                 *)

BaselineInv ==
    /\ pc \in {"persist_claimed", "prompt", "announce", "dispatch"} => dirt = {}
    /\ pc \in TurnPlaces => dirt \subseteq {cur}
    /\ pc \in {"pass", "persist_verified", "commit"} => judged = dirt

LEMMA BaselineStep ==
    ASSUME ~EditsInTurn, TypeInv, TypeInv', BaselineInv, [Next]_vars
    PROVE  BaselineInv'
<1> USE DEF BaselineInv, TurnPlaces, Goto, Finish
<1>typ. TypeOK
  BY DEF TypeInv
<1>0. CASE UNCHANGED vars
  BY <1>0 DEF vars, diskVars, procVars, seenVars
<1>1. CASE RefuseDirtyStart \/ StartRun
  BY <1>1 DEF RefuseDirtyStart, StartRun
<1>2. CASE StopAtBoundary \/ BudgetAtBoundary \/ PassBoundary
  BY <1>2 DEF StopAtBoundary, BudgetAtBoundary, PassBoundary
<1>3. CASE DrainQueue \/ RefuseDirtyClaim
  BY <1>3 DEF DrainQueue, RefuseDirtyClaim
<1>4. ASSUME NEW t \in Task, ClaimTask(t) PROVE BaselineInv'
  BY <1>4 DEF ClaimTask, CleanTree
<1>5. CASE Persist
  BY <1>5 DEF Persist, AfterPersist, seenVars
<1>6. CASE WritePrompt \/ AnnouncePrompt
  BY <1>6 DEF WritePrompt, AnnouncePrompt, diskVars, seenVars
<1>7. ASSUME NEW o \in TurnOutcomes, TurnReturns(o) PROVE BaselineInv'
  BY <1>7 DEF TurnReturns, AgentWrites
<1>8. CASE TurnUnparseable \/ RunnerRaises
  BY <1>8 DEF TurnUnparseable, RunnerRaises, AgentWrites
<1>9. CASE RevertForRetry \/ RevertForNextAttempt
  BY <1>9 DEF RevertForRetry, RevertForNextAttempt, RestoreTree
<1>10. CASE EscalateHonest \/ EscalateExhausted
  BY <1>10 DEF EscalateHonest, EscalateExhausted
<1>11. ASSUME NEW v \in {"pass", "fail"}, Judge(v) PROVE BaselineInv'
  <2>1. judged' = dirt
    BY <1>11, <1>typ, DiffAtHead DEF Judge, KeepProof, TypeInv, ClaimPlaces
  <2> QED BY <1>11, <2>1 DEF Judge, diskVars
<1>12. CASE MarkVerified \/ RejectTask
  BY <1>12 DEF MarkVerified, RejectTask, seenVars
<1>13. CASE CommitVerified
  BY <1>13 DEF CommitVerified
<1>14. CASE EndRun \/ ReleaseRunLock
  BY <1>14 DEF EndRun, ReleaseRunLock
<1>15. CASE AcquireRunLock \/ Unwind \/ Crash
  BY <1>15 DEF AcquireRunLock, Unwind, Crash
<1>16. CASE UserEdits
  BY <1>16 DEF UserEdits, procVars
<1>17. CASE UserTidies
  BY <1>17 DEF UserTidies, procVars
<1>18. CASE UserRemovesLock \/ RequestStop \/ ClearStop
  BY <1>18 DEF UserRemovesLock, RequestStop, ClearStop, procVars, seenVars
<1> HIDE DEF BaselineInv, TurnPlaces, Goto, Finish
<1> QED
  BY <1>0, <1>1, <1>2, <1>3, <1>4, <1>5, <1>6, <1>7, <1>8, <1>9, <1>10, <1>11,
     <1>12, <1>13, <1>14, <1>15, <1>16, <1>17, <1>18
  DEF Next, Engine, Environment

LEMMA BaselineInvariant ==
    ASSUME ~EditsInTurn
    PROVE  Spec => [](TypeInv /\ BaselineInv)
<1>1. Init => TypeInv /\ BaselineInv
  BY TypeInit DEF Init, BaselineInv, TurnPlaces
<1>2. TypeInv /\ BaselineInv /\ [Next]_vars => (TypeInv /\ BaselineInv)'
  BY TypeStep, BaselineStep
<1> QED BY <1>1, <1>2, PTL DEF Spec

(* Every dispatch starts from a clean tree at the claim's base_commit.     *)
THEOREM StartsClean ==
    ASSUME ~EditsInTurn
    PROVE  Spec => []DispatchStartsClean
<1>1. TypeInv /\ BaselineInv => DispatchStartsClean
  BY DEF TypeInv, ClaimPlaces, BaselineInv, DispatchStartsClean
<1> QED BY <1>1, BaselineInvariant, PTL

(* The diff the gates judge is this task's turn and nothing else: stale work *)
(* of a retry, an earlier attempt, task or run never reaches a verdict.    *)
THEOREM DiffIsOfThisTurn ==
    ASSUME ~EditsInTurn
    PROVE  Spec => []DiffIsThisTurn
<1>1. TypeInv /\ BaselineInv => DiffIsThisTurn
  BY DiffAtHead DEF TypeInv, ClaimPlaces, TurnPlaces, BaselineInv, DiffIsThisTurn
<1> QED BY <1>1, BaselineInvariant, PTL

(* So base_commit is a true baseline for every turn and every diff.        *)
THEOREM BaselineIsTrue ==
    ASSUME ~EditsInTurn
    PROVE  Spec => []TrueBaseline
<1>1. DispatchStartsClean /\ DiffIsThisTurn => TrueBaseline
  BY DEF TrueBaseline
<1> QED BY <1>1, StartsClean, DiffIsOfThisTurn, PTL

(* What the user wrote leaves the dirty tree only by the user's own hand.  *)
THEOREM KeepsUserWork ==
    ASSUME ~EditsInTurn
    PROVE  Spec => UserWorkIsKept
<1>1. ASSUME TypeInv, BaselineInv, [Next]_vars, User \in dirt, User \notin dirt'
      PROVE  pc = "idle"
  <2>1. pc \notin TurnPlaces
    BY <1>1, EnvironmentAssumption DEF TypeInv, BaselineInv
  <2>2. pc \notin {"retry", "decide", "commit", "dispatch"}
    BY <2>1 DEF TurnPlaces
  <2>3. dirt' # dirt
    BY <1>1
  <2>4. UserEdits => dirt \subseteq dirt'
    BY DEF UserEdits
  <2>5. CASE UserTidies
    BY <2>5 DEF UserTidies
  <2>6. CASE UNCHANGED vars
    BY <2>3, <2>6 DEF vars, diskVars
  <2>7. CASE Engine
    BY <2>2, <2>3, <2>7 DEF Engine, RefuseDirtyStart, StartRun, StopAtBoundary,
       BudgetAtBoundary, PassBoundary, DrainQueue, RefuseDirtyClaim, ClaimTask,
       Persist, WritePrompt, AnnouncePrompt, TurnReturns, TurnUnparseable,
       RunnerRaises, RevertForRetry, EscalateHonest, Judge, MarkVerified,
       CommitVerified, RejectTask, EscalateExhausted, RevertForNextAttempt,
       EndRun, ReleaseRunLock, diskVars
  <2>8. CASE AcquireRunLock \/ Unwind \/ Crash \/ UserRemovesLock \/ RequestStop
             \/ ClearStop
    BY <2>3, <2>8 DEF AcquireRunLock, Unwind, Crash, UserRemovesLock, RequestStop,
       ClearStop, diskVars
  <2> QED BY <1>1, <2>4, <2>5, <2>6, <2>7, <2>8 DEF Next, Environment
<1>2. TypeInv /\ BaselineInv /\ [Next]_vars
        => ((User \in dirt /\ User \notin dirt') => pc = "idle")
  BY <1>1
<1> QED BY <1>2, BaselineInvariant, PTL DEF UserWorkIsKept, Spec

-----------------------------------------------------------------------------
(* The brakes: the caps, the STOP file and the iteration directories.      *)

(* From the boundary to the end of the turn the iteration is not counted yet. *)
UncountedPlaces ==
    {"select", "persist_claimed", "prompt", "announce", "dispatch", "retry",
     "judge", "pass", "fail", "persist_verified", "commit"}

BrakesInv ==
    /\ CapsHold
    /\ pc \in UncountedPlaces => iter < MaxIterations /\ consec < MaxConsecutiveFailures
    /\ StopIsPrompt
    /\ pc = "select" /\ stop => late = 0
    /\ pc \in {"idle", "load"} => prompted = -1
    /\ pc \in {"top", "select", "persist_rejected", "decide"} => prompted < 2 * iter
    /\ pc = "persist_claimed" => try = 0 /\ prompted < 2 * iter
    /\ pc = "prompt" => prompted < 2 * iter + try
    /\ pc \in {"announce", "dispatch", "retry", "judge", "pass", "fail",
              "persist_verified", "commit"} => prompted = 2 * iter + try

LEMMA BrakesStep ==
    ASSUME TypeInv, BrakesInv, [Next]_vars
    PROVE  BrakesInv'
<1> USE BudgetAssumption
    DEF BrakesInv, CapsHold, StopIsPrompt, UncountedPlaces, Goto, Finish,
        TypeInv, TypeOK, boundVars
<1>0. CASE UNCHANGED vars
  BY <1>0 DEF vars, diskVars, procVars, seenVars
<1>1. CASE RefuseDirtyStart \/ StartRun
  BY <1>1 DEF RefuseDirtyStart, StartRun, seenVars
<1>2. CASE StopAtBoundary \/ BudgetAtBoundary
  BY <1>2 DEF StopAtBoundary, BudgetAtBoundary, seenVars
<1>3. CASE PassBoundary
  BY <1>3 DEF PassBoundary, CapReached, diskVars, seenVars
<1>4. CASE DrainQueue \/ RefuseDirtyClaim
  BY <1>4 DEF DrainQueue, RefuseDirtyClaim, seenVars
<1>5. ASSUME NEW t \in Task, ClaimTask(t) PROVE BrakesInv'
  BY <1>5 DEF ClaimTask
<1>6. CASE Persist
  BY <1>6 DEF Persist, AfterPersist, seenVars
<1>7. CASE WritePrompt
  BY <1>7 DEF WritePrompt, DispatchIteration, MaxParseAttempts, diskVars
<1>8. CASE AnnouncePrompt
  BY <1>8 DEF AnnouncePrompt, diskVars, seenVars
<1>9. ASSUME NEW o \in TurnOutcomes, TurnReturns(o) PROVE BrakesInv'
  BY <1>9 DEF TurnReturns, seenVars
<1>10. CASE TurnUnparseable \/ RunnerRaises
  BY <1>10 DEF TurnUnparseable, RunnerRaises, seenVars
<1>11. CASE RevertForRetry
  BY <1>11 DEF RevertForRetry, seenVars
<1>12. CASE EscalateHonest
  BY <1>12 DEF EscalateHonest, seenVars
<1>13. ASSUME NEW v \in {"pass", "fail"}, Judge(v) PROVE BrakesInv'
  BY <1>13 DEF Judge, diskVars
<1>14. CASE MarkVerified
  BY <1>14 DEF MarkVerified, seenVars
<1>15. CASE CommitVerified
  BY <1>15 DEF CommitVerified, seenVars
<1>16. CASE RejectTask
  BY <1>16 DEF RejectTask, seenVars
<1>17. CASE EscalateExhausted \/ RevertForNextAttempt
  BY <1>17 DEF EscalateExhausted, RevertForNextAttempt, seenVars
<1>18. CASE EndRun \/ ReleaseRunLock
  BY <1>18 DEF EndRun, ReleaseRunLock, ForgetProcess, seenVars
<1>19. CASE AcquireRunLock
  BY <1>19 DEF AcquireRunLock, seenVars
<1>20. CASE Unwind
  BY <1>20 DEF Unwind, seenVars
<1>21. CASE Crash
  BY <1>21 DEF Crash, ForgetProcess
<1>22. CASE UserEdits \/ UserTidies \/ UserRemovesLock
  BY <1>22 DEF UserEdits, UserTidies, UserRemovesLock, procVars, seenVars
<1>23. CASE RequestStop
  BY <1>23 DEF RequestStop, procVars
<1>24. CASE ClearStop
  BY <1>24 DEF ClearStop, procVars, seenVars
<1> HIDE DEF BrakesInv, CapsHold, StopIsPrompt, UncountedPlaces, Goto, Finish,
        TypeInv, TypeOK, boundVars
<1> QED
  BY <1>0, <1>1, <1>2, <1>3, <1>4, <1>5, <1>6, <1>7, <1>8, <1>9, <1>10, <1>11,
     <1>12, <1>13, <1>14, <1>15, <1>16, <1>17, <1>18, <1>19, <1>20, <1>21,
     <1>22, <1>23, <1>24
  DEF Next, Engine, Environment

LEMMA BrakesInvariant == Spec => [](TypeInv /\ BrakesInv)
<1>1. Init => TypeInv /\ BrakesInv
  BY TypeInit, BudgetAssumption DEF Init, BrakesInv, CapsHold, StopIsPrompt, UncountedPlaces
<1>2. TypeInv /\ BrakesInv /\ [Next]_vars => (TypeInv /\ BrakesInv)'
  BY TypeStep, BrakesStep
<1> QED BY <1>1, <1>2, PTL DEF Spec

(* No run ever exceeds its caps on iterations and consecutive failures, and  *)
(* after STOP appears at most one more task is claimed.                    *)
THEOREM BrakesAreHard == Spec => []BrakesHold
<1>1. BrakesInv => BrakesHold
  BY DEF BrakesInv, BrakesHold
<1> QED BY <1>1, BrakesInvariant, PTL

(* Every prompt of a run gets an iteration directory of its own.           *)
THEOREM PromptsAreKept == Spec => PromptNeverOverwritten
<1>1. ASSUME TypeInv, BrakesInv, [Next]_vars, pc = "prompt", pc' = "announce"
      PROVE  prompted' > prompted
  <2>1. pc' # pc
    BY <1>1
  <2>2. CASE WritePrompt
    BY <1>1, <2>2 DEF WritePrompt, BrakesInv, TypeInv, TypeOK, DispatchIteration,
                      MaxParseAttempts
  <2>3. CASE UNCHANGED vars
    BY <2>1, <2>3 DEF vars, procVars
  <2>4. ASSUME Engine, ~WritePrompt PROVE FALSE
    BY <1>1, <2>4 DEF Engine, RefuseDirtyStart, StartRun, StopAtBoundary,
       BudgetAtBoundary, PassBoundary, DrainQueue, RefuseDirtyClaim, ClaimTask,
       Persist, AfterPersist, AnnouncePrompt, TurnReturns, TurnUnparseable,
       RunnerRaises, RevertForRetry, EscalateHonest, Judge, MarkVerified,
       CommitVerified, RejectTask, EscalateExhausted, RevertForNextAttempt,
       EndRun, ReleaseRunLock
  <2>5. CASE Environment
    BY <1>1, <2>1, <2>5 DEF Environment, AcquireRunLock, Unwind, Crash, UserEdits,
       UserTidies, UserRemovesLock, RequestStop, ClearStop, Goto, procVars
  <2> QED BY <1>1, <2>2, <2>3, <2>4, <2>5 DEF Next
<1>2. TypeInv /\ BrakesInv /\ [Next]_vars
        => (pc = "prompt" /\ pc' = "announce" => prompted' > prompted)
  BY <1>1
<1> QED BY <1>2, BrakesInvariant, PTL DEF PromptNeverOverwritten, Spec

-----------------------------------------------------------------------------
(* The run loop implements the task lifecycle, and builds nothing on an    *)
(* unverified dependency: for every plan, whatever crashes, exceptions,    *)
(* restarts and edits the user makes.                                      *)
(*                                                                         *)
(* The argument: while a run is working, its graph in memory and the one on *)
(* disk agree on every task up to readiness, except on the current task    *)
(* between the append of its event and the write of the projection; there  *)
(* the two are one transition apart.  A run that starts reads the disk, a  *)
(* run that dies leaves it alone, so the write is the only visible step.   *)


PersistPlaces == {"persist_claimed", "persist_verified", "persist_rejected",
                  "persist_escalated"}

(* Where the graph in memory stands for something. *)
WorkPlaces == {"top", "select"} \cup TurnPlaces

(* The same node but for readiness. *)
Same(m, n) == StageOf(m) = StageOf(n) /\ m.attempts = n.attempts

AgreeInv ==
    /\ FoundationVerified
    /\ pc \in WorkPlaces => \A t \in Task : (t = cur /\ pc \in PersistPlaces)
                                            \/ Same(mem[t], disk[t])
    /\ pc = "persist_claimed" =>
           /\ disk[cur].state \in Recomputable \cup {"rejected"}
           /\ mem[cur].state = "claimed"
           /\ mem[cur].attempts = disk[cur].attempts
           /\ DepsVerified(disk, cur)
    /\ pc \in {"prompt", "announce", "dispatch", "retry", "judge", "pass", "fail"} =>
           mem[cur].state = "claimed"
    /\ pc = "persist_verified" =>
           /\ disk[cur].state = "claimed"
           /\ mem[cur].state = "verified"
           /\ mem[cur].attempts = disk[cur].attempts
    /\ pc = "persist_rejected" =>
           /\ disk[cur].state = "claimed"
           /\ mem[cur].state = "rejected"
           /\ mem[cur].attempts = disk[cur].attempts + 1
    /\ pc = "decide" => mem[cur].state = "rejected"
    /\ pc = "persist_escalated" =>
           /\ disk[cur].state \in {"claimed", "rejected"}
           /\ mem[cur].state = "escalated"
           /\ mem[cur].attempts = disk[cur].attempts

-----------------------------------------------------------------------------
(* Facts about graphs *)

(* No task waits for itself. *)
LEMMA NoSelfDependency ==
    ASSUME NEW t \in Task
    PROVE  t \notin DependsOn[t]
<1>1. {t} \in SUBSET Task /\ {t} # {}
  OBVIOUS
<1>2. \E u \in {t} : DependsOn[u] \cap {t} = {}
  BY <1>1, AcyclicAssumption
<1> QED BY <1>2

LEMMA SameVerified ==
    ASSUME NEW m \in Node, NEW n \in Node, Same(m, n)
    PROVE  /\ m.state \in Recomputable <=> n.state \in Recomputable
           /\ m.state \notin Recomputable => m.state = n.state
           /\ m.attempts = n.attempts
BY DEF Same, StageOf, Recomputable, Node, NodeState

LEMMA RecomputeSame ==
    ASSUME NEW g \in Graph, NEW t \in Task
    PROVE  Same(Recompute(g)[t], g[t])
<1>1. g[t] \in Node
  BY DEF Graph
<1>2. CASE g[t].state \in Recomputable
  BY <1>1, <1>2 DEF Recompute, Same, StageOf, Recomputable, Node
<1>3. CASE g[t].state \notin Recomputable
  BY <1>3 DEF Recompute, Same, StageOf
<1> QED BY <1>2, <1>3

LEMMA RecomputeReady ==
    ASSUME NEW g \in Graph, NEW t \in Task, Recompute(g)[t].state = "ready"
    PROVE  DepsVerified(g, t)
<1>1. g[t] \in Node
  BY DEF Graph
<1> QED BY <1>1 DEF Recompute, Recomputable, Node

-----------------------------------------------------------------------------
(* The write of the projection *)

(* Every write of the projection is one transition of one task. *)
LEMMA PersistIsOneTransition ==
    ASSUME TypeInv, AgreeInv, Persist
    PROVE  /\ cur \in Task
           /\ \A t \in Task \ {cur} : Same(disk'[t], disk[t])
           /\ disk' = mem
           /\ \/ /\ disk[cur].state \in Recomputable \cup {"rejected"}
                 /\ disk'[cur].state = "claimed"
                 /\ disk'[cur].attempts = disk[cur].attempts
              \/ /\ disk[cur].state = "claimed"
                 /\ disk'[cur].state = "verified"
                 /\ disk'[cur].attempts = disk[cur].attempts
              \/ /\ disk[cur].state = "claimed"
                 /\ disk'[cur].state = "rejected"
                 /\ disk'[cur].attempts = disk[cur].attempts + 1
              \/ /\ disk[cur].state \in {"claimed", "rejected"}
                 /\ disk'[cur].state = "escalated"
                 /\ disk'[cur].attempts = disk[cur].attempts
           /\ DepsVerified(disk, cur)
<1>1. pc \in PersistPlaces /\ disk' = mem /\ cur \in Task
  BY DEF Persist, AfterPersist, SaveGraph, PersistPlaces, TypeInv, TurnPlaces
<1>2. \A t \in Task \ {cur} : Same(mem[t], disk[t])
  BY <1>1 DEF AgreeInv, WorkPlaces, TurnPlaces, PersistPlaces
<1>3. DepsVerified(disk, cur)
  BY <1>1 DEF AgreeInv, FoundationVerified, PersistPlaces, Recomputable
<1> QED BY <1>1, <1>2, <1>3 DEF AgreeInv, PersistPlaces

LEMMA PersistKeepsFoundation ==
    ASSUME TypeInv, AgreeInv, Persist
    PROVE  FoundationVerified'
<1> SUFFICES ASSUME NEW t \in Task, disk'[t].state \notin Recomputable,
                    NEW d \in DependsOn[t]
             PROVE  disk'[d].state = "verified"
  BY DEF FoundationVerified, DepsVerified
<1>1. cur \in Task /\ d \in Task /\ disk[cur].state # "verified"
  BY PersistIsOneTransition, DependsOnAssumption DEF Recomputable
<1>node. \A u \in Task : disk[u] \in Node /\ disk'[u] \in Node
  BY PersistIsOneTransition DEF TypeInv, TypeOK, Graph
<1>2. DepsVerified(disk, t)
  <2>1. CASE t = cur
    BY <2>1, PersistIsOneTransition
  <2>2. CASE t # cur
    <3>1. disk[t].state \notin Recomputable
      BY <2>2, <1>node, PersistIsOneTransition, SameVerified
    <3> QED BY <3>1 DEF AgreeInv, FoundationVerified
  <2> QED BY <2>1, <2>2
<1>3. disk[d].state = "verified" /\ d # cur
  BY <1>1, <1>2 DEF DepsVerified
<1>4. Same(disk'[d], disk[d])
  BY <1>1, <1>3, PersistIsOneTransition
<1> QED BY <1>1, <1>3, <1>4, <1>node, SameVerified DEF Recomputable

-----------------------------------------------------------------------------
(* The invariant *)

LEMMA AgreeInit == Init => AgreeInv
<1> SUFFICES ASSUME Init PROVE AgreeInv
  OBVIOUS
<1>1. \A t \in Task : disk[t].state \in Recomputable
  BY DEF Init, PlanDefinition, PristineNode, Recompute, Recomputable
<1> QED BY <1>1 DEF Init, AgreeInv, FoundationVerified, WorkPlaces, TurnPlaces

(* A transition in memory touches the current task only. *)
LEMMA TransitionSame ==
    ASSUME TypeOK, NEW node, NEW kind, NEW num, cur \in Task,
           \A t \in Task : Same(mem[t], disk[t]),
           Transition(cur, node, kind, num)
    PROVE  /\ \A t \in Task \ {cur} : Same(mem'[t], disk[t])
           /\ mem'[cur] = node
BY DEF Transition, TypeOK, Graph

LEMMA ClaimSame ==
    ASSUME TypeInv, AgreeInv, NEW t \in Task, ClaimTask(t)
    PROVE  /\ \A u \in Task \ {t} : Same(mem'[u], disk[u])
           /\ disk[t].state \in Recomputable \cup {"rejected"}
           /\ mem'[t].state = "claimed"
           /\ mem'[t].attempts = disk[t].attempts
           /\ DepsVerified(disk, t)
<1> DEFINE g == Recompute(mem)
<1>1. mem \in Graph /\ disk \in Graph /\ g \in Graph
  BY RecomputeType DEF TypeInv, TypeOK
<1>2. \A u \in Task : Same(mem[u], disk[u])
  BY DEF AgreeInv, ClaimTask, WorkPlaces, PersistPlaces
<1>3. \A u \in Task : Same(g[u], mem[u])
  BY <1>1, RecomputeSame
<1>4. \A u \in Task : Same(g[u], disk[u])
  BY <1>2, <1>3 DEF Same
<1>5. g[t] \in Node /\ g[t].state \in {"ready", "rejected"}
  BY <1>1 DEF ClaimTask, ClaimableFrom, Graph
<1>6. mem' = [g EXCEPT ![t] = ClaimNode(g[t], HeadCommit)]
  BY DEF ClaimTask
<1> HIDE DEF g
<1>7. \A u \in Task \ {t} : mem'[u] = g[u]
  BY <1>1, <1>6 DEF Graph
<1>8. mem'[t].state = "claimed" /\ mem'[t].attempts = g[t].attempts
  BY <1>1, <1>5, <1>6 DEF Graph, ClaimNode, Node
<1>9. disk[t].state \in Recomputable \cup {"rejected"} /\ g[t].attempts = disk[t].attempts
  <2>1. Same(g[t], disk[t]) /\ disk[t] \in Node
    BY <1>1, <1>4 DEF Graph
  <2>2. g[t].state \in Recomputable \/ g[t].state = "rejected"
    BY <1>5 DEF Recomputable
  <2> QED BY <1>5, <2>1, <2>2, SameVerified DEF Recomputable
<1>10. DepsVerified(disk, t)
  <2>1. CASE g[t].state = "ready"
    <3>1. DepsVerified(mem, t)
      BY <1>1, <2>1, RecomputeReady DEF g
    <3> SUFFICES ASSUME NEW d \in DependsOn[t] PROVE disk[d].state = "verified"
      BY DEF DepsVerified
    <3>2. d \in Task /\ mem[d].state = "verified"
      BY <3>1, DependsOnAssumption DEF DepsVerified
    <3>3. mem[d] \in Node /\ disk[d] \in Node /\ Same(mem[d], disk[d])
      BY <1>1, <1>2, <3>2 DEF Graph
    <3> QED BY <3>2, <3>3, SameVerified DEF Recomputable
  <2>2. CASE g[t].state = "rejected"
    <3>1. disk[t] \in Node /\ Same(g[t], disk[t])
      BY <1>1, <1>4 DEF Graph
    <3>2. disk[t].state = "rejected"
      BY <1>5, <2>2, <3>1, SameVerified DEF Recomputable
    <3> QED BY <3>2 DEF AgreeInv, FoundationVerified, Recomputable
  <2> QED BY <1>5, <2>1, <2>2
<1> QED BY <1>4, <1>7, <1>8, <1>9, <1>10

LEMMA AgreeStep ==
    ASSUME TypeInv, AgreeInv, [Next]_vars
    PROVE  AgreeInv'
<1>typ. TypeOK
  BY DEF TypeInv
<1> USE DEF WorkPlaces, TurnPlaces, PersistPlaces, Goto, Finish
<1>0. CASE UNCHANGED vars
  BY <1>0 DEF AgreeInv, FoundationVerified, DepsVerified, vars, diskVars, procVars
<1>quiet. ASSUME UNCHANGED <<disk, mem, cur>>,
                 \/ pc' = pc
                 \/ pc' \in {"idle", "load", "finish", "release"}
                 \/ pc \in WorkPlaces \ PersistPlaces /\ pc' \in {"top", "select"}
                 \/ /\ pc \in {"prompt", "announce", "dispatch", "retry", "judge"}
                    /\ pc' \in {"prompt", "announce", "dispatch", "retry", "judge",
                                "pass", "fail"}
          PROVE  AgreeInv'
  <2>1. FoundationVerified'
    BY <1>quiet DEF AgreeInv, FoundationVerified, DepsVerified
  <2>2. DepsVerified(disk, cur)' = DepsVerified(disk, cur)
    BY <1>quiet DEF DepsVerified
  <2> QED BY <1>quiet, <2>1, <2>2 DEF AgreeInv
<1>1. CASE RefuseDirtyStart \/ StopAtBoundary \/ BudgetAtBoundary \/ PassBoundary
           \/ RefuseDirtyClaim
  BY <1>1, <1>quiet DEF RefuseDirtyStart, StopAtBoundary, BudgetAtBoundary,
                        PassBoundary, RefuseDirtyClaim, diskVars
<1>2. CASE StartRun
  <2>1. FoundationVerified'
    BY <1>2 DEF StartRun, AgreeInv, FoundationVerified, DepsVerified
  <2>2. \A t \in Task : Same(mem'[t], disk'[t])
    BY <1>2 DEF StartRun, Same
  <2> QED BY <1>2, <2>1, <2>2 DEF StartRun, AgreeInv
<1>3. CASE DrainQueue \/ ReleaseRunLock \/ Crash
  <2>1. FoundationVerified'
    BY <1>3 DEF DrainQueue, ReleaseRunLock, Crash, diskVars, AgreeInv,
                FoundationVerified, DepsVerified
  <2> QED BY <1>3, <2>1 DEF DrainQueue, ReleaseRunLock, Crash, AgreeInv
<1>4. ASSUME NEW t \in Task, ClaimTask(t) PROVE AgreeInv'
  <2>1. disk' = disk /\ cur' = t /\ pc' = "persist_claimed"
    BY <1>4 DEF ClaimTask
  <2>2. FoundationVerified'
    BY <2>1 DEF AgreeInv, FoundationVerified, DepsVerified
  <2>3. DepsVerified(disk, cur)'
    BY <1>4, <2>1, ClaimSame DEF DepsVerified
  <2> QED BY <1>4, <2>1, <2>2, <2>3, ClaimSame DEF AgreeInv
<1>5. CASE Persist
  <2>1. FoundationVerified'
    BY <1>5, PersistKeepsFoundation
  <2>2. \A t \in Task : Same(mem'[t], disk'[t])
    BY <1>5 DEF Persist, SaveGraph, Same
  <2>3. mem' = mem /\ cur' = cur
    BY <1>5 DEF Persist
  <2>4. pc \in PersistPlaces /\ pc' = AfterPersist[pc]
    BY <1>5 DEF Persist, AfterPersist
  <2>5. \/ pc = "persist_claimed" /\ pc' = "prompt"
        \/ pc = "persist_verified" /\ pc' = "commit"
        \/ pc = "persist_rejected" /\ pc' = "decide"
        \/ pc = "persist_escalated" /\ pc' = "finish"
    BY <2>4 DEF AfterPersist
  <2> QED BY <2>1, <2>2, <2>3, <2>5 DEF AgreeInv
<1>6. CASE WritePrompt \/ AnnouncePrompt \/ TurnUnparseable \/ RunnerRaises
           \/ RevertForRetry
  BY <1>6, <1>quiet DEF WritePrompt, AnnouncePrompt, TurnUnparseable, RunnerRaises,
                        RevertForRetry, diskVars
<1>7. ASSUME NEW o \in TurnOutcomes, TurnReturns(o) PROVE AgreeInv'
  BY <1>7, <1>quiet DEF TurnReturns
<1>8. ASSUME NEW v \in {"pass", "fail"}, Judge(v) PROVE AgreeInv'
  BY <1>8, <1>quiet DEF Judge, diskVars
<1>9. CASE CommitVerified \/ RevertForNextAttempt
  BY <1>9, <1>quiet DEF CommitVerified, RevertForNextAttempt
<1>10. CASE EndRun \/ AcquireRunLock \/ Unwind
  BY <1>10, <1>quiet DEF EndRun, AcquireRunLock, Unwind, diskVars
<1>11. CASE UserEdits \/ UserTidies \/ UserRemovesLock \/ RequestStop \/ ClearStop
  BY <1>11, <1>quiet DEF UserEdits, UserTidies, UserRemovesLock, RequestStop,
                         ClearStop, procVars
<1>turn. ASSUME pc \in {"judge", "pass", "fail", "decide"}
         PROVE  /\ cur \in Task
                /\ \A t \in Task : Same(mem[t], disk[t])
                /\ mem[cur] \in Node /\ disk[cur] \in Node
                /\ mem[cur].attempts = disk[cur].attempts
                /\ mem[cur].state = disk[cur].state
                /\ mem[cur].state = IF pc = "decide" THEN "rejected" ELSE "claimed"
  <2>1. cur \in Task /\ \A t \in Task : Same(mem[t], disk[t])
    BY <1>turn DEF TypeInv, AgreeInv
  <2>2. mem[cur].state = IF pc = "decide" THEN "rejected" ELSE "claimed"
    BY <1>turn DEF AgreeInv
  <2>3. mem[cur] \in Node /\ disk[cur] \in Node
    BY <2>1, <1>typ DEF TypeOK, Graph
  <2>4. Same(mem[cur], disk[cur])
    BY <2>1
  <2>5. mem[cur].state \notin Recomputable
    BY <2>2 DEF Recomputable
  <2> QED BY <2>1, <2>2, <2>3, <2>4, <2>5, SameVerified
<1>12. CASE EscalateHonest
  <2>1. pc = "judge" /\ disk' = disk /\ cur' = cur /\ pc' = "persist_escalated"
    BY <1>12 DEF EscalateHonest
  <2>2. FoundationVerified'
    BY <2>1 DEF AgreeInv, FoundationVerified, DepsVerified
  <2>3. /\ \A t \in Task \ {cur} : Same(mem'[t], disk[t])
        /\ mem'[cur] = EscalateNode(mem[cur], "blocker")
    BY <1>12, <1>turn, <1>typ, <2>1, TransitionSame DEF EscalateHonest
  <2> QED BY <1>turn, <2>1, <2>2, <2>3 DEF AgreeInv, EscalateNode, Node
<1>13. CASE EscalateExhausted
  <2>1. pc = "decide" /\ disk' = disk /\ cur' = cur /\ pc' = "persist_escalated"
    BY <1>13 DEF EscalateExhausted
  <2>2. FoundationVerified'
    BY <2>1 DEF AgreeInv, FoundationVerified, DepsVerified
  <2>3. /\ \A t \in Task \ {cur} : Same(mem'[t], disk[t])
        /\ mem'[cur] = EscalateNode(mem[cur], "attempts_exhausted")
    BY <1>13, <1>turn, <1>typ, <2>1, TransitionSame DEF EscalateExhausted
  <2> QED BY <1>turn, <2>1, <2>2, <2>3 DEF AgreeInv, EscalateNode, Node
<1>14. CASE MarkVerified
  <2>1. pc = "pass" /\ disk' = disk /\ cur' = cur /\ pc' = "persist_verified"
    BY <1>14 DEF MarkVerified
  <2>2. FoundationVerified'
    BY <2>1 DEF AgreeInv, FoundationVerified, DepsVerified
  <2>3. /\ \A t \in Task \ {cur} : Same(mem'[t], disk[t])
        /\ mem'[cur] = VerifyNode(mem[cur], mem[cur].attempts + 1)
    BY <1>14, <1>turn, <1>typ, <2>1, TransitionSame DEF MarkVerified
  <2> QED BY <1>turn, <2>1, <2>2, <2>3 DEF AgreeInv, VerifyNode, Node
<1>15. CASE RejectTask
  <2>1. pc = "fail" /\ disk' = disk /\ cur' = cur /\ pc' = "persist_rejected"
    BY <1>15 DEF RejectTask
  <2>2. FoundationVerified'
    BY <2>1 DEF AgreeInv, FoundationVerified, DepsVerified
  <2>3. /\ \A t \in Task \ {cur} : Same(mem'[t], disk[t])
        /\ mem'[cur] = RejectNode(mem[cur])
    BY <1>15, <1>turn, <1>typ, <2>1, TransitionSame DEF RejectTask
  <2> QED BY <1>turn, <2>1, <2>2, <2>3 DEF AgreeInv, RejectNode, Node
<1> HIDE DEF WorkPlaces, TurnPlaces, PersistPlaces, Goto, Finish
<1> QED
  BY <1>0, <1>1, <1>2, <1>3, <1>4, <1>5, <1>6, <1>7, <1>8, <1>9, <1>10, <1>11,
     <1>12, <1>13, <1>14, <1>15
  DEF Next, Engine, Environment

LEMMA AgreeInvariant == Spec => [](TypeInv /\ AgreeInv)
<1>1. TypeInv /\ AgreeInv /\ [Next]_vars => (TypeInv /\ AgreeInv)'
  BY TypeStep, AgreeStep
<1> QED BY <1>1, TypeInit, AgreeInit, PTL DEF Spec

-----------------------------------------------------------------------------
(* No task leaves the queue before all its dependencies are verified.      *)
THEOREM BuildsOnVerified == Spec => []FoundationVerified
<1>1. AgreeInv => FoundationVerified
  BY DEF AgreeInv
<1> QED BY <1>1, AgreeInvariant, PTL

(* Only Persist writes the projection. *)
LEMMA DiskStep ==
    ASSUME [Next]_vars, ~Persist
    PROVE  disk' = disk
BY DEF Next, Engine, Environment, vars, diskVars, RefuseDirtyStart, StartRun,
       StopAtBoundary, BudgetAtBoundary, PassBoundary, DrainQueue, RefuseDirtyClaim,
       ClaimTask, WritePrompt, AnnouncePrompt, TurnReturns, TurnUnparseable,
       RunnerRaises, RevertForRetry, EscalateHonest, Judge, MarkVerified,
       CommitVerified, RejectTask, EscalateExhausted, RevertForNextAttempt,
       EndRun, ReleaseRunLock, AcquireRunLock, Unwind, Crash, UserEdits,
       UserTidies, UserRemovesLock, RequestStop, ClearStop

(* The projection on disk goes through the abstract lifecycle: every step of *)
(* the loop, the user or a fault is a transition of one task or a stutter. *)
THEOREM LoopImplementsLifecycle == Spec => ImplementsLifecycle
<1>1. Init => Lifecycle!Init
  <2> SUFFICES ASSUME Init PROVE Lifecycle!Init
    OBVIOUS
  <2>1. \A t \in Task : disk[t].state \in Recomputable /\ disk[t].attempts = 0
    BY DEF Init, PlanDefinition, PristineNode, Recompute, Recomputable
  <2> QED BY <2>1 DEF Lifecycle!Init, StageOf
<1>2. ASSUME TypeInv, AgreeInv, Persist
      PROVE  Lifecycle!Next
  <2> DEFINE stage == [t \in Task |-> StageOf(disk[t])]
             spent == [t \in Task |-> disk[t].attempts]
  <2>1. cur \in Task /\ disk \in Graph
    BY <1>2, PersistIsOneTransition DEF TypeInv, TypeOK
  <2>2. \A t \in Task \ {cur} : stage'[t] = stage[t] /\ spent'[t] = spent[t]
    BY <1>2, PersistIsOneTransition DEF Same
  <2>3. \A d \in DependsOn[cur] : stage[d] = "verified"
    BY <1>2, <2>1, PersistIsOneTransition, DependsOnAssumption DEF DepsVerified, StageOf, Recomputable
  <2>4. \/ /\ stage[cur] \in {"open", "rejected"}
           /\ stage'[cur] = "claimed" /\ spent'[cur] = spent[cur]
        \/ /\ stage[cur] = "claimed"
           /\ stage'[cur] = "verified" /\ spent'[cur] = spent[cur]
        \/ /\ stage[cur] = "claimed"
           /\ stage'[cur] = "rejected" /\ spent'[cur] = spent[cur] + 1
        \/ /\ stage[cur] \in {"claimed", "rejected"}
           /\ stage'[cur] = "escalated" /\ spent'[cur] = spent[cur]
    BY <1>2, <2>1, PersistIsOneTransition DEF StageOf, Recomputable
  <2>5. /\ stage' = [stage EXCEPT ![cur] = stage'[cur]]
        /\ spent' = [spent EXCEPT ![cur] = spent'[cur]]
        /\ spent'[cur] = spent[cur] => spent' = spent
    BY <2>1, <2>2
  <2> HIDE DEF stage, spent
  <2>6. \/ /\ stage[cur] \in {"open", "rejected"}
           /\ stage' = [stage EXCEPT ![cur] = "claimed"] /\ spent' = spent
        \/ /\ stage[cur] = "claimed"
           /\ stage' = [stage EXCEPT ![cur] = "verified"] /\ spent' = spent
        \/ /\ stage[cur] = "claimed"
           /\ stage' = [stage EXCEPT ![cur] = "rejected"]
           /\ spent' = [spent EXCEPT ![cur] = spent[cur] + 1]
        \/ /\ stage[cur] \in {"claimed", "rejected"}
           /\ stage' = [stage EXCEPT ![cur] = "escalated"] /\ spent' = spent
    BY <2>4, <2>5
  <2>7. PICK c \in Task : c = cur
    BY <2>1
  <2>8. \/ Lifecycle!Claim(c) \/ Lifecycle!Verify(c)
        \/ Lifecycle!Reject(c) \/ Lifecycle!Escalate(c)
    BY <2>3, <2>6, <2>7 DEF stage, spent, Lifecycle!Claim, Lifecycle!Verify,
                            Lifecycle!Reject, Lifecycle!Escalate
  <2> QED BY <2>8 DEF Lifecycle!Next
<1>3. TypeInv /\ AgreeInv /\ [Next]_vars => [Lifecycle!Next]_(Lifecycle!vars)
  <2> SUFFICES ASSUME TypeInv, AgreeInv, [Next]_vars, ~Persist
               PROVE  UNCHANGED Lifecycle!vars
    BY <1>2
  <2> QED BY DiskStep DEF Lifecycle!vars
<1> QED
  BY <1>1, <1>3, AgreeInvariant, PTL DEF Spec, ImplementsLifecycle, Lifecycle!Spec

-----------------------------------------------------------------------------
(* The projection and the log.                                             *)
(*                                                                         *)
(* What the log says of a task is what its node says, or one event ahead of  *)
(* it: the event a kill, or the moment between append and write, has kept  *)
(* from the projection.  A claim that never reached the projection stays in  *)
(* the log until the task is claimed again; so the two agree on a task from  *)
(* its next claim on, and everywhere on the attempts that were judged.     *)

Leads(n, l) ==
    /\ l.attempts = n.attempts
                    + (IF n.state = "claimed" /\ l.state = "rejected" THEN 1 ELSE 0)
    /\ n.state \in Recomputable => l.state \in Recomputable \cup {"claimed"}
    /\ n.state = "claimed" => l.state \notin Recomputable
    /\ n.state = "rejected" => l.state \in {"claimed", "rejected", "escalated"}
    /\ n.state = "verified" => l.state = "verified" /\ l.proof = n.proof
    /\ n.state = "escalated" => l.state = "escalated"

LogInv ==
    /\ \A t \in Task : Leads(disk[t], logged[t])
    /\ pc \in WorkPlaces => \A t \in Task : Leads(mem[t], logged[t])
    /\ pc \in ClaimPlaces => logged[cur].state = "claimed"
    /\ pc \in {"persist_rejected", "decide"} => logged[cur].state = "rejected"

(* Steps that change neither a graph nor the current task move the loop on *)
(* within a turn, between turns or out of the run.                         *)
QuietMove ==
    \/ pc' = pc
    \/ pc' \in {"idle", "load", "finish", "release"}
    \/ pc \in WorkPlaces \ PersistPlaces /\ pc' \in {"top", "select"}
    \/ /\ pc \in {"prompt", "announce", "dispatch", "retry", "judge"}
       /\ pc' \in {"prompt", "announce", "dispatch", "retry", "judge", "pass", "fail"}

LEMMA QuietStep ==
    ASSUME [Next]_vars,
           ~StartRun, ~DrainQueue, ~ReleaseRunLock, ~Crash, ~Persist,
           ~EscalateHonest, ~EscalateExhausted, ~MarkVerified, ~RejectTask,
           \A t \in Task : ~ClaimTask(t)
    PROVE  UNCHANGED <<disk, logged, mem, cur>> /\ QuietMove
<1> USE DEF QuietMove, WorkPlaces, TurnPlaces, PersistPlaces, Goto, Finish, diskVars
<1>0. CASE UNCHANGED vars
  BY <1>0 DEF vars, procVars
<1>1. CASE RefuseDirtyStart \/ StopAtBoundary \/ BudgetAtBoundary \/ PassBoundary
           \/ RefuseDirtyClaim
  BY <1>1 DEF RefuseDirtyStart, StopAtBoundary, BudgetAtBoundary, PassBoundary,
              RefuseDirtyClaim
<1>2. CASE WritePrompt \/ AnnouncePrompt \/ TurnUnparseable \/ RunnerRaises
           \/ RevertForRetry
  BY <1>2 DEF WritePrompt, AnnouncePrompt, TurnUnparseable, RunnerRaises, RevertForRetry
<1>3. ASSUME NEW o \in TurnOutcomes, TurnReturns(o)
      PROVE  UNCHANGED <<disk, logged, mem, cur>> /\ QuietMove
  BY <1>3 DEF TurnReturns
<1>4. ASSUME NEW v \in {"pass", "fail"}, Judge(v)
      PROVE  UNCHANGED <<disk, logged, mem, cur>> /\ QuietMove
  BY <1>4 DEF Judge
<1>5. CASE CommitVerified \/ RevertForNextAttempt \/ EndRun
  BY <1>5 DEF CommitVerified, RevertForNextAttempt, EndRun
<1>6. CASE AcquireRunLock \/ Unwind
  BY <1>6 DEF AcquireRunLock, Unwind
<1>7. CASE UserEdits \/ UserTidies \/ UserRemovesLock \/ RequestStop \/ ClearStop
  BY <1>7 DEF UserEdits, UserTidies, UserRemovesLock, RequestStop, ClearStop, procVars
<1> HIDE DEF QuietMove, WorkPlaces, TurnPlaces, PersistPlaces, Goto, Finish, diskVars
<1> QED
  BY <1>0, <1>1, <1>2, <1>3, <1>4, <1>5, <1>6, <1>7 DEF Next, Engine, Environment

LEMMA RecomputeLeads ==
    ASSUME NEW g \in Graph, NEW t \in Task, NEW l \in Node, Leads(g[t], l)
    PROVE  Leads(Recompute(g)[t], l)
<1>1. g[t] \in Node
  BY DEF Graph
<1>2. CASE g[t].state \in Recomputable
  <2>1. /\ Recompute(g)[t].attempts = g[t].attempts
        /\ Recompute(g)[t].state \in Recomputable
    BY <1>1, <1>2 DEF Recompute, Recomputable, Node
  <2> QED BY <1>1, <1>2, <2>1 DEF Leads, Recomputable
<1>3. CASE g[t].state \notin Recomputable
  BY <1>3 DEF Recompute
<1> QED BY <1>2, <1>3

(* A transition appends one event and changes one node. *)
LEMMA TransitionLogs ==
    ASSUME TypeOK, NEW t \in Task, NEW node, NEW kind, NEW num,
           Transition(t, node, kind, num)
    PROVE  /\ mem'[t] = node
           /\ logged'[t] = ReplayEvent(logged[t], kind, num)
           /\ \A u \in Task \ {t} : mem'[u] = mem[u] /\ logged'[u] = logged[u]
BY DEF Transition, LogEvent, TypeOK, Graph

(* What replaying an event leaves in a node, for what the log is compared by. *)
LEMMA ReplayReads ==
    ASSUME NEW n \in Node, NEW num \in Nat
    PROVE  /\ ReplayEvent(n, "task_claimed", num).state = "claimed"
           /\ ReplayEvent(n, "task_claimed", num).attempts = n.attempts
           /\ ReplayEvent(n, "task_verified", num).state = "verified"
           /\ ReplayEvent(n, "task_verified", num).attempts = n.attempts
           /\ ReplayEvent(n, "task_verified", num).proof = num
           /\ ReplayEvent(n, "task_rejected", num).state = "rejected"
           /\ ReplayEvent(n, "task_rejected", num).attempts = num
           /\ ReplayEvent(n, "task_escalated", num).state = "escalated"
           /\ ReplayEvent(n, "task_escalated", num).attempts = n.attempts
BY DEF ReplayEvent, Node

LEMMA LogInit == Init => LogInv
<1> SUFFICES ASSUME Init PROVE LogInv
  OBVIOUS
<1>1. \A t \in Task : /\ disk[t].state \in Recomputable /\ logged[t] = disk[t]
                      /\ disk[t].attempts = 0
  BY DEF Init, PlanDefinition, PristineNode, Recompute, Recomputable
<1> QED BY <1>1 DEF Init, LogInv, Leads, Recomputable, WorkPlaces, TurnPlaces, ClaimPlaces

(* A transition keeps the log ahead of both graphs, if the event it appends  *)
(* leads the node as it was and as it becomes.                             *)
LEMMA TransitionKeepsLog ==
    ASSUME TypeInv, AgreeInv, LogInv, pc \in WorkPlaces, cur \in Task,
           NEW node, NEW kind, NEW num,
           Transition(cur, node, kind, num), UNCHANGED <<disk, cur>>,
           Leads(disk[cur], ReplayEvent(logged[cur], kind, num)),
           Leads(node, ReplayEvent(logged[cur], kind, num))
    PROVE  /\ \A t \in Task : Leads(disk'[t], logged'[t])
           /\ \A t \in Task : Leads(mem'[t], logged'[t])
<1>1. TypeOK
  BY DEF TypeInv
<1>2. /\ mem'[cur] = node
      /\ logged'[cur] = ReplayEvent(logged[cur], kind, num)
      /\ \A u \in Task \ {cur} : mem'[u] = mem[u] /\ logged'[u] = logged[u]
  BY <1>1, TransitionLogs
<1>3. \A u \in Task : Leads(disk[u], logged[u]) /\ Leads(mem[u], logged[u])
  BY DEF LogInv
<1>4. ASSUME NEW u \in Task
      PROVE  Leads(disk'[u], logged'[u]) /\ Leads(mem'[u], logged'[u])
  <2>1. CASE u = cur
    BY <1>2, <2>1
  <2>2. CASE u # cur
    BY <1>2, <1>3, <2>2
  <2> QED BY <2>1, <2>2
<1> QED BY <1>4

(* Inside a turn, once its claim is on disk. *)
LEMMA TurnAgrees ==
    ASSUME TypeInv, AgreeInv, LogInv, pc \in {"judge", "pass", "fail", "decide"}
    PROVE  /\ cur \in Task
           /\ mem[cur] \in Node /\ disk[cur] \in Node /\ logged[cur] \in Node
           /\ mem[cur].state = IF pc = "decide" THEN "rejected" ELSE "claimed"
           /\ disk[cur].state = mem[cur].state
           /\ disk[cur].attempts = mem[cur].attempts
           /\ logged[cur].state = mem[cur].state
           /\ logged[cur].attempts = mem[cur].attempts
<1>1. cur \in Task
  BY DEF TypeInv, TurnPlaces
<1>2. mem[cur] \in Node /\ disk[cur] \in Node /\ logged[cur] \in Node
  BY <1>1 DEF TypeInv, TypeOK, Graph
<1>3. mem[cur].state = IF pc = "decide" THEN "rejected" ELSE "claimed"
  BY DEF AgreeInv
<1>4. Same(mem[cur], disk[cur])
  BY <1>1 DEF AgreeInv, WorkPlaces, TurnPlaces, PersistPlaces
<1>5. disk[cur].state = mem[cur].state /\ disk[cur].attempts = mem[cur].attempts
  BY <1>2, <1>3, <1>4, SameVerified DEF Recomputable
<1>6. logged[cur].state = mem[cur].state
  BY <1>3 DEF LogInv, ClaimPlaces
<1>7. Leads(disk[cur], logged[cur])
  BY <1>1 DEF LogInv
<1>8. logged[cur].attempts = mem[cur].attempts
  BY <1>2, <1>3, <1>5, <1>6, <1>7 DEF Leads, Node
<1> QED BY <1>1, <1>2, <1>3, <1>5, <1>6, <1>8

LEMMA ClaimKeepsLog ==
    ASSUME TypeInv, AgreeInv, LogInv, NEW t \in Task, ClaimTask(t)
    PROVE  LogInv'
<1> DEFINE g == Recompute(mem)
           l == ReplayEvent(logged[t], "task_claimed", 0)
<1>1. mem \in Graph /\ disk \in Graph /\ logged \in Graph /\ g \in Graph
  BY RecomputeType DEF TypeInv, TypeOK
<1>2. disk' = disk /\ cur' = t /\ pc' = "persist_claimed"
  BY DEF ClaimTask, Goto
<1>3. mem' = [g EXCEPT ![t] = ClaimNode(g[t], HeadCommit)]
      /\ logged' = [logged EXCEPT ![t] = l]
  BY DEF ClaimTask, LogEvent
<1>4. \A u \in Task : Leads(disk[u], logged[u]) /\ Leads(mem[u], logged[u])
  BY DEF ClaimTask, LogInv, WorkPlaces
<1>5. \A u \in Task : Leads(g[u], logged[u])
  BY <1>1, <1>4, RecomputeLeads DEF Graph
<1> HIDE DEF g
<1>6. \A u \in Task \ {t} : mem'[u] = g[u] /\ logged'[u] = logged[u]
  BY <1>1, <1>3 DEF Graph
<1>7. logged'[t] = l /\ l.state = "claimed" /\ l.attempts = logged[t].attempts
  BY <1>1, <1>3, ReplayReads DEF Graph
<1>8. /\ disk[t].state \in Recomputable \cup {"rejected"}
      /\ mem'[t].state = "claimed" /\ mem'[t].attempts = disk[t].attempts
  BY ClaimSame
<1>9. l.attempts = disk[t].attempts
  <2>1. disk[t] \in Node /\ logged[t] \in Node
    BY <1>1 DEF Graph
  <2> QED BY <1>4, <1>7, <1>8, <2>1 DEF Leads, Recomputable, Node
<1>10. Leads(disk[t], l) /\ Leads(mem'[t], l)
  <2>1. disk[t] \in Node
    BY <1>1 DEF Graph
  <2> QED BY <1>7, <1>8, <1>9, <2>1 DEF Leads, Recomputable, Node
<1>11. \A u \in Task : Leads(disk'[u], logged'[u]) /\ Leads(mem'[u], logged'[u])
  <2> TAKE u \in Task
  <2>1. CASE u = t
    BY <1>2, <1>7, <1>10, <2>1
  <2>2. CASE u # t
    BY <1>2, <1>4, <1>5, <1>6, <2>2
  <2> QED BY <2>1, <2>2
<1>12. logged'[cur'].state = "claimed"
  BY <1>2, <1>7
<1> QED BY <1>2, <1>11, <1>12 DEF LogInv

LEMMA LogStep ==
    ASSUME TypeInv, AgreeInv, LogInv, [Next]_vars
    PROVE  LogInv'
<1>typ. TypeOK
  BY DEF TypeInv
<1>1. CASE UNCHANGED <<disk, logged, mem, cur>> /\ QuietMove
  BY <1>1 DEF LogInv, QuietMove, WorkPlaces, TurnPlaces, PersistPlaces, ClaimPlaces
<1>2. CASE StartRun
  BY <1>2 DEF StartRun, Goto, LogInv, WorkPlaces, TurnPlaces, ClaimPlaces
<1>3. CASE DrainQueue \/ ReleaseRunLock \/ Crash
  BY <1>3 DEF DrainQueue, ReleaseRunLock, Crash, Goto, Finish, diskVars, LogInv,
              WorkPlaces, TurnPlaces, ClaimPlaces
<1>4. ASSUME NEW t \in Task, ClaimTask(t) PROVE LogInv'
  BY <1>4, ClaimKeepsLog
<1>5. CASE Persist
  <2>1. UNCHANGED <<logged, mem, cur>> /\ disk' = mem
    BY <1>5 DEF Persist, SaveGraph
  <2>2. pc \in PersistPlaces /\ pc' = AfterPersist[pc]
    BY <1>5 DEF Persist, AfterPersist, PersistPlaces, Goto
  <2>3. \A t \in Task : Leads(mem[t], logged[t])
    BY <2>2 DEF LogInv, WorkPlaces, TurnPlaces, PersistPlaces
  <2>4. \/ pc = "persist_claimed" /\ pc' = "prompt"
        \/ pc = "persist_verified" /\ pc' = "commit"
        \/ pc = "persist_rejected" /\ pc' = "decide"
        \/ pc = "persist_escalated" /\ pc' = "finish"
    BY <2>2 DEF AfterPersist, PersistPlaces
  <2> QED BY <2>1, <2>3, <2>4 DEF LogInv, ClaimPlaces
<1>6. CASE EscalateHonest
  <2> DEFINE node == EscalateNode(mem[cur], "blocker")
  <2>1. pc = "judge" /\ UNCHANGED <<disk, cur>> /\ pc' = "persist_escalated"
        /\ Transition(cur, node, "task_escalated", 0)
    BY <1>6 DEF EscalateHonest, Goto
  <2>2. node.state = "escalated" /\ node.attempts = mem[cur].attempts
    BY <2>1, TurnAgrees DEF EscalateNode, Node
  <2>3. /\ Leads(disk[cur], ReplayEvent(logged[cur], "task_escalated", 0))
        /\ Leads(node, ReplayEvent(logged[cur], "task_escalated", 0))
    <3> DEFINE l == ReplayEvent(logged[cur], "task_escalated", 0)
    <3>1. l.state = "escalated" /\ l.attempts = disk[cur].attempts
      BY <2>1, TurnAgrees, ReplayReads
    <3>2. /\ disk[cur].state \in {"claimed", "rejected"}
          /\ disk[cur].attempts \in Nat /\ mem[cur].attempts = disk[cur].attempts
      BY <2>1, TurnAgrees DEF Node
    <3> HIDE DEF l, node
    <3>3. Leads(disk[cur], l) /\ Leads(node, l)
      BY <2>2, <3>1, <3>2 DEF Leads, Recomputable
    <3> QED BY <3>3 DEF l
  <2>4. pc \in WorkPlaces /\ cur \in Task
    BY <2>1, TurnAgrees DEF WorkPlaces, TurnPlaces
  <2> HIDE DEF node
  <2> QED BY <2>1, <2>3, <2>4, TransitionKeepsLog DEF LogInv, ClaimPlaces
<1>7. CASE EscalateExhausted
  <2> DEFINE node == EscalateNode(mem[cur], "attempts_exhausted")
  <2>1. pc = "decide" /\ UNCHANGED <<disk, cur>> /\ pc' = "persist_escalated"
        /\ Transition(cur, node, "task_escalated", 0)
    BY <1>7 DEF EscalateExhausted, Goto
  <2>2. node.state = "escalated" /\ node.attempts = mem[cur].attempts
    BY <2>1, TurnAgrees DEF EscalateNode, Node
  <2>3. /\ Leads(disk[cur], ReplayEvent(logged[cur], "task_escalated", 0))
        /\ Leads(node, ReplayEvent(logged[cur], "task_escalated", 0))
    <3> DEFINE l == ReplayEvent(logged[cur], "task_escalated", 0)
    <3>1. l.state = "escalated" /\ l.attempts = disk[cur].attempts
      BY <2>1, TurnAgrees, ReplayReads
    <3>2. /\ disk[cur].state \in {"claimed", "rejected"}
          /\ disk[cur].attempts \in Nat /\ mem[cur].attempts = disk[cur].attempts
      BY <2>1, TurnAgrees DEF Node
    <3> HIDE DEF l, node
    <3>3. Leads(disk[cur], l) /\ Leads(node, l)
      BY <2>2, <3>1, <3>2 DEF Leads, Recomputable
    <3> QED BY <3>3 DEF l
  <2>4. pc \in WorkPlaces /\ cur \in Task
    BY <2>1, TurnAgrees DEF WorkPlaces, TurnPlaces
  <2> HIDE DEF node
  <2> QED BY <2>1, <2>3, <2>4, TransitionKeepsLog DEF LogInv, ClaimPlaces
<1>8. CASE MarkVerified
  <2> DEFINE proof == mem[cur].attempts + 1
             node == VerifyNode(mem[cur], proof)
  <2>1. pc = "pass" /\ UNCHANGED <<disk, cur>> /\ pc' = "persist_verified"
        /\ Transition(cur, node, "task_verified", proof)
    BY <1>8 DEF MarkVerified, Goto
  <2>2. /\ node.state = "verified" /\ node.attempts = mem[cur].attempts
        /\ node.proof = proof /\ proof \in Nat
    BY <2>1, TurnAgrees DEF VerifyNode, Node
  <2> HIDE DEF node, proof
  <2>3. /\ Leads(disk[cur], ReplayEvent(logged[cur], "task_verified", proof))
        /\ Leads(node, ReplayEvent(logged[cur], "task_verified", proof))
    <3> DEFINE l == ReplayEvent(logged[cur], "task_verified", proof)
    <3>1. l.state = "verified" /\ l.attempts = disk[cur].attempts /\ l.proof = proof
      BY <2>1, <2>2, TurnAgrees, ReplayReads
    <3>2. /\ disk[cur].state = "claimed" /\ disk[cur].attempts \in Nat
          /\ node.attempts \in Nat /\ mem[cur].attempts = disk[cur].attempts
      BY <2>1, <2>2, TurnAgrees DEF Node
    <3> HIDE DEF l
    <3>3. Leads(disk[cur], l) /\ Leads(node, l)
      BY <2>2, <3>1, <3>2 DEF Leads, Recomputable
    <3> QED BY <3>3 DEF l
  <2>4. pc \in WorkPlaces /\ cur \in Task
    BY <2>1, TurnAgrees DEF WorkPlaces, TurnPlaces
  <2> QED BY <2>1, <2>3, <2>4, TransitionKeepsLog DEF LogInv, ClaimPlaces
<1>9. CASE RejectTask
  <2> DEFINE num == mem[cur].attempts + 1
             node == RejectNode(mem[cur])
  <2>1. pc = "fail" /\ UNCHANGED <<disk, cur>> /\ pc' = "persist_rejected"
        /\ Transition(cur, node, "task_rejected", num)
    BY <1>9 DEF RejectTask, Goto
  <2>2. /\ node.state = "rejected" /\ node.attempts = num
        /\ num = disk[cur].attempts + 1 /\ num \in Nat
    BY <2>1, TurnAgrees DEF RejectNode, Node
  <2> HIDE DEF node, num
  <2>3. /\ Leads(disk[cur], ReplayEvent(logged[cur], "task_rejected", num))
        /\ Leads(node, ReplayEvent(logged[cur], "task_rejected", num))
    <3> DEFINE l == ReplayEvent(logged[cur], "task_rejected", num)
    <3>1. l.state = "rejected" /\ l.attempts = num
      BY <2>1, <2>2, TurnAgrees, ReplayReads
    <3>2. /\ disk[cur].state = "claimed" /\ disk[cur].attempts \in Nat
          /\ node.attempts \in Nat /\ mem[cur].attempts = disk[cur].attempts
      BY <2>1, <2>2, TurnAgrees DEF Node
    <3> HIDE DEF l
    <3>3. Leads(disk[cur], l) /\ Leads(node, l)
      BY <2>2, <3>1, <3>2 DEF Leads, Recomputable
    <3> QED BY <3>3 DEF l
  <2>4. pc \in WorkPlaces /\ cur \in Task
    BY <2>1, TurnAgrees DEF WorkPlaces, TurnPlaces
  <2>5. logged'[cur'].state = "rejected"
    BY <1>typ, <2>1, <2>2, <2>4, TurnAgrees, TransitionLogs, ReplayReads
  <2> QED BY <2>1, <2>3, <2>4, <2>5, TransitionKeepsLog DEF LogInv, ClaimPlaces
<1> QED
  BY <1>1, <1>2, <1>3, <1>4, <1>5, <1>6, <1>7, <1>8, <1>9, QuietStep

LEMMA LogInvariant == Spec => [](TypeInv /\ AgreeInv /\ LogInv)
<1>1. LogInv /\ TypeInv /\ AgreeInv /\ [Next]_vars => LogInv'
  BY LogStep
<1> QED BY <1>1, AgreeInvariant, LogInit, PTL DEF Spec

(* The log accounts for everything the projection says, in every state of  *)
(* any number of runs, kills and restarts (_commit_transition).            *)
THEOREM LogNeverBehind == Spec => []ProjectionIsLogged
<1>1. ASSUME TypeInv, LogInv PROVE ProjectionIsLogged
  <2> SUFFICES ASSUME NEW t \in Task
               PROVE  /\ disk[t].attempts <= logged[t].attempts
                      /\ disk[t].state = "claimed" => logged[t].state \notin Recomputable
                      /\ disk[t].state = "verified" =>
                             logged[t].state = "verified" /\ logged[t].proof = disk[t].proof
                      /\ disk[t].state = "rejected" =>
                             logged[t].state \in {"claimed", "rejected", "escalated"}
                      /\ disk[t].state = "escalated" => logged[t].state = "escalated"
    BY DEF ProjectionIsLogged
  <2>1. disk[t] \in Node /\ logged[t] \in Node /\ Leads(disk[t], logged[t])
    BY <1>1 DEF TypeInv, TypeOK, Graph, LogInv
  <2> QED BY <2>1 DEF Leads, Node
<1>2. TypeInv /\ LogInv => ProjectionIsLogged
  BY <1>1
<1> QED BY <1>2, LogInvariant, PTL

(* The loop discards only the writes of a task it will dispatch again: by  *)
(* the log still claimed, or rejected with an attempt left (_revert_tree). *)
THEOREM KeepsEvidence == Spec => EvidenceIsKept
<1>1. ASSUME TypeInv, AgreeInv, LogInv, [Next]_vars,
             dirt' # dirt, dirt' = {}, Live, history' = history
      PROVE  \/ logged[cur].state = "claimed"
             \/ /\ logged[cur].state = "rejected"
                /\ logged[cur].attempts < MaxAttempts[cur]
  <2>1. CASE RevertForRetry
    BY <1>1, <2>1 DEF RevertForRetry, LogInv, ClaimPlaces
  <2>2. CASE RevertForNextAttempt
    <3>1. pc = "decide" /\ mem[cur].attempts < MaxAttempts[cur]
      BY <2>2 DEF RevertForNextAttempt
    <3> QED BY <1>1, <3>1, TurnAgrees
  <2>3. ~CommitVerified
    <3> SUFFICES ASSUME CommitVerified PROVE FALSE
      OBVIOUS
    <3>1. history' = Append(history, [task |-> cur, writes |-> dirt])
      BY DEF CommitVerified, CommitTree
    <3>2. history \in Seq(Commit) /\ [task |-> cur, writes |-> dirt] \in Commit
      BY <1>1 DEF TypeInv, TypeOK, CommitVerified, TurnPlaces, Commit, Author
    <3>3. Len(history') = Len(history) + 1 /\ Len(history) \in Nat
      BY <3>1, <3>2, AppendProperties, LenProperties
    <3> QED BY <1>1, <3>3
  <2>4. ~UserTidies /\ ~UserEdits
    BY <1>1 DEF UserTidies, UserEdits, Live
  <2>5. ASSUME NEW o \in TurnOutcomes PROVE ~TurnReturns(o)
    BY <1>1 DEF TurnReturns, AgentWrites
  <2>6. ~TurnUnparseable /\ ~RunnerRaises
    BY <1>1 DEF TurnUnparseable, RunnerRaises, AgentWrites
  <2>7. CASE ~RevertForRetry /\ ~RevertForNextAttempt
    BY <1>1, <2>3, <2>4, <2>5, <2>6, <2>7 DEF Next, Engine, Environment, vars, diskVars,
       RefuseDirtyStart, StartRun, StopAtBoundary, BudgetAtBoundary, PassBoundary,
       DrainQueue, RefuseDirtyClaim, ClaimTask, Persist, WritePrompt, AnnouncePrompt,
       EscalateHonest, Judge, MarkVerified, RejectTask, EscalateExhausted, EndRun,
       ReleaseRunLock, AcquireRunLock, Unwind, Crash, UserRemovesLock, RequestStop,
       ClearStop
  <2> QED BY <2>1, <2>2, <2>7
<1>2. TypeInv /\ AgreeInv /\ LogInv /\ [Next]_vars =>
          ((dirt' # dirt /\ dirt' = {} /\ Live /\ history' = history) =>
               \/ logged[cur].state = "claimed"
               \/ /\ logged[cur].state = "rejected"
                  /\ logged[cur].attempts < MaxAttempts[cur])
  BY <1>1
<1> QED BY <1>2, LogInvariant, PTL DEF EvidenceIsKept, Spec

-----------------------------------------------------------------------------
(* What a verdict costs.  From the write of the claim on, the projection   *)
(* holds HEAD as the task's baseline; a verdict is only ever given on a turn *)
(* that claimed completion; and the diff it was given on is still the dirty  *)
(* tree when the rejection is written.                                     *)

VerdictInv ==
    /\ pc \in {"prompt", "announce", "dispatch", "retry", "judge", "pass", "fail",
               "persist_verified", "persist_rejected"} => disk[cur].claim = HeadCommit
    /\ pc \in {"pass", "fail", "persist_verified", "persist_rejected"} =>
           outcome = "completed"
    /\ ~EditsInTurn /\ pc \in {"fail", "persist_rejected"} => judged = dirt

LEMMA PersistMoves ==
    ASSUME Persist
    PROVE  /\ disk' = mem
           /\ UNCHANGED <<logged, history, dirt, mem, cur, outcome, why, judged, faults>>
           /\ \/ pc = "persist_claimed" /\ pc' = "prompt"
              \/ pc = "persist_verified" /\ pc' = "commit"
              \/ pc = "persist_rejected" /\ pc' = "decide"
              \/ pc = "persist_escalated" /\ pc' = "finish"
BY DEF Persist, SaveGraph, Goto, AfterPersist, seenVars, boundVars

LEMMA VerdictStep ==
    ASSUME TypeInv, VerdictInv, [Next]_vars
    PROVE  VerdictInv'
<1> USE DEF VerdictInv, Goto, Finish, HeadCommit
<1>typ. TypeOK
  BY DEF TypeInv
<1>0. CASE UNCHANGED vars
  BY <1>0 DEF vars, diskVars, procVars, seenVars
<1>1. CASE RefuseDirtyStart \/ StartRun \/ StopAtBoundary \/ BudgetAtBoundary
           \/ PassBoundary \/ DrainQueue \/ RefuseDirtyClaim
  BY <1>1 DEF RefuseDirtyStart, StartRun, StopAtBoundary, BudgetAtBoundary,
              PassBoundary, DrainQueue, RefuseDirtyClaim
<1>2. ASSUME NEW t \in Task, ClaimTask(t) PROVE VerdictInv'
  BY <1>2 DEF ClaimTask
<1>3. CASE Persist
  <2>1. pc = "persist_claimed" => mem[cur].claim = Len(history)
    BY DEF TypeInv, ClaimPlaces
  <2> QED BY <1>3, <2>1, PersistMoves
<1>4. CASE WritePrompt \/ AnnouncePrompt
  BY <1>4 DEF WritePrompt, AnnouncePrompt, diskVars, seenVars
<1>5. ASSUME NEW o \in TurnOutcomes, TurnReturns(o) PROVE VerdictInv'
  BY <1>5 DEF TurnReturns
<1>6. CASE TurnUnparseable \/ RunnerRaises \/ RevertForRetry
  BY <1>6 DEF TurnUnparseable, RunnerRaises, RevertForRetry
<1>7. CASE EscalateHonest \/ EscalateExhausted \/ RevertForNextAttempt
  BY <1>7 DEF EscalateHonest, EscalateExhausted, RevertForNextAttempt
<1>8. ASSUME NEW v \in {"pass", "fail"}, Judge(v) PROVE VerdictInv'
  <2>1. judged' = dirt
    BY <1>8, <1>typ, DiffAtHead DEF Judge, KeepProof, TypeInv, ClaimPlaces
  <2> QED BY <1>8, <2>1 DEF Judge, diskVars
<1>9. CASE MarkVerified \/ RejectTask
  BY <1>9 DEF MarkVerified, RejectTask, seenVars
<1>10. CASE CommitVerified \/ EndRun \/ ReleaseRunLock
  BY <1>10 DEF CommitVerified, EndRun, ReleaseRunLock
<1>11. CASE AcquireRunLock \/ Unwind \/ Crash
  BY <1>11 DEF AcquireRunLock, Unwind, Crash
<1>12. CASE UserEdits
  BY <1>12 DEF UserEdits, procVars, seenVars, TurnPlaces
<1>13. CASE UserTidies
  BY <1>13 DEF UserTidies, procVars
<1>14. CASE UserRemovesLock \/ RequestStop \/ ClearStop
  BY <1>14 DEF UserRemovesLock, RequestStop, ClearStop, procVars, seenVars
<1> HIDE DEF VerdictInv, Goto, Finish, HeadCommit
<1> QED
  BY <1>0, <1>1, <1>2, <1>3, <1>4, <1>5, <1>6, <1>7, <1>8, <1>9, <1>10, <1>11,
     <1>12, <1>13, <1>14
  DEF Next, Engine, Environment

LEMMA VerdictInvariant == Spec => [](TypeInv /\ AgreeInv /\ VerdictInv)
<1>1. Init => VerdictInv
  BY DEF Init, VerdictInv
<1>2. TypeInv /\ VerdictInv /\ [Next]_vars => VerdictInv'
  BY VerdictStep
<1> QED BY <1>1, <1>2, AgreeInvariant, PTL DEF Spec

(* The attempts on disk change only by the write of a rejection. *)
LEMMA OnlyRejectionsCount ==
    ASSUME TypeInv, AgreeInv, [Next]_vars, NEW t \in Task,
           disk'[t].attempts # disk[t].attempts
    PROVE  /\ t = cur /\ pc = "persist_rejected"
           /\ disk'[t].attempts = disk[t].attempts + 1
<1>1. Persist
  BY DiskStep
<1>2. t = cur
  BY <1>1, PersistIsOneTransition DEF Same
<1>3. disk' = mem /\ disk'[cur].state = "rejected"
      /\ disk'[cur].attempts = disk[cur].attempts + 1
  BY <1>1, <1>2, PersistIsOneTransition
<1>4. pc \in PersistPlaces
  BY <1>1 DEF Persist, AfterPersist, PersistPlaces
<1>5. pc = "persist_rejected"
  BY <1>3, <1>4 DEF AgreeInv, PersistPlaces
<1> QED BY <1>2, <1>3, <1>5

(* Honesty is free: only a verdict on a turn that claimed completion costs *)
(* an attempt, and it costs one.                                           *)
OnlyVerdictsCost ==
    [][\A t \in Task : disk'[t].attempts # disk[t].attempts =>
           /\ t = cur /\ outcome = "completed"
           /\ disk'[t].attempts = disk[t].attempts + 1]_vars

(* Whoever writes to the tree, and whenever: blocked, scope_insufficient,  *)
(* an unparseable result, a kill or an exception never cost an attempt.    *)
THEOREM HonestExitsAreFree == Spec => OnlyVerdictsCost
<1>1. TypeInv /\ AgreeInv /\ VerdictInv /\ [Next]_vars =>
          (\A t \in Task : disk'[t].attempts # disk[t].attempts =>
               /\ t = cur /\ outcome = "completed"
               /\ disk'[t].attempts = disk[t].attempts + 1)
  BY OnlyRejectionsCount DEF VerdictInv
<1> QED BY <1>1, VerdictInvariant, PTL DEF OnlyVerdictsCost, Spec

(* And what an attempt is charged for is what the gates saw.               *)
THEOREM ChargesWhatWasJudged ==
    ASSUME ~EditsInTurn
    PROVE  Spec => HonestyIsFree
<1>1. ASSUME TypeInv, AgreeInv, VerdictInv, [Next]_vars,
             NEW t \in Task, disk'[t].attempts # disk[t].attempts
      PROVE  /\ t = cur /\ outcome = "completed"
             /\ judged = DiffSince(disk[t].claim)
             /\ disk'[t].attempts = disk[t].attempts + 1
  <2>1. t = cur /\ pc = "persist_rejected" /\ disk'[t].attempts = disk[t].attempts + 1
    BY <1>1, OnlyRejectionsCount
  <2>2. outcome = "completed" /\ judged = dirt /\ disk[cur].claim = HeadCommit
    BY <1>1, <2>1 DEF VerdictInv
  <2>3. DiffSince(HeadCommit) = dirt
    BY <1>1, DiffAtHead DEF TypeInv
  <2> QED BY <2>1, <2>2, <2>3
<1>2. TypeInv /\ AgreeInv /\ VerdictInv /\ [Next]_vars =>
          (\A t \in Task : disk'[t].attempts # disk[t].attempts =>
               /\ t = cur /\ outcome = "completed"
               /\ judged = DiffSince(disk[t].claim)
               /\ disk'[t].attempts = disk[t].attempts + 1)
  BY <1>1
<1> QED BY <1>2, VerdictInvariant, PTL DEF HonestyIsFree, Spec

-----------------------------------------------------------------------------
(* Commits.  Every commit of a task is below its verified node on disk, for  *)
(* good; so where a commit is due the task has none yet, and no task is    *)
(* committed twice.                                                        *)

CommitInv ==
    /\ \A i \in 1 .. HeadCommit :
           history[i].task \in Task => disk[history[i].task].state = "verified"
    /\ \A i, j \in 1 .. HeadCommit :
           history[i].task \in Task /\ history[i].task = history[j].task => i = j
    /\ pc = "commit" =>
           /\ disk[cur].state = "verified" /\ logged[cur].state = "verified"
           /\ CommitsOf(cur) = {}

(* A commit adds itself to the commits of its task and leaves the others.  *)
LEMMA OneMoreCommit ==
    ASSUME TypeOK, NEW c \in Commit, history' = Append(history, c), NEW t
    PROVE  /\ c.task # t => CommitsOf(t)' = CommitsOf(t)
           /\ c.task = t => CommitsOf(t)' = CommitsOf(t) \cup {HeadCommit + 1}
           /\ HeadCommit' = HeadCommit + 1 /\ HeadCommit \in Nat
           /\ history'[HeadCommit + 1] = c
           /\ \A i \in 1 .. HeadCommit : history'[i] = history[i]
<1>1. /\ HeadCommit' = HeadCommit + 1 /\ HeadCommit \in Nat
      /\ history'[HeadCommit + 1] = c
      /\ \A i \in 1 .. HeadCommit : history'[i] = history[i]
  BY AppendProperties, LenProperties DEF TypeOK, HeadCommit
<1>2. 1 .. (HeadCommit + 1) = (1 .. HeadCommit) \cup {HeadCommit + 1}
  BY <1>1
<1>3. CommitsOf(t)' = {i \in 1 .. (HeadCommit + 1) : history'[i].task = t}
  BY <1>1 DEF CommitsOf
<1> QED BY <1>1, <1>2, <1>3 DEF CommitsOf

(* Every step but these leaves the projection and the commits alone, and a   *)
(* commit that is due stays due unless a fault ends the run.               *)
LEMMA OtherSteps ==
    ASSUME [Next]_vars, TypeInv, ~Persist, ~CommitVerified, ~UserTidies
    PROVE  /\ disk' = disk /\ history' = history
           /\ pc' = "commit" => pc = "commit" /\ UNCHANGED <<cur, logged>>
           /\ pc = "commit" => pc' = "commit" \/ faults' = faults + 1
           /\ faults' = faults \/ faults' = faults + 1
<1> USE DEF Goto, Finish, diskVars, boundVars
<1>1. CASE UNCHANGED vars
  BY <1>1 DEF vars, procVars
<1>2. CASE RefuseDirtyStart \/ StartRun \/ StopAtBoundary \/ BudgetAtBoundary
           \/ PassBoundary \/ DrainQueue \/ RefuseDirtyClaim
  BY <1>2 DEF RefuseDirtyStart, StartRun, StopAtBoundary, BudgetAtBoundary,
              PassBoundary, DrainQueue, RefuseDirtyClaim
<1>3. ASSUME NEW t \in Task, ClaimTask(t)
      PROVE  /\ UNCHANGED <<disk, history, faults>>
             /\ pc # "commit" /\ pc' # "commit"
  BY <1>3 DEF ClaimTask
<1>4. CASE WritePrompt \/ AnnouncePrompt \/ TurnUnparseable \/ RunnerRaises
           \/ RevertForRetry
  BY <1>4 DEF WritePrompt, AnnouncePrompt, TurnUnparseable, RunnerRaises, RevertForRetry
<1>5. ASSUME NEW o \in TurnOutcomes, TurnReturns(o)
      PROVE  /\ UNCHANGED <<disk, history, faults>>
             /\ pc # "commit" /\ pc' # "commit"
  BY <1>5 DEF TurnReturns
<1>6. ASSUME NEW v \in {"pass", "fail"}, Judge(v)
      PROVE  /\ UNCHANGED <<disk, history, faults>>
             /\ pc # "commit" /\ pc' # "commit"
  BY <1>6 DEF Judge
<1>7. CASE EscalateHonest \/ EscalateExhausted \/ MarkVerified \/ RejectTask
           \/ RevertForNextAttempt
  BY <1>7 DEF EscalateHonest, EscalateExhausted, MarkVerified, RejectTask,
              RevertForNextAttempt
<1>8. CASE EndRun \/ ReleaseRunLock
  BY <1>8 DEF EndRun, ReleaseRunLock
<1>9. CASE AcquireRunLock
  BY <1>9 DEF AcquireRunLock
<1>10. CASE Unwind \/ Crash
  BY <1>10 DEF Unwind, Crash
<1>11. CASE UserEdits \/ UserRemovesLock \/ RequestStop \/ ClearStop
  BY <1>11 DEF UserEdits, UserRemovesLock, RequestStop, ClearStop, procVars
<1> HIDE DEF Goto, Finish, diskVars, boundVars
<1> QED
  BY <1>1, <1>2, <1>3, <1>4, <1>5, <1>6, <1>7, <1>8, <1>9, <1>10, <1>11
  DEF Next, Engine, Environment

(* What a write of the projection does to verified nodes. *)
LEMMA PersistKeepsVerified ==
    ASSUME TypeInv, AgreeInv, Persist
    PROVE  /\ cur \in Task /\ disk[cur].state # "verified"
           /\ \A t \in Task \ {cur} : disk'[t].state = "verified" <=> disk[t].state = "verified"
           /\ \A t \in Task : disk[t].state = "verified" => disk'[t].state = "verified"
           /\ disk'[cur].state = "verified" <=> pc = "persist_verified"
<1>1. cur \in Task /\ disk[cur].state # "verified"
  BY PersistIsOneTransition DEF Recomputable
<1>2. ASSUME NEW t \in Task \ {cur}
      PROVE  disk'[t].state = "verified" <=> disk[t].state = "verified"
  <2>1. disk'[t] \in Node /\ disk[t] \in Node /\ Same(disk'[t], disk[t])
    BY PersistIsOneTransition DEF TypeInv, TypeOK, Graph
  <2> QED BY <2>1, SameVerified DEF Recomputable
<1>3. disk'[cur].state = "verified" <=> pc = "persist_verified"
  BY PersistMoves DEF AgreeInv
<1> QED BY <1>1, <1>2, <1>3

LEMMA CommitStep ==
    ASSUME TypeInv, TypeInv', AgreeInv, LogInv, CommitInv, [Next]_vars
    PROVE  CommitInv'
<1>typ. TypeOK
  BY DEF TypeInv
<1>1. CASE Persist
  <2>1. history' = history /\ cur' = cur /\ logged' = logged /\ disk' = mem
    BY <1>1, PersistMoves
  <2>2. ASSUME NEW i \in 1 .. HeadCommit, history[i].task \in Task
        PROVE  disk'[history[i].task].state = "verified"
    BY <1>1, <2>2, PersistKeepsVerified DEF CommitInv
  <2>3. ASSUME pc' = "commit"
        PROVE  /\ disk'[cur].state = "verified" /\ logged[cur].state = "verified"
               /\ CommitsOf(cur) = {}
    <3>1. pc = "persist_verified"
      BY <1>1, <2>3, PersistMoves
    <3>2. cur \in Task /\ disk'[cur].state = "verified" /\ disk[cur].state # "verified"
      BY <1>1, <3>1, PersistKeepsVerified
    <3>3. logged[cur].state = "verified"
      BY <2>1, <3>1, <3>2 DEF LogInv, Leads, WorkPlaces, TurnPlaces
    <3>4. \A i \in 1 .. HeadCommit : history[i].task # cur
      BY <3>2 DEF CommitInv
    <3> QED BY <3>2, <3>3, <3>4 DEF CommitsOf
  <2> QED BY <2>1, <2>2, <2>3 DEF CommitInv, CommitsOf, HeadCommit
<1>2. ASSUME NEW c \in Commit, history' = Append(history, c), disk' = disk,
             c.task \in Task => disk[c.task].state = "verified" /\ CommitsOf(c.task) = {},
             pc' # "commit"
      PROVE  CommitInv'
  <2>1. /\ HeadCommit' = HeadCommit + 1 /\ HeadCommit \in Nat
        /\ history'[HeadCommit + 1] = c
        /\ \A i \in 1 .. HeadCommit : history'[i] = history[i]
    BY <1>typ, <1>2, OneMoreCommit
  <2>2. ASSUME NEW i \in 1 .. HeadCommit', history'[i].task \in Task
        PROVE  disk'[history'[i].task].state = "verified"
    <3>1. CASE i = HeadCommit + 1
      BY <1>2, <2>1, <2>2, <3>1
    <3>2. CASE i # HeadCommit + 1
      <4>1. i \in 1 .. HeadCommit
        BY <2>1, <2>2, <3>2
      <4> QED BY <1>2, <2>1, <2>2, <4>1 DEF CommitInv
    <3> QED BY <3>1, <3>2
  <2>3. ASSUME NEW i \in 1 .. HeadCommit', NEW j \in 1 .. HeadCommit',
               history'[i].task \in Task, history'[i].task = history'[j].task
        PROVE  i = j
    <3>1. CASE i \in 1 .. HeadCommit /\ j \in 1 .. HeadCommit
      BY <2>1, <2>3, <3>1 DEF CommitInv
    <3>2. CASE i = HeadCommit + 1 /\ j \in 1 .. HeadCommit
      BY <1>2, <2>1, <2>3, <3>2 DEF CommitsOf
    <3>3. CASE i \in 1 .. HeadCommit /\ j = HeadCommit + 1
      BY <1>2, <2>1, <2>3, <3>3 DEF CommitsOf
    <3> QED BY <2>1, <2>3, <3>1, <3>2, <3>3
  <2> QED BY <1>2, <2>2, <2>3 DEF CommitInv
<1>3. CASE CommitVerified
  <2>1. cur \in Task /\ disk[cur].state = "verified" /\ CommitsOf(cur) = {}
    BY <1>3 DEF CommitVerified, CommitInv, TypeInv, TurnPlaces
  <2>2. [task |-> cur, writes |-> dirt] \in Commit
    BY <1>typ, <2>1 DEF TypeOK, Commit, Author
  <2> QED BY <1>2, <1>3, <2>1, <2>2 DEF CommitVerified, CommitTree, Goto
<1>4. CASE UserTidies /\ history' # history
  <2>1. [task |-> User, writes |-> dirt] \in Commit
    BY <1>typ DEF TypeOK, Commit, Author
  <2> QED BY <1>2, <1>4, <2>1, EnvironmentAssumption DEF UserTidies, procVars
<1>5. CASE UserTidies /\ history' = history
  BY <1>5 DEF UserTidies, procVars, CommitInv, HeadCommit
<1>6. CASE ~Persist /\ ~CommitVerified /\ ~UserTidies
  BY <1>6, OtherSteps DEF CommitInv, CommitsOf, HeadCommit
<1> QED BY <1>1, <1>3, <1>4, <1>5, <1>6

LEMMA CommitInvariant == Spec => [](TypeInv /\ AgreeInv /\ LogInv /\ CommitInv)
<1>1. Init => CommitInv
  BY DEF Init, CommitInv, HeadCommit
<1>2. TypeInv /\ TypeInv' /\ AgreeInv /\ LogInv /\ CommitInv /\ [Next]_vars => CommitInv'
  BY CommitStep
<1> QED BY <1>1, <1>2, LogInvariant, PTL DEF Spec

(* What is committed for a task is what its gates saw, after its verdict is  *)
(* on disk and in the log, and once.                                       *)
THEOREM CommitsWhatWasJudged ==
    ASSUME ~EditsInTurn
    PROVE  Spec => CommitIsJudged
<1>1. ASSUME TypeInv, BaselineInv, CommitInv, [Next]_vars, Live, history' # history
      PROVE  /\ dirt = judged
             /\ disk[cur].state = "verified" /\ logged[cur].state = "verified"
             /\ CommitsOf(cur) = {}
  <2>1. CommitVerified
    BY <1>1, OtherSteps, PersistMoves DEF UserTidies, Live
  <2>2. pc = "commit"
    BY <2>1 DEF CommitVerified
  <2> QED BY <1>1, <2>2 DEF BaselineInv, CommitInv
<1>2. TypeInv /\ BaselineInv /\ CommitInv /\ [Next]_vars =>
          (Live /\ history' # history =>
               /\ dirt = judged
               /\ disk[cur].state = "verified" /\ logged[cur].state = "verified"
               /\ CommitsOf(cur) = {})
  BY <1>1
<1> QED BY <1>2, BaselineInvariant, CommitInvariant, PTL DEF CommitIsJudged, Spec

-----------------------------------------------------------------------------
(* What a fault can cost.  A kill or an exception between the verdict and  *)
(* what follows from it (escalation, commit) costs one attempt, or one     *)
(* commit: a task has none of its attempts left only where its escalation is *)
(* due, and the verified tasks nobody will commit are as many as the faults. *)

CostInv ==
    /\ \A t \in Task :
           \/ disk[t].attempts < MaxAttempts[t] + faults
           \/ /\ disk[t].attempts = MaxAttempts[t] + faults
              /\ \/ disk[t].state = "escalated"
                 \/ t = cur /\ pc \in {"decide", "persist_escalated"}
    /\ IsFiniteSet(Uncommitted)
    /\ UncommittedPerFault

(* Where an escalation may be due, it is decided: the loop stays with the  *)
(* task until it is written, unless an attempt is left or a fault ends it. *)
LEMMA DecideSteps ==
    ASSUME [Next]_vars, ~Persist, ~RevertForNextAttempt,
           pc \in {"decide", "persist_escalated"}
    PROVE  \/ pc' \in {"decide", "persist_escalated"} /\ cur' = cur
           \/ faults' = faults + 1
<1> USE DEF Goto, Finish
<1>1. CASE UNCHANGED vars
  BY <1>1 DEF vars, procVars
<1>2. CASE Engine
  BY <1>2 DEF Engine, RefuseDirtyStart, StartRun, StopAtBoundary, BudgetAtBoundary,
     PassBoundary, DrainQueue, RefuseDirtyClaim, ClaimTask, WritePrompt,
     AnnouncePrompt, TurnReturns, TurnUnparseable, RunnerRaises, RevertForRetry,
     EscalateHonest, Judge, MarkVerified, CommitVerified, RejectTask,
     EscalateExhausted, EndRun, ReleaseRunLock
<1>3. CASE Environment
  BY <1>3 DEF Environment, AcquireRunLock, Unwind, Crash, UserEdits, UserTidies,
     UserRemovesLock, RequestStop, ClearStop, procVars
<1> HIDE DEF Goto, Finish
<1> QED BY <1>1, <1>2, <1>3 DEF Next

LEMMA AttemptsStep ==
    ASSUME TypeInv, TypeInv', AgreeInv, LogInv, CostInv, [Next]_vars, NEW t \in Task
    PROVE  \/ disk'[t].attempts < MaxAttempts[t] + faults'
           \/ /\ disk'[t].attempts = MaxAttempts[t] + faults'
              /\ \/ disk'[t].state = "escalated"
                 \/ t = cur' /\ pc' \in {"decide", "persist_escalated"}
<1>1. /\ disk[t] \in Node /\ disk'[t] \in Node /\ MaxAttempts[t] \in Nat
      /\ faults \in Nat
  BY MaxAttemptsAssumption DEF TypeInv, TypeOK, Graph
<1>2. CASE Persist
  <2>1. CASE t # cur
    <3>1. Same(disk'[t], disk[t]) /\ faults' = faults
      BY <1>2, <2>1, PersistIsOneTransition, PersistMoves
    <3>2. disk'[t].attempts = disk[t].attempts
          /\ (disk[t].state = "escalated" => disk'[t].state = "escalated")
      BY <1>1, <3>1, SameVerified DEF Recomputable
    <3> QED BY <2>1, <3>1, <3>2 DEF CostInv
  <2>2. CASE t = cur /\ pc = "persist_escalated"
    <3>1. disk'[t].state = "escalated" /\ disk'[t].attempts = disk[t].attempts
          /\ faults' = faults
      BY <1>2, <2>2, PersistMoves DEF AgreeInv
    <3> QED BY <3>1 DEF CostInv
  <2>3. CASE t = cur /\ pc # "persist_escalated"
    <3>1. pc \in {"persist_claimed", "persist_verified", "persist_rejected"}
      BY <1>2, <2>3, PersistMoves
    <3>2. disk[t].state # "escalated"
      BY <2>3, <3>1 DEF AgreeInv, Recomputable
    <3>3. disk[t].attempts < MaxAttempts[t] + faults
      BY <2>3, <3>1, <3>2 DEF CostInv
    <3>4. /\ faults' = faults /\ cur' = cur
          /\ \/ disk'[t].attempts = disk[t].attempts
             \/ disk'[t].attempts = disk[t].attempts + 1 /\ pc' = "decide"
      BY <1>2, <2>3, <3>1, PersistMoves DEF AgreeInv
    <3>5. disk[t].attempts \in Nat /\ disk'[t].attempts \in Nat
      BY <1>1 DEF Node
    <3> QED BY <1>1, <2>3, <3>3, <3>4, <3>5
  <2> QED BY <2>1, <2>2, <2>3
<1>3. CASE ~Persist
  <2>1. disk' = disk /\ (faults' = faults \/ faults' = faults + 1)
    <3>1. disk' = disk
      BY <1>3, DiskStep
    <3>2. CASE CommitVerified \/ UserTidies
      BY <3>1, <3>2 DEF CommitVerified, UserTidies, boundVars
    <3>3. CASE ~CommitVerified /\ ~UserTidies
      BY <1>3, <3>3, OtherSteps
    <3> QED BY <3>1, <3>2, <3>3
  <2>2. CASE faults' = faults + 1
    BY <1>1, <2>1, <2>2 DEF CostInv, Node
  <2>3. CASE faults' = faults /\ t = cur /\ pc \in {"decide", "persist_escalated"}
    <3>1. CASE RevertForNextAttempt
      <4>1. pc = "decide" /\ mem[cur].attempts < MaxAttempts[cur]
        BY <3>1 DEF RevertForNextAttempt
      <4>2. disk[cur].attempts = mem[cur].attempts
        BY <4>1, TurnAgrees
      <4> QED BY <1>1, <2>1, <2>3, <4>1, <4>2 DEF Node
    <3>2. CASE ~RevertForNextAttempt
      <4>1. pc' \in {"decide", "persist_escalated"} /\ cur' = cur
        BY <1>1, <1>3, <2>3, <3>2, DecideSteps
      <4> QED BY <2>1, <2>3, <4>1 DEF CostInv
    <3> QED BY <3>1, <3>2
  <2>4. CASE faults' = faults /\ ~(t = cur /\ pc \in {"decide", "persist_escalated"})
    BY <2>1, <2>4 DEF CostInv
  <2> QED BY <2>1, <2>2, <2>3, <2>4
<1> QED BY <1>2, <1>3

LEMMA UncommittedStep ==
    ASSUME TypeInv, AgreeInv, CommitInv, CostInv, [Next]_vars
    PROVE  IsFiniteSet(Uncommitted') /\ UncommittedPerFault'
<1>typ. TypeOK /\ faults \in Nat /\ Cardinality(Uncommitted) \in Nat
        /\ IsFiniteSet(Uncommitted)
  BY FS_CardinalityType DEF TypeInv, TypeOK, CostInv
<1>bound. Cardinality(Uncommitted) <= faults + (IF pc = "commit" THEN 1 ELSE 0)
  BY DEF CostInv, UncommittedPerFault
<1>1. CASE Persist
  <2>1. history' = history /\ faults' = faults
    BY <1>1, PersistMoves
  <2>2. \A t \in Task : CommitsOf(t)' = CommitsOf(t)
    BY <2>1 DEF CommitsOf, HeadCommit
  <2>3. CASE pc = "persist_verified"
    <3>1. Uncommitted' = Uncommitted \/ Uncommitted' = Uncommitted \cup {cur}
      BY <1>1, <2>2, PersistKeepsVerified DEF Uncommitted
    <3>2. pc' = "commit"
      BY <1>1, <2>3, PersistMoves
    <3>3. /\ IsFiniteSet(Uncommitted')
          /\ Cardinality(Uncommitted') <= Cardinality(Uncommitted) + 1
      BY <1>typ, <3>1, FS_AddElement
    <3>4. Cardinality(Uncommitted') \in Nat
      BY <3>3, FS_CardinalityType
    <3> QED BY <1>typ, <1>bound, <2>1, <2>3, <3>2, <3>3, <3>4 DEF UncommittedPerFault
  <2>4. CASE pc # "persist_verified"
    <3>1. Uncommitted' = Uncommitted
      BY <1>1, <2>2, <2>4, PersistKeepsVerified DEF Uncommitted
    <3>2. pc # "commit" /\ pc' # "commit"
      BY <1>1, <2>4, PersistMoves
    <3> QED BY <1>typ, <1>bound, <2>1, <3>1, <3>2 DEF UncommittedPerFault
  <2> QED BY <2>3, <2>4
<1>2. CASE CommitVerified
  <2> DEFINE c == [task |-> cur, writes |-> dirt]
  <2>1. cur \in Task /\ pc = "commit" /\ pc' = "top" /\ UNCHANGED <<disk, faults>>
    BY <1>2 DEF CommitVerified, TypeInv, TurnPlaces, Goto, boundVars
  <2>2. c \in Commit /\ history' = Append(history, c)
    BY <1>typ, <1>2, <2>1 DEF TypeOK, Commit, Author, CommitVerified, CommitTree
  <2>3. ASSUME NEW t \in Task, t # cur PROVE CommitsOf(t)' = CommitsOf(t)
    <3>1. c.task # t
      BY <2>3
    <3> HIDE DEF c
    <3> QED BY <1>typ, <2>2, <3>1, OneMoreCommit
  <2>4. ASSUME NEW t \in Task, t = cur PROVE CommitsOf(t)' # {}
    <3>1. c.task = t
      BY <2>4
    <3> HIDE DEF c
    <3> QED BY <1>typ, <2>2, <3>1, OneMoreCommit
  <2>5. Uncommitted' = Uncommitted \ {cur} /\ cur \in Uncommitted
    BY <2>1, <2>3, <2>4 DEF Uncommitted, CommitInv
  <2>6. /\ IsFiniteSet(Uncommitted')
        /\ Cardinality(Uncommitted') = Cardinality(Uncommitted) - 1
    BY <1>typ, <2>5, FS_RemoveElement
  <2> QED BY <1>typ, <1>bound, <2>1, <2>6 DEF UncommittedPerFault
<1>3. CASE UserTidies
  <2> DEFINE c == [task |-> User, writes |-> dirt]
  <2>1. UNCHANGED <<disk, faults, pc>>
    BY <1>3 DEF UserTidies, procVars, boundVars
  <2>2. c \in Commit /\ (history' = history \/ history' = Append(history, c))
    BY <1>typ, <1>3 DEF TypeOK, Commit, Author, UserTidies
  <2>3. \A t \in Task : CommitsOf(t)' = CommitsOf(t)
    <3>1. CASE history' = history
      BY <3>1 DEF CommitsOf, HeadCommit
    <3>2. CASE history' = Append(history, c)
      BY <1>typ, <2>2, <3>2, OneMoreCommit, EnvironmentAssumption
    <3> QED BY <2>2, <3>1, <3>2
  <2>4. Uncommitted' = Uncommitted
    BY <2>1, <2>3 DEF Uncommitted
  <2> QED BY <1>typ, <1>bound, <2>1, <2>4 DEF UncommittedPerFault
<1>4. CASE ~Persist /\ ~CommitVerified /\ ~UserTidies
  <2>1. /\ disk' = disk /\ history' = history
        /\ pc = "commit" => pc' = "commit" \/ faults' = faults + 1
        /\ faults' = faults \/ faults' = faults + 1
    BY <1>4, OtherSteps
  <2>2. Uncommitted' = Uncommitted
    BY <2>1 DEF Uncommitted, CommitsOf, HeadCommit
  <2> QED BY <1>typ, <1>bound, <2>1, <2>2 DEF UncommittedPerFault
<1> QED BY <1>1, <1>2, <1>3, <1>4

LEMMA CostInit == Init => CostInv
<1> SUFFICES ASSUME Init PROVE CostInv
  OBVIOUS
<1>1. \A t \in Task : disk[t].state \in Recomputable /\ disk[t].attempts = 0
  BY DEF Init, PlanDefinition, PristineNode, Recompute, Recomputable
<1>2. Uncommitted = {}
  BY <1>1 DEF Uncommitted, Recomputable
<1>3. IsFiniteSet(Uncommitted) /\ UncommittedPerFault
  BY <1>2, FS_EmptySet DEF Init, UncommittedPerFault
<1> QED BY <1>1, <1>3, MaxAttemptsAssumption DEF Init, CostInv

LEMMA CostInvariant == Spec => [](TypeInv /\ CostInv)
<1>1. TypeInv /\ TypeInv' /\ AgreeInv /\ LogInv /\ CommitInv /\ CostInv /\ [Next]_vars
        => CostInv'
  BY AttemptsStep, UncommittedStep DEF CostInv
<1> QED BY <1>1, CostInit, CommitInvariant, PTL DEF Spec

(* A task exceeds its attempts by at most one per kill or exception.       *)
THEOREM OneAttemptPerFault == Spec => []AttemptsPerFault
<1>1. ASSUME TypeInv, CostInv PROVE AttemptsPerFault
  <2>1. \A t \in Task : disk[t] \in Node /\ MaxAttempts[t] \in Nat /\ faults \in Nat
    BY <1>1, MaxAttemptsAssumption DEF TypeInv, TypeOK, Graph
  <2> QED BY <1>1, <2>1 DEF CostInv, AttemptsPerFault, Node
<1>2. TypeInv /\ CostInv => AttemptsPerFault
  BY <1>1
<1> QED BY <1>2, CostInvariant, PTL

(* The verified tasks without a commit are at most as many as the faults,  *)
(* but for the one whose commit is due.                                    *)
THEOREM OneCommitLostPerFault == Spec => []UncommittedPerFault
<1>1. CostInv => UncommittedPerFault
  BY DEF CostInv
<1> QED BY <1>1, CostInvariant, PTL

-----------------------------------------------------------------------------
(* The end of the queue.  next_ready_task names exactly one task as long as  *)
(* one is claimable, so a run that drains the queue has looked at them all.  *)

LEMMA LeastNatural ==
    ASSUME NEW S, S \subseteq Nat, S # {}
    PROVE  \E m \in S : \A n \in S : m <= n
<1> DEFINE R == OpToRel(<, Nat)
<1>1. \E m \in S : \A n \in S : ~ (<<n, m>> \in R)
  <2> HIDE DEF R
  <2>1. IsWellFoundedOn(R, Nat)
    BY NatLessThanWellFounded DEF R
  <2> QED BY <2>1, WFMin
<1>2. PICK m \in S : \A n \in S : <<n, m>> \notin R
  BY <1>1
<1>3. ASSUME NEW n \in S PROVE m <= n
  <2>1. <<n, m>> \in Nat \X Nat /\ <<n, m>>[1] = n /\ <<n, m>>[2] = m
    OBVIOUS
  <2>2. ~(n < m)
    BY <1>2, <2>1 DEF OpToRel
  <2> QED BY <2>2
<1> QED BY <1>3

(* The sort key (-len(depends_on), id) has a first element in every        *)
(* non-empty set of tasks.                                                 *)
LEMMA FirstByKey ==
    ASSUME NEW C \in SUBSET Task, C # {}
    PROVE  \E t \in C : \A s \in C \ {t} : Precedes(t, s)
<1> DEFINE w(t) == Cardinality(DependsOn[t])
           N == Cardinality(Task)
<1>1. N \in Nat /\ \A t \in Task : w(t) \in Nat /\ w(t) <= N
  <2>1. N \in Nat
    BY TaskAssumption, FS_CardinalityType
  <2>2. ASSUME NEW t \in Task PROVE w(t) \in Nat /\ w(t) <= N
    <3>1. DependsOn[t] \in SUBSET Task
      BY DependsOnAssumption
    <3>2. IsFiniteSet(DependsOn[t]) /\ w(t) <= N
      BY <3>1, TaskAssumption, FS_Subset
    <3> QED BY <3>2, FS_CardinalityType
  <2> QED BY <2>1, <2>2
<1>key. \A s, t \in Task :
            Precedes(s, t) <=> (w(s) > w(t) \/ (w(s) = w(t) /\ Rank[s] < Rank[t]))
  BY DEF Precedes
<1> HIDE DEF w, N
<1> DEFINE Few == {N - w(t) : t \in C}
<1>2. \E m \in Few : \A n \in Few : m <= n
  <2>1. Few \subseteq Nat
    BY <1>1
  <2>2. Few # {}
    OBVIOUS
  <2> HIDE DEF Few
  <2> QED BY <2>1, <2>2, LeastNatural
<1>3. PICK u \in C : \A s \in C : w(s) <= w(u)
  <2>1. PICK u \in C : \A n \in Few : N - w(u) <= n
    BY <1>2
  <2>2. \A s \in C : N - w(u) <= N - w(s)
    BY <2>1
  <2>3. \A s \in C : w(s) <= w(u)
    BY <1>1, <2>2
  <2> QED BY <2>3
<1> DEFINE Widest == {t \in C : w(t) = w(u)}
           Ranks  == {Rank[t] : t \in Widest}
<1>4. \E m \in Ranks : \A n \in Ranks : m <= n
  <2>1. Ranks \subseteq Nat /\ Ranks # {}
    BY RankAssumption
  <2> HIDE DEF Ranks
  <2> QED BY <2>1, LeastNatural
<1>5. PICK t \in Widest : \A s \in Widest : Rank[t] <= Rank[s]
  BY <1>4
<1>6. ASSUME NEW s \in C \ {t} PROVE Precedes(t, s)
  <2>1. s \in Task /\ t \in Task /\ w(t) = w(u) /\ w(s) <= w(t)
    BY <1>3, <1>5
  <2>2. w(s) \in Nat /\ w(t) \in Nat /\ Rank[s] \in Nat /\ Rank[t] \in Nat
        /\ Rank[s] # Rank[t]
    BY <1>1, <1>6, <2>1, RankAssumption
  <2>3. CASE w(s) = w(t)
    <3>1. Rank[t] <= Rank[s]
      BY <1>5, <1>6, <2>1, <2>3
    <3> QED BY <1>key, <2>1, <2>2, <2>3, <3>1
  <2>4. CASE w(s) # w(t)
    BY <1>key, <2>1, <2>2, <2>4
  <2> QED BY <2>3, <2>4
<1> QED BY <1>5, <1>6

(* next_ready_task: some task if any is claimable, and one at most.        *)
THEOREM OneIsNext ==
    ASSUME NEW g
    PROVE  /\ NextReady(g) = {} <=> Claimable(g) = {}
           /\ \A s, t \in NextReady(g) : s = t
<1>1. Claimable(g) # {} => NextReady(g) # {}
  <2>1. Claimable(g) \in SUBSET Task
    BY DEF Claimable
  <2> QED BY <2>1, FirstByKey DEF NextReady
<1>2. ASSUME NEW s \in NextReady(g), NEW t \in NextReady(g), s # t PROVE FALSE
  <2>1. s \in Task /\ t \in Task /\ Precedes(s, t) /\ Precedes(t, s)
    BY <1>2 DEF NextReady, Claimable
  <2>2. DependsOn[s] \in SUBSET Task /\ DependsOn[t] \in SUBSET Task
    BY <2>1, DependsOnAssumption
  <2>3. Cardinality(DependsOn[s]) \in Nat /\ Cardinality(DependsOn[t]) \in Nat
    BY <2>2, TaskAssumption, FS_Subset, FS_CardinalityType
  <2>4. Rank[s] \in Nat /\ Rank[t] \in Nat
    BY <2>1, RankAssumption
  <2> QED BY <2>1, <2>3, <2>4 DEF Precedes
<1> QED BY <1>1, <1>2 DEF NextReady

(* Nothing claimable and nothing escalated: everything is verified, or some  *)
(* task is in its turn.  (Of the tasks that are not verified one depends on  *)
(* no other of them, since the plan has no cycle.)                         *)
LEMMA NothingClaimable ==
    ASSUME NEW g \in Graph, Claimable(Recompute(g)) = {},
           \A t \in Task : Recompute(g)[t].state # "escalated"
    PROVE  \/ \A t \in Task : g[t].state = "verified"
           \/ \E t \in Task : g[t].state \in VerifiableFrom
<1> DEFINE S == {t \in Task : g[t].state # "verified"}
<1> SUFFICES ASSUME S # {} PROVE \E t \in Task : g[t].state \in VerifiableFrom
  OBVIOUS
<1>1. PICK t \in S : DependsOn[t] \cap S = {}
  BY AcyclicAssumption
<1>2. DepsVerified(g, t)
  BY <1>1, DependsOnAssumption DEF DepsVerified
<1>3. t \in Task /\ g[t] \in Node /\ g[t].state # "verified"
  BY <1>1 DEF Graph
<1>4. g[t].state \notin Recomputable
  <2> SUFFICES ASSUME g[t].state \in Recomputable PROVE FALSE
    OBVIOUS
  <2>1. Recompute(g)[t].state = "ready"
    BY <1>2, <1>3 DEF Recompute, Node
  <2> QED BY <1>3, <2>1 DEF Claimable, ClaimableFrom
<1>5. Recompute(g)[t] = g[t]
  BY <1>3, <1>4 DEF Recompute
<1>6. g[t].state # "escalated" /\ g[t].state # "rejected"
  BY <1>3, <1>5 DEF Claimable, ClaimableFrom
<1>7. g[t].state \in VerifiableFrom
  BY <1>3, <1>4, <1>6 DEF Node, NodeState, Recomputable, VerifiableFrom
<1> QED BY <1>3, <1>7

StrandedInv ==
    why = "complete" => pc \in {"finish", "release", "idle"} /\ CompleteOrStranded

LEMMA StrandedStep ==
    ASSUME TypeInv, AgreeInv, StrandedInv, [Next]_vars
    PROVE  StrandedInv'
<1> USE DEF StrandedInv, CompleteOrStranded, Goto, Finish
<1>0. CASE UNCHANGED vars
  BY <1>0 DEF vars, diskVars, procVars
<1>1. CASE RefuseDirtyStart \/ StartRun \/ StopAtBoundary \/ BudgetAtBoundary
           \/ PassBoundary \/ RefuseDirtyClaim
  BY <1>1 DEF RefuseDirtyStart, StartRun, StopAtBoundary, BudgetAtBoundary,
              PassBoundary, RefuseDirtyClaim
<1>2. CASE DrainQueue
  <2> SUFFICES ASSUME why' = "complete"
               PROVE  pc' \in {"finish", "release", "idle"} /\ CompleteOrStranded'
    OBVIOUS
  <2>1. /\ pc = "select" /\ pc' = "finish" /\ disk' = disk
        /\ NextReady(Recompute(mem)) = {}
        /\ \A t \in Task : Recompute(mem)[t].state # "escalated"
    BY <1>2 DEF DrainQueue, diskVars
  <2>2. mem \in Graph /\ Claimable(Recompute(mem)) = {}
    BY <2>1, OneIsNext DEF TypeInv, TypeOK
  <2>3. \A t \in Task : mem[t] \in Node /\ disk[t] \in Node /\ Same(mem[t], disk[t])
    BY <2>1 DEF AgreeInv, WorkPlaces, PersistPlaces, TypeInv, TypeOK, Graph
  <2>4. \A t \in Task : mem[t].state \notin Recomputable => disk[t].state = mem[t].state
    BY <2>3, SameVerified
  <2>5. \/ \A t \in Task : mem[t].state = "verified"
        \/ \E t \in Task : mem[t].state \in VerifiableFrom
    BY <2>1, <2>2, NothingClaimable
  <2>6. \/ \A t \in Task : disk[t].state = "verified"
        \/ \E t \in Task : disk[t].state \in VerifiableFrom
    BY <2>4, <2>5 DEF Recomputable, VerifiableFrom
  <2> QED BY <2>1, <2>6
<1>3. ASSUME NEW t \in Task, ClaimTask(t) PROVE StrandedInv'
  BY <1>3 DEF ClaimTask
<1>4. CASE Persist
  BY <1>4, PersistMoves
<1>5. CASE WritePrompt \/ AnnouncePrompt \/ RevertForRetry \/ MarkVerified
           \/ CommitVerified \/ RejectTask \/ RevertForNextAttempt
  BY <1>5 DEF WritePrompt, AnnouncePrompt, RevertForRetry, MarkVerified,
              CommitVerified, RejectTask, RevertForNextAttempt
<1>6. ASSUME NEW o \in TurnOutcomes, TurnReturns(o) PROVE StrandedInv'
  BY <1>6 DEF TurnReturns
<1>7. CASE TurnUnparseable \/ RunnerRaises
  BY <1>7 DEF TurnUnparseable, RunnerRaises
<1>8. ASSUME NEW v \in {"pass", "fail"}, Judge(v) PROVE StrandedInv'
  BY <1>8 DEF Judge
<1>9. CASE EscalateHonest \/ EscalateExhausted
  BY <1>9 DEF EscalateHonest, EscalateExhausted
<1>10. CASE EndRun \/ ReleaseRunLock
  BY <1>10 DEF EndRun, ReleaseRunLock
<1>11. CASE AcquireRunLock \/ Unwind \/ Crash
  BY <1>11 DEF AcquireRunLock, Unwind, Crash
<1>12. CASE UserEdits \/ UserTidies \/ UserRemovesLock \/ RequestStop \/ ClearStop
  BY <1>12 DEF UserEdits, UserTidies, UserRemovesLock, RequestStop, ClearStop, procVars
<1> HIDE DEF StrandedInv, CompleteOrStranded, Goto, Finish
<1> QED
  BY <1>0, <1>1, <1>2, <1>3, <1>4, <1>5, <1>6, <1>7, <1>8, <1>9, <1>10, <1>11, <1>12
  DEF Next, Engine, Environment

(* A run that ends as complete has verified everything, or an earlier run  *)
(* has left a task in its turn: nothing claimable, rejected or escalated is  *)
(* ever passed over.                                                       *)
THEOREM CompleteHidesOnlyStranded == Spec => []CompleteOrStranded
<1>1. Init => StrandedInv
  BY DEF Init, StrandedInv
<1>2. TypeInv /\ AgreeInv /\ StrandedInv /\ [Next]_vars => StrandedInv'
  BY StrandedStep
<1>3. StrandedInv => CompleteOrStranded
  BY DEF StrandedInv, CompleteOrStranded
<1> QED BY <1>1, <1>2, <1>3, AgreeInvariant, PTL DEF Spec

-----------------------------------------------------------------------------
(* Without a fault.  What one kill or exception refutes is exact as long as  *)
(* there is none: the log and the projection are at the same stage but for *)
(* the transition in progress.                                             *)

SyncInv ==
    faults = 0 =>
        \A t \in Task : \/ StageOf(logged[t]) = StageOf(disk[t])
                        \/ t = cur /\ pc \in PersistPlaces

(* A transition in progress is completed unless a fault ends the run.      *)
LEMMA PersistIsNext ==
    ASSUME [Next]_vars, ~Persist, pc \in PersistPlaces
    PROVE  \/ pc' = pc /\ UNCHANGED <<cur, logged>>
           \/ faults' = faults + 1
<1> USE DEF Goto, Finish, PersistPlaces, diskVars
<1>1. CASE UNCHANGED vars
  BY <1>1 DEF vars, procVars
<1>2. CASE Engine
  BY <1>2 DEF Engine, RefuseDirtyStart, StartRun, StopAtBoundary, BudgetAtBoundary,
     PassBoundary, DrainQueue, RefuseDirtyClaim, ClaimTask, WritePrompt,
     AnnouncePrompt, TurnReturns, TurnUnparseable, RunnerRaises, RevertForRetry,
     EscalateHonest, Judge, MarkVerified, CommitVerified, RejectTask,
     EscalateExhausted, RevertForNextAttempt, EndRun, ReleaseRunLock
<1>3. CASE Environment
  BY <1>3 DEF Environment, AcquireRunLock, Unwind, Crash, UserEdits, UserTidies,
     UserRemovesLock, RequestStop, ClearStop, procVars
<1> HIDE DEF Goto, Finish, PersistPlaces, diskVars
<1> QED BY <1>1, <1>2, <1>3 DEF Next

(* An event about a task other than the current one is never appended, and *)
(* one about the current task only where its projection is one step behind. *)
LEMMA LogMoves ==
    ASSUME TypeInv, [Next]_vars, NEW t \in Task, logged'[t] # logged[t]
    PROVE  \/ ClaimTask(t)
           \/ /\ EscalateHonest \/ EscalateExhausted \/ MarkVerified \/ RejectTask
              /\ t = cur
<1>typ. TypeOK
  BY DEF TypeInv
<1>1. ASSUME NEW u \in Task, ClaimTask(u) PROVE ClaimTask(t)
  <2>1. t = u
    BY <1>1, <1>typ DEF ClaimTask, LogEvent, TypeOK, Graph
  <2> QED BY <1>1, <2>1
<1>2. CASE EscalateHonest \/ EscalateExhausted \/ MarkVerified \/ RejectTask
  <2>1. \A u \in Task \ {cur} : logged'[u] = logged[u]
    BY <1>2, <1>typ DEF EscalateHonest, EscalateExhausted, MarkVerified, RejectTask,
                        Transition, LogEvent, TypeOK, Graph
  <2> QED BY <1>2, <2>1
<1>3. CASE StartRun \/ DrainQueue \/ ReleaseRunLock \/ Crash \/ Persist
  BY <1>3 DEF StartRun, DrainQueue, ReleaseRunLock, Crash, Persist, diskVars
<1> QED BY <1>1, <1>2, <1>3, QuietStep

LEMMA SyncStep ==
    ASSUME TypeInv, TypeInv', AgreeInv, LogInv, SyncInv, [Next]_vars
    PROVE  SyncInv'
<1> SUFFICES ASSUME faults' = 0, NEW t \in Task
             PROVE  \/ StageOf(logged'[t]) = StageOf(disk'[t])
                    \/ t = cur' /\ pc' \in PersistPlaces
  BY DEF SyncInv
<1>typ. faults \in Nat /\ mem[t] \in Node /\ logged[t] \in Node /\ disk[t] \in Node
  BY DEF TypeInv, TypeOK, Graph
<1>1. faults = 0
  <2>1. faults' = faults \/ faults' = faults + 1
    <3>1. CASE CommitVerified \/ UserTidies
      BY <3>1 DEF CommitVerified, UserTidies, boundVars
    <3>2. CASE Persist
      BY <3>2, PersistMoves
    <3> QED BY <3>1, <3>2, OtherSteps
  <2> QED BY <1>typ, <2>1
<1>2. StageOf(logged[t]) = StageOf(disk[t]) \/ (t = cur /\ pc \in PersistPlaces)
  BY <1>1 DEF SyncInv
<1>3. CASE Persist
  <2>1. logged' = logged /\ disk' = mem
    BY <1>3, PersistMoves
  <2>2. CASE t = cur
    <3>1. Leads(mem[t], logged[t])
      BY <1>3, PersistMoves DEF LogInv, WorkPlaces, TurnPlaces
    <3>2. logged[t].state = mem[t].state
      BY <1>3, <2>2, <3>1, PersistMoves DEF AgreeInv, LogInv, ClaimPlaces, Leads
    <3> QED BY <2>1, <3>2 DEF StageOf
  <2>3. CASE t # cur
    <3>1. Same(disk'[t], disk[t])
      BY <1>3, <2>3, PersistIsOneTransition
    <3> QED BY <1>2, <2>1, <2>3, <3>1 DEF Same
  <2> QED BY <2>2, <2>3
<1>4. CASE ~Persist /\ logged'[t] # logged[t]
  <2>1. CASE ClaimTask(t)
    BY <2>1 DEF ClaimTask, Goto, PersistPlaces
  <2>2. CASE ~ClaimTask(t)
    BY <1>4, <2>2, LogMoves DEF EscalateHonest, EscalateExhausted, MarkVerified,
                                RejectTask, Goto, PersistPlaces
  <2> QED BY <2>1, <2>2
<1>5. CASE ~Persist /\ logged'[t] = logged[t]
  <2>1. disk' = disk
    BY <1>5, DiskStep
  <2>2. CASE pc \in PersistPlaces
    BY <1>1, <1>2, <1>5, <2>1, <2>2, PersistIsNext
  <2>3. CASE pc \notin PersistPlaces
    BY <1>2, <1>5, <2>1, <2>3
  <2> QED BY <2>2, <2>3
<1> QED BY <1>3, <1>4, <1>5

LEMMA SyncInvariant ==
    Spec => [](TypeInv /\ AgreeInv /\ LogInv /\ CommitInv /\ CostInv /\ SyncInv)
<1>1. Init => SyncInv
  BY DEF Init, SyncInv
<1>2. TypeInv /\ TypeInv' /\ AgreeInv /\ LogInv /\ SyncInv /\ [Next]_vars => SyncInv'
  BY SyncStep
<1> QED
  BY <1>1, <1>2, LogInvariant, CommitInvariant, CostInvariant, PTL DEF Spec

(* Without a fault no task exceeds its attempts, every verified task has one *)
(* commit and no other task has any, and the log and the projection agree. *)
THEOREM WithoutFaults == Spec => []ExactWithoutFaults
<1>1. ASSUME TypeInv, AgreeInv, LogInv, CommitInv, CostInv, SyncInv, faults = 0
      PROVE  AttemptsBounded /\ OneCommitPerVerified /\ LogAgrees
  <2>1. \A t \in Task : /\ disk[t] \in Node /\ logged[t] \in Node
                        /\ MaxAttempts[t] \in Nat
    BY <1>1, MaxAttemptsAssumption DEF TypeInv, TypeOK, Graph
  <2>2. AttemptsBounded
    BY <1>1, <2>1 DEF CostInv, AttemptsBounded, Node
  <2>3. LogAgrees
    <3> SUFFICES ASSUME pc \notin PersistPlaces, NEW t \in Task
                 PROVE  /\ StageOf(logged[t]) = StageOf(disk[t])
                        /\ logged[t].attempts = disk[t].attempts
      BY DEF LogAgrees, AfterPersist, PersistPlaces
    <3>1. StageOf(logged[t]) = StageOf(disk[t])
      BY <1>1 DEF SyncInv
    <3>2. ~(disk[t].state = "claimed" /\ logged[t].state = "rejected")
      BY <3>1 DEF StageOf, Recomputable
    <3>3. logged[t].attempts = disk[t].attempts
      BY <1>1, <2>1, <3>2 DEF LogInv, Leads, Node
    <3> QED BY <3>1, <3>3
  <2>4. OneCommitPerVerified
    <3> SUFFICES ASSUME pc # "commit", NEW t \in Task
                 PROVE  Cardinality(CommitsOf(t)) =
                            IF disk[t].state = "verified" THEN 1 ELSE 0
      BY DEF OneCommitPerVerified, CommitsOf
    <3>1. Uncommitted = {}
      <4>1. Cardinality(Uncommitted) \in Nat /\ IsFiniteSet(Uncommitted)
        BY <1>1, FS_CardinalityType DEF CostInv
      <4>2. Cardinality(Uncommitted) <= 0
        BY <1>1 DEF CostInv, UncommittedPerFault
      <4> QED BY <4>1, <4>2, FS_EmptySet
    <3>2. CASE disk[t].state = "verified"
      <4>1. CommitsOf(t) # {}
        BY <3>1, <3>2 DEF Uncommitted
      <4>2. PICK i \in CommitsOf(t) : TRUE
        BY <4>1
      <4>3. CommitsOf(t) = {i}
        BY <1>1, <4>2 DEF CommitsOf, CommitInv
      <4> QED BY <3>2, <4>3, FS_Singleton
    <3>3. CASE disk[t].state # "verified"
      <4>1. CommitsOf(t) = {}
        BY <1>1, <3>3 DEF CommitsOf, CommitInv
      <4> QED BY <3>3, <4>1, FS_EmptySet
    <3> QED BY <3>2, <3>3
  <2> QED BY <2>2, <2>3, <2>4
<1>2. TypeInv /\ AgreeInv /\ LogInv /\ CommitInv /\ CostInv /\ SyncInv
        => ExactWithoutFaults
  BY <1>1 DEF ExactWithoutFaults
<1> QED BY <1>2, SyncInvariant, PTL

(* What a fault costs, over any number of runs: one attempt or one commit; *)
(* and nothing else costs any.                                             *)
THEOREM FaultsCost == Spec => []OnlyFaultsCost
<1>1. AttemptsPerFault /\ UncommittedPerFault /\ ExactWithoutFaults => OnlyFaultsCost
  BY DEF OnlyFaultsCost
<1> QED
  BY <1>1, OneAttemptPerFault, OneCommitLostPerFault, WithoutFaults, PTL

(* By the log, nothing happens to an escalated task as long as nothing is  *)
(* killed or thrown: it waits for a human.                                 *)
EscalatedWaitsWithoutFaults ==
    [][faults = 0 =>
           \A t \in Task : logged[t].state = "escalated" => logged'[t] = logged[t]]_vars

(* Only a fault refutes EscalatedWaits.                                    *)
THEOREM EscalatedTasksWait == Spec => EscalatedWaitsWithoutFaults
<1>1. ASSUME TypeInv, AgreeInv, LogInv, SyncInv, [Next]_vars, faults = 0,
             NEW t \in Task, logged[t].state = "escalated", logged'[t] # logged[t]
      PROVE  FALSE
  <2>1. CASE ClaimTask(t)
    <3>1. disk[t].state \in Recomputable \cup {"rejected"}
      BY <1>1, <2>1, ClaimSame
    <3>2. StageOf(logged[t]) = StageOf(disk[t])
      BY <1>1, <2>1 DEF SyncInv, ClaimTask, PersistPlaces
    <3> QED BY <1>1, <3>1, <3>2 DEF StageOf, Recomputable
  <2>2. CASE ~ClaimTask(t)
    <3>1. t = cur /\ pc \in {"judge", "pass", "fail", "decide"}
      BY <1>1, <2>2, LogMoves DEF EscalateHonest, EscalateExhausted, MarkVerified, RejectTask
    <3> QED BY <1>1, <3>1, TurnAgrees
  <2> QED BY <2>1, <2>2
<1>2. TypeInv /\ AgreeInv /\ LogInv /\ SyncInv /\ [Next]_vars =>
          (faults = 0 =>
              \A t \in Task : logged[t].state = "escalated" => logged'[t] = logged[t])
  BY <1>1
<1> QED BY <1>2, SyncInvariant, PTL DEF EscalatedWaitsWithoutFaults, Spec

-----------------------------------------------------------------------------
(* Why a run ends, for every budget.  With the weak fairness of Engine this  *)
(* is the argument for RunEnds; that a live run always has a step is left to *)
(* TLC, which checks RunEnds.                                              *)

(* StepsLeft as a function of the place, the iteration and the try.        *)
StepsAt(p, i, t) ==
    IF p = "idle" THEN 0
    ELSE IF p = "load" THEN 20 * (MaxIterations + 1)
    ELSE 20 * (MaxIterations - i) + StepsInPlace[p]
         + (IF t = 0 /\ p \in {"prompt", "announce", "dispatch"} THEN 4 ELSE 0)

LEMMA StepsTable ==
    /\ StepsInPlace["persist_rejected"] = 19 /\ StepsInPlace["decide"] = 18
    /\ StepsInPlace["top"] = 17 /\ StepsInPlace["select"] = 16
    /\ StepsInPlace["persist_claimed"] = 15 /\ StepsInPlace["retry"] = 11
    /\ StepsInPlace["prompt"] = 10 /\ StepsInPlace["announce"] = 9
    /\ StepsInPlace["dispatch"] = 8 /\ StepsInPlace["judge"] = 7
    /\ StepsInPlace["pass"] = 6 /\ StepsInPlace["fail"] = 6
    /\ StepsInPlace["persist_verified"] = 5 /\ StepsInPlace["commit"] = 4
    /\ StepsInPlace["persist_escalated"] = 3 /\ StepsInPlace["finish"] = 2
    /\ StepsInPlace["release"] = 1
BY DEF StepsInPlace

LEMMA StepsAtTurn ==
    ASSUME NEW i \in Nat, NEW t
    PROVE  /\ StepsAt("retry", i, t) = 20 * (MaxIterations - i) + 11
           /\ StepsAt("prompt", i, 0) = 20 * (MaxIterations - i) + 14
           /\ StepsAt("prompt", i, 1) = 20 * (MaxIterations - i) + 10
           /\ StepsAt("announce", i, 0) = 20 * (MaxIterations - i) + 13
           /\ StepsAt("announce", i, 1) = 20 * (MaxIterations - i) + 9
           /\ StepsAt("dispatch", i, 0) = 20 * (MaxIterations - i) + 12
           /\ StepsAt("dispatch", i, 1) = 20 * (MaxIterations - i) + 8
BY StepsTable, BudgetAssumption DEF StepsAt

LEMMA StepsAtPlace ==
    ASSUME NEW i \in Nat, NEW t
    PROVE  /\ StepsAt("idle", i, t) = 0
           /\ StepsAt("load", i, t) = 20 * (MaxIterations + 1)
           /\ StepsAt("persist_rejected", i, t) = 20 * (MaxIterations - i) + 19
           /\ StepsAt("decide", i, t) = 20 * (MaxIterations - i) + 18
           /\ StepsAt("top", i, t) = 20 * (MaxIterations - i) + 17
           /\ StepsAt("select", i, t) = 20 * (MaxIterations - i) + 16
           /\ StepsAt("persist_claimed", i, t) = 20 * (MaxIterations - i) + 15
           /\ StepsAt("judge", i, t) = 20 * (MaxIterations - i) + 7
           /\ StepsAt("pass", i, t) = 20 * (MaxIterations - i) + 6
           /\ StepsAt("fail", i, t) = 20 * (MaxIterations - i) + 6
           /\ StepsAt("persist_verified", i, t) = 20 * (MaxIterations - i) + 5
           /\ StepsAt("commit", i, t) = 20 * (MaxIterations - i) + 4
           /\ StepsAt("persist_escalated", i, t) = 20 * (MaxIterations - i) + 3
           /\ StepsAt("finish", i, t) = 20 * (MaxIterations - i) + 2
           /\ StepsAt("release", i, t) = 20 * (MaxIterations - i) + 1
BY StepsTable, BudgetAssumption DEF StepsAt

LEMMA StepsAtRange ==
    ASSUME NEW p \in Places \ {"idle", "load"}, NEW i \in 0 .. MaxIterations,
           NEW t \in {0, 1}
    PROVE  /\ StepsAt(p, i, t) \in 1 .. 20 * (MaxIterations + 1) - 1
           /\ p # "release" => StepsAt(p, i, t) > 20 * (MaxIterations - i) + 1
<1>1. \/ p \in {"top", "select", "persist_claimed", "judge", "pass", "fail",
                "persist_verified", "commit", "persist_rejected", "decide",
                "persist_escalated", "finish", "release"}
         \/ p \in {"retry", "prompt", "announce", "dispatch"}
  BY DEF Places, LoopPlaces, TurnPlaces
<1>2. \E k \in 1 .. 19 : /\ StepsAt(p, i, t) = 20 * (MaxIterations - i) + k
                         /\ p # "release" => k > 1
  <2>1. i \in Nat
    BY BudgetAssumption
  <2>2. CASE p \in {"retry", "prompt", "announce", "dispatch"}
    BY <2>1, <2>2, StepsAtTurn
  <2>3. CASE p \notin {"retry", "prompt", "announce", "dispatch"}
    BY <1>1, <2>1, <2>3, StepsAtPlace
  <2> QED BY <2>2, <2>3
<1>3. MaxIterations \in Nat /\ i \in Nat /\ i <= MaxIterations
  BY BudgetAssumption
<1> QED BY <1>2, <1>3

LEMMA StepsAtType ==
    ASSUME NEW p \in Places, NEW i \in 0 .. MaxIterations, NEW t \in {0, 1}
    PROVE  StepsAt(p, i, t) \in Nat
<1>1. MaxIterations \in Nat /\ i \in Nat
  BY BudgetAssumption
<1>2. CASE p \in {"idle", "load"}
  BY <1>1, <1>2, StepsAtPlace
<1>3. CASE p \notin {"idle", "load"}
  BY <1>1, <1>3, StepsAtRange
<1> QED BY <1>2, <1>3

LEMMA EngineUsesSteps ==
    ASSUME TypeInv, BrakesInv, TypeInv', BrakesInv', Engine
    PROVE  StepsLeft' < StepsLeft
<1>1. /\ StepsLeft = StepsAt(pc, iter, try)
      /\ pc \in Places /\ iter \in 0 .. MaxIterations /\ try \in {0, 1}
  BY BudgetAssumption DEF StepsLeft, StepsAt, TypeInv, TypeOK, BrakesInv, CapsHold
<1>2. /\ StepsLeft' = StepsAt(pc', iter', try')
      /\ pc' \in Places /\ iter' \in 0 .. MaxIterations /\ try' \in {0, 1}
  BY BudgetAssumption DEF StepsLeft, StepsAt, TypeInv, TypeOK, BrakesInv, CapsHold
<1>3. MaxIterations \in Nat
  BY BudgetAssumption
<1> USE <1>1, <1>2, <1>3, StepsAtPlace, StepsAtTurn
<1>4. CASE RefuseDirtyStart
  <2>1. pc = "load" /\ pc' = "release"
    BY <1>4 DEF RefuseDirtyStart, Goto
  <2> QED BY <2>1
<1>5. CASE StartRun
  <2>1. pc = "load" /\ pc' = "top"
    BY <1>5 DEF StartRun, Goto
  <2> QED BY <2>1
<1>6. CASE StopAtBoundary \/ BudgetAtBoundary \/ PassBoundary
  <2>1. pc = "top" /\ pc' \in {"finish", "select"} /\ iter' = iter
    BY <1>6 DEF StopAtBoundary, BudgetAtBoundary, PassBoundary, Goto, Finish
  <2> QED BY <2>1
<1>7. CASE DrainQueue \/ RefuseDirtyClaim
  <2>1. pc = "select" /\ pc' \in {"finish", "release"} /\ iter' = iter
    BY <1>7 DEF DrainQueue, RefuseDirtyClaim, Goto, Finish
  <2> QED BY <2>1
<1>8. ASSUME NEW t \in Task, ClaimTask(t) PROVE StepsLeft' < StepsLeft
  <2>1. pc = "select" /\ pc' = "persist_claimed" /\ iter' = iter
    BY <1>8 DEF ClaimTask, Goto
  <2> QED BY <2>1
<1>9. CASE Persist
  <2>1. UNCHANGED <<iter, try>>
    BY <1>9 DEF Persist
  <2>2. CASE pc = "persist_claimed" /\ pc' = "prompt"
    <3>1. try = 0
      BY <2>2 DEF BrakesInv
    <3> QED BY <2>1, <2>2, <3>1
  <2>3. CASE pc # "persist_claimed"
    BY <1>9, <2>1, <2>3, PersistMoves
  <2> QED BY <1>9, <2>2, <2>3, PersistMoves
<1>10. CASE WritePrompt
  <2>1. pc = "prompt" /\ pc' = "announce" /\ UNCHANGED <<iter, try>>
    BY <1>10 DEF WritePrompt, Goto
  <2> QED BY <2>1
<1>11. CASE AnnouncePrompt
  <2>1. pc = "announce" /\ pc' = "dispatch" /\ UNCHANGED <<iter, try>>
    BY <1>11 DEF AnnouncePrompt, Goto
  <2> QED BY <2>1
<1>12. ASSUME NEW o \in TurnOutcomes, TurnReturns(o) PROVE StepsLeft' < StepsLeft
  <2>1. pc = "dispatch" /\ pc' = "judge" /\ iter' = iter
    BY <1>12 DEF TurnReturns, Goto
  <2> QED BY <2>1
<1>13. CASE TurnUnparseable
  <2>1. /\ pc = "dispatch" /\ iter' = iter
        /\ ((try = 0 /\ pc' = "retry") \/ pc' = "finish")
    BY <1>13 DEF TurnUnparseable, Goto, Finish, MaxParseAttempts
  <2> QED BY <2>1
<1>14. CASE RunnerRaises
  <2>1. pc = "dispatch" /\ pc' = "release" /\ iter' = iter
    BY <1>14 DEF RunnerRaises, Goto
  <2> QED BY <2>1
<1>15. CASE RevertForRetry
  <2>1. pc = "retry" /\ pc' = "prompt" /\ iter' = iter /\ try' = try + 1
    BY <1>15 DEF RevertForRetry, Goto
  <2>2. try' = 1
    BY <2>1
  <2> QED BY <2>1, <2>2
<1>16. CASE EscalateHonest
  <2>1. pc = "judge" /\ pc' = "persist_escalated" /\ iter' = iter + 1
    BY <1>16 DEF EscalateHonest, Goto
  <2> QED BY <2>1
<1>17. ASSUME NEW v \in {"pass", "fail"}, Judge(v) PROVE StepsLeft' < StepsLeft
  <2>1. pc = "judge" /\ pc' \in {"pass", "fail"} /\ iter' = iter
    BY <1>17 DEF Judge, Goto
  <2> QED BY <2>1
<1>18. CASE MarkVerified
  <2>1. pc = "pass" /\ pc' = "persist_verified" /\ iter' = iter
    BY <1>18 DEF MarkVerified, Goto
  <2> QED BY <2>1
<1>19. CASE CommitVerified
  <2>1. pc = "commit" /\ pc' = "top" /\ iter' = iter + 1
    BY <1>19 DEF CommitVerified, Goto
  <2> QED BY <2>1
<1>20. CASE RejectTask
  <2>1. pc = "fail" /\ pc' = "persist_rejected" /\ iter' = iter + 1
    BY <1>20 DEF RejectTask, Goto
  <2> QED BY <2>1
<1>21. CASE EscalateExhausted \/ RevertForNextAttempt
  <2>1. pc = "decide" /\ pc' \in {"persist_escalated", "top"} /\ iter' = iter
    BY <1>21 DEF EscalateExhausted, RevertForNextAttempt, Goto
  <2> QED BY <2>1
<1>22. CASE EndRun
  <2>1. pc = "finish" /\ pc' = "release" /\ iter' = iter
    BY <1>22 DEF EndRun, Goto
  <2> QED BY <2>1
<1>23. CASE ReleaseRunLock
  <2>1. pc = "release" /\ pc' = "idle"
    BY <1>23 DEF ReleaseRunLock, Goto
  <2> QED BY <2>1
<1> QED
  BY <1>4, <1>5, <1>6, <1>7, <1>8, <1>9, <1>10, <1>11, <1>12, <1>13, <1>14, <1>15,
     <1>16, <1>17, <1>18, <1>19, <1>20, <1>21, <1>22, <1>23
  DEF Engine

LEMMA NothingGivesStepsBack ==
    ASSUME TypeInv, BrakesInv, TypeInv', BrakesInv', [Next]_vars, Live
    PROVE  StepsLeft' <= StepsLeft
<1>1. /\ StepsLeft = StepsAt(pc, iter, try)
      /\ pc \in Places /\ iter \in 0 .. MaxIterations /\ try \in {0, 1}
  BY BudgetAssumption DEF StepsLeft, StepsAt, TypeInv, TypeOK, BrakesInv, CapsHold
<1>2. /\ StepsLeft' = StepsAt(pc', iter', try')
      /\ pc' \in Places /\ iter' \in 0 .. MaxIterations /\ try' \in {0, 1}
  BY BudgetAssumption DEF StepsLeft, StepsAt, TypeInv, TypeOK, BrakesInv, CapsHold
<1>3. StepsLeft \in Nat /\ StepsLeft' \in Nat
  BY <1>1, <1>2, StepsAtType
<1>4. CASE Engine
  BY <1>3, <1>4, EngineUsesSteps
<1>5. CASE UNCHANGED <<pc, iter, try>>
  BY <1>1, <1>2, <1>3, <1>5
<1>6. CASE Unwind
  <2>1. pc \notin {"idle", "release"} /\ pc' = "release" /\ iter' = iter
    BY <1>6 DEF Unwind, Live, Goto
  <2>2. StepsLeft' = 20 * (MaxIterations - iter) + 1
    BY <1>1, <1>2, <2>1, StepsAtPlace
  <2>3. CASE pc = "load"
    BY <1>1, <2>2, <2>3, StepsAtPlace, BudgetAssumption
  <2> QED BY <1>1, <2>1, <2>2, <2>3, StepsAtRange, BudgetAssumption
<1>7. CASE Crash
  <2>1. StepsLeft' = 0
    BY <1>7 DEF Crash, Goto, StepsLeft
  <2> QED BY <1>3, <2>1
<1>8. CASE AcquireRunLock
  BY <1>8 DEF AcquireRunLock, Live
<1>9. CASE UNCHANGED vars \/ UserEdits \/ UserTidies \/ UserRemovesLock
           \/ RequestStop \/ ClearStop
  <2>1. UNCHANGED <<pc, iter, try>>
    BY <1>9 DEF UserEdits, UserTidies, UserRemovesLock, RequestStop, ClearStop,
                procVars, vars
  <2> QED BY <1>5, <2>1
<1> QED BY <1>4, <1>6, <1>7, <1>8, <1>9 DEF Next, Environment

(* A run takes at most 20 * (MaxIterations + 1) steps of its own, whatever *)
(* the agent answers and whoever interferes: no way round the loop is free.  *)
THEOREM RunsAreFinite == Spec => StepsRunOut
<1>1. ASSUME TypeInv, BrakesInv, TypeInv', BrakesInv', [Next]_vars
      PROVE  Live => StepsLeft' <= StepsLeft /\ (Engine => StepsLeft' < StepsLeft)
  BY <1>1, EngineUsesSteps, NothingGivesStepsBack
<1>2. TypeInv /\ BrakesInv /\ (TypeInv /\ BrakesInv)' /\ [Next]_vars =>
          (Live => StepsLeft' <= StepsLeft /\ (Engine => StepsLeft' < StepsLeft))
  BY <1>1
<1> QED BY <1>2, BrakesInvariant, PTL DEF StepsRunOut, Spec

-----------------------------------------------------------------------------
(* Baseline: the loop treats the working tree as WorkTreeProofs shows git to *)
(* serve it, and the two meet in the same abstract specification.          *)

(* A commit adds one to what HEAD has of the authors it holds writes of.   *)
LEMMA HeadGrows ==
    ASSUME TypeOK, NEW c \in Commit, history' = Append(history, c)
    PROVE  {a \in Author : HeadOf'[a] # HeadOf[a]} = c.writes
<1> DEFINE Of(a) == {i \in 1 .. HeadCommit : a \in history[i].writes}
<1>1. /\ HeadCommit' = HeadCommit + 1 /\ HeadCommit \in Nat
      /\ history'[HeadCommit + 1] = c
      /\ \A i \in 1 .. HeadCommit : history'[i] = history[i]
  BY OneMoreCommit
<1>2. 1 .. (HeadCommit + 1) = (1 .. HeadCommit) \cup {HeadCommit + 1}
  BY <1>1
<1>3. ASSUME NEW a \in Author
      PROVE  HeadOf'[a] # HeadOf[a] <=> a \in c.writes
  <2>1. HeadOf[a] = Cardinality(Of(a)) /\ HeadOf'[a] = Cardinality(Of(a)')
    BY DEF HeadOf
  <2>2. IsFiniteSet(Of(a)) /\ Cardinality(Of(a)) \in Nat
    <3>1. IsFiniteSet(1 .. HeadCommit)
      BY <1>1, FS_Interval
    <3>2. Of(a) \subseteq 1 .. HeadCommit
      OBVIOUS
    <3>3. IsFiniteSet(Of(a))
      BY <3>1, <3>2, FS_Subset
    <3> QED BY <3>3, FS_CardinalityType
  <2>3. HeadCommit + 1 \notin Of(a)
    BY <1>1
  <2>4. Of(a)' = {i \in 1 .. (HeadCommit + 1) : a \in history'[i].writes}
    BY <1>1
  <2>5. CASE a \in c.writes
    <3>1. Of(a)' = Of(a) \cup {HeadCommit + 1}
      BY <1>1, <1>2, <2>4, <2>5
    <3> HIDE DEF Of
    <3>2. Cardinality(Of(a) \cup {HeadCommit + 1}) = Cardinality(Of(a)) + 1
      BY <2>2, <2>3, FS_AddElement
    <3> QED BY <2>1, <2>2, <2>5, <3>1, <3>2
  <2>6. CASE a \notin c.writes
    <3>1. Of(a)' = Of(a)
      BY <1>1, <1>2, <2>4, <2>6
    <3> QED BY <2>1, <2>6, <3>1
  <2> QED BY <2>5, <2>6
<1>4. c.writes \subseteq Author
  BY DEF Commit
<1> QED BY <1>3, <1>4

LEMMA HeadStays == history' = history => HeadOf' = HeadOf
BY DEF HeadOf, HeadCommit

LEMMA BaseStep ==
    ASSUME ~EditsInTurn, TypeInv, TypeInv', [Next]_vars
    PROVE  [Base!Next]_<<PlaceOf, HeadOf, dirt>>
<1> USE DEF Goto, Finish, diskVars, procVars, boundVars
<1>1. dirt \subseteq Author /\ dirt' \subseteq Author
  BY DEF TypeInv, TypeOK
<1>2. ASSUME UNCHANGED <<pc, history, dirt>>
      PROVE  UNCHANGED <<PlaceOf, HeadOf, dirt>>
  BY <1>2, HeadStays DEF PlaceOf
<1>3. CASE UNCHANGED vars \/ UserRemovesLock \/ RequestStop \/ ClearStop
  BY <1>2, <1>3 DEF vars, UserRemovesLock, RequestStop, ClearStop
<1>4. CASE RefuseDirtyStart \/ EndRun \/ ReleaseRunLock \/ AcquireRunLock
  <2>1. PlaceOf = "idle" /\ PlaceOf' = "idle" /\ UNCHANGED <<history, dirt>>
    BY <1>4 DEF RefuseDirtyStart, EndRun, ReleaseRunLock, AcquireRunLock, PlaceOf
  <2> QED BY <2>1, HeadStays
<1>5. CASE StartRun \/ \E t \in Task : ClaimTask(t)
  <2>1. /\ \/ PlaceOf = "idle" /\ PlaceOf' = "claim"
           \/ PlaceOf = "claim" /\ PlaceOf' = "turn"
        /\ dirt = {} /\ UNCHANGED <<history, dirt>>
    BY <1>5 DEF StartRun, ClaimTask, CleanTree, PlaceOf
  <2>2. Base!Begin
    BY <2>1, HeadStays DEF Base!Begin
  <2> QED BY <2>2 DEF Base!Next
<1>6. CASE StopAtBoundary \/ BudgetAtBoundary \/ DrainQueue \/ RefuseDirtyClaim
           \/ EscalateHonest \/ EscalateExhausted \/ Unwind \/ Crash
  <2>1. PlaceOf' = "idle" /\ UNCHANGED <<history, dirt>>
    BY <1>6 DEF StopAtBoundary, BudgetAtBoundary, DrainQueue, RefuseDirtyClaim,
                EscalateHonest, EscalateExhausted, Unwind, Crash, PlaceOf
  <2>2. Base!End
    BY <2>1, HeadStays DEF Base!End
  <2> QED BY <2>2 DEF Base!Next
<1>7. CASE PassBoundary \/ Persist \/ WritePrompt \/ AnnouncePrompt
  <2>1. PlaceOf' = PlaceOf /\ UNCHANGED <<history, dirt>>
    BY <1>7, PersistMoves DEF PassBoundary, WritePrompt, AnnouncePrompt, PlaceOf
  <2> QED BY <2>1, HeadStays
<1>8. CASE TurnUnparseable \/ RunnerRaises \/ \E o \in TurnOutcomes : TurnReturns(o)
  <2>1. /\ PlaceOf = "turn" /\ PlaceOf' \in {"judge", "revert", "idle"}
        /\ UNCHANGED history
    BY <1>8 DEF TurnUnparseable, RunnerRaises, TurnReturns, PlaceOf
  <2>2. Base!Turn
    BY <1>1, <2>1, HeadStays DEF Base!Turn
  <2> QED BY <2>2 DEF Base!Next
<1>9. CASE MarkVerified \/ RejectTask
  <2>1. /\ PlaceOf = "judge" /\ PlaceOf' \in {"commit", "revert"}
        /\ UNCHANGED <<history, dirt>>
    BY <1>9 DEF MarkVerified, RejectTask, PlaceOf
  <2>2. Base!Judge
    BY <1>1, <2>1, HeadStays DEF Base!Judge
  <2> QED BY <2>2 DEF Base!Next
<1>10. CASE \E v \in {"pass", "fail"} : Judge(v)
  <2>1. PlaceOf' = PlaceOf /\ UNCHANGED <<history, dirt>>
    BY <1>10 DEF Judge, PlaceOf
  <2> QED BY <2>1, HeadStays
<1>11. CASE RevertForRetry \/ RevertForNextAttempt
  <2>1. /\ PlaceOf = "revert" /\ PlaceOf' \in {"turn", "claim"}
        /\ dirt' = {} /\ UNCHANGED history
    BY <1>11 DEF RevertForRetry, RevertForNextAttempt, RestoreTree, PlaceOf
  <2>2. Base!Revert
    BY <2>1, HeadStays DEF Base!Revert
  <2> QED BY <2>2 DEF Base!Next
<1>12. CASE CommitVerified
  <2>1. /\ PlaceOf = "commit" /\ PlaceOf' = "claim" /\ dirt' = {}
        /\ history' = Append(history, [task |-> cur, writes |-> dirt])
    BY <1>12 DEF CommitVerified, CommitTree, PlaceOf
  <2>2. [task |-> cur, writes |-> dirt] \in Commit
    <3>1. cur \in Task
      BY <1>12 DEF TypeInv, CommitVerified, TurnPlaces
    <3> QED BY <1>1, <3>1 DEF Commit, Author
  <2>3. {a \in Author : HeadOf'[a] # HeadOf[a]} = dirt
    BY <2>1, <2>2, HeadGrows DEF TypeInv
  <2>4. Base!Commit
    BY <2>1, <2>3 DEF Base!Commit
  <2> QED BY <2>4 DEF Base!Next
<1>13. CASE UserEdits
  <2>1. /\ PlaceOf \in {"idle", "claim"} /\ PlaceOf' = PlaceOf
        /\ UNCHANGED history
    <3>1. pc \notin TurnPlaces /\ UNCHANGED <<pc, history>>
      BY <1>13 DEF UserEdits
    <3> QED BY <3>1 DEF PlaceOf, TurnPlaces
  <2>2. Base!Between
    BY <1>1, <2>1, HeadStays DEF Base!Between
  <2> QED BY <2>2 DEF Base!Next
<1>14. CASE UserTidies
  <2>1. PlaceOf = "idle" /\ PlaceOf' = PlaceOf
    BY <1>14 DEF UserTidies, PlaceOf
  <2>2. Base!Between
    BY <1>1, <2>1 DEF Base!Between
  <2> QED BY <2>2 DEF Base!Next
<1> QED
  BY <1>3, <1>4, <1>5, <1>6, <1>7, <1>8, <1>9, <1>10, <1>11, <1>12, <1>13, <1>14
  DEF Next, Engine, Environment

(* Runs implement Baseline: no turn starts on a dirty tree, each one ends in *)
(* a commit, a revert or a run that stops, and HEAD gets what was committed. *)
THEOREM LoopImplementsBaseline ==
    ASSUME ~EditsInTurn
    PROVE  Spec => KeepsToBaseline
<1>1. Init => Base!Init
  BY DEF Init, Base!Init, PlaceOf
<1>2. TypeInv /\ TypeInv' /\ [Next]_vars => [Base!Next]_<<PlaceOf, HeadOf, dirt>>
  BY BaseStep
<1> QED BY <1>1, <1>2, TypeInvariant, PTL DEF Spec, KeepsToBaseline, Base!Spec
=============================================================================
