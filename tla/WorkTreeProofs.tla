--------------------------- MODULE WorkTreeProofs ---------------------------
(***************************************************************************)
(* What a commit holds, what a revert leaves, and that both are single     *)
(* steps to the loop: for any paths, contents, ignore rules, number of     *)
(* turns and faults.                                                       *)
(***************************************************************************)
EXTENDS WorkTree, TLAPS

Work == Path \ State

TypeInv ==
    /\ TypeOK
    /\ pc \in {"unstage", "commit"} => index \in Tree

(* What the turn does to tree and index, a path at a time. *)

(* Writing one path of a tree, or another run of the log, touches no other. *)
LEMMA OneWritten ==
    ASSUME NEW t \in Tree, NEW q \in Path, NEW c \in File
    PROVE  /\ [t EXCEPT ![q] = c] \in Tree
           /\ [t EXCEPT ![q] = c][q] = c
           /\ \A p \in Path \ {q} : [t EXCEPT ![q] = c][p] = t[p]
BY DEF Tree

LEMMA LoggedWrites ==
    ASSUME NEW t \in Tree, NEW s \in Logged(t)
    PROVE  s \in Tree /\ \A p \in Path \ {Log} : s[p] = t[p]
<1>1. PICK c \in Content : s = [t EXCEPT ![Log] = c]
  BY DEF Logged
<1>2. c \in File /\ Log \in Path
  BY PathAssumption DEF File
<1>3. \A q \in Path : \A d \in File :
         /\ [t EXCEPT ![q] = d] \in Tree
         /\ \A p \in Path \ {q} : [t EXCEPT ![q] = d][p] = t[p]
  BY OneWritten
<1> QED BY <1>1, <1>2, <1>3

LEMMA UnlockedWrites ==
    ASSUME NEW t \in Tree
    PROVE  Unlocked(t) \in Tree /\ \A p \in Path \ {Lock} : Unlocked(t)[p] = t[p]
<1>1. None \in File /\ Lock \in Path
  BY PathAssumption DEF File
<1> QED BY <1>1, OneWritten DEF Unlocked

LEMMA RewrittenWrites ==
    ASSUME NEW t \in Tree, NEW S, NEW u \in Rewritten(t, S)
    PROVE  u \in Tree /\ \A p \in Path \ S : u[p] = t[p]
<1>1. PICK w \in [S -> File] : u = [p \in Path |-> IF p \in S THEN w[p] ELSE t[p]]
  BY DEF Rewritten
<1> QED BY <1>1 DEF Tree

LEMMA SweptWrites ==
    ASSUME NEW t \in Tree, NEW u \in Swept(t)
    PROVE  u \in Tree /\ \A p \in Path \ {Scratch} : u[p] = t[p]
<1>1. None \in File /\ Scratch \in Path
  BY PathAssumption DEF File
<1>2. u = t \/ u = [t EXCEPT ![Scratch] = None]
  BY DEF Swept
<1>3. /\ [t EXCEPT ![Scratch] = None] \in Tree
      /\ \A p \in Path \ {Scratch} : [t EXCEPT ![Scratch] = None][p] = t[p]
  BY <1>1, OneWritten
<1> QED BY <1>2, <1>3

(* What runs between the audit and the proof touches what commands write, and  *)
(* the scratch directory.                                                  *)
LEMMA GatesWrite ==
    ASSUME tree \in Tree, HarnessStarts \/ NoHarness \/ CommandsWrite \/ HarnessEnds
    PROVE  /\ tree' \in Tree
           /\ \A p \in Path \ (CommandPath \cup {Scratch}) : tree'[p] = tree[p]
           /\ UNCHANGED <<head, index, turnVars, turns, faults>>
           /\ pc \in {"gates", "suite"} /\ pc' \in {"gates", "suite", "proof"}
<1> USE DEF gitVars, Goto
<1>1. CASE HarnessStarts
  <2>1. Here \in File /\ Scratch \in Path
    BY PathAssumption, ContentAssumption DEF File
  <2>2. /\ [tree EXCEPT ![Scratch] = Here] \in Tree
        /\ \A p \in Path \ {Scratch} : [tree EXCEPT ![Scratch] = Here][p] = tree[p]
    BY <2>1, OneWritten
  <2> QED BY <1>1, <2>2 DEF HarnessStarts
<1>2. CASE NoHarness
  BY <1>2 DEF NoHarness
<1>3. CASE CommandsWrite
  <2>1. tree' \in Rewritten(tree, CommandPath)
    BY <1>3 DEF CommandsWrite
  <2>2. tree' \in Tree /\ \A p \in Path \ CommandPath : tree'[p] = tree[p]
    BY <2>1, RewrittenWrites
  <2> QED BY <1>3, <2>2 DEF CommandsWrite
<1>4. CASE HarnessEnds
  <2>1. tree' \in Swept(tree)
    BY <1>4 DEF HarnessEnds
  <2>2. tree' \in Tree /\ \A p \in Path \ {Scratch} : tree'[p] = tree[p]
    BY <2>1, SweptWrites
  <2> QED BY <1>4, <2>2 DEF HarnessEnds
<1> QED BY <1>1, <1>2, <1>3, <1>4

(* A run that ends takes its lock, and a suite its scratch directory.      *)
LEMMA EndWrites ==
    ASSUME tree \in Tree, EndRun \/ Unwind \/ Kill
    PROVE  /\ tree' \in Tree
           /\ \A p \in Path \ {Lock, Scratch} : tree'[p] = tree[p]
           /\ tree'[Scratch] # tree[Scratch] => pc = "suite"
           /\ pc' = "idle" /\ UNCHANGED <<head, index>>
<1> USE DEF gitVars, Goto
<1>1. Scratch \in Path \ {Lock} /\ Lock \in Path
  BY PathAssumption
<1>2. CASE EndRun
  BY <1>1, <1>2, UnlockedWrites DEF EndRun
<1>3. CASE Unwind
  <2>1. PICK t \in IF pc = "suite" THEN Swept(tree) ELSE {tree} : tree' = Unlocked(t)
    BY <1>3 DEF Unwind
  <2>2. /\ t \in Tree /\ (\A p \in Path \ {Scratch} : t[p] = tree[p])
        /\ pc # "suite" => t = tree
    BY <2>1, SweptWrites
  <2> QED BY <1>1, <1>3, <2>1, <2>2, UnlockedWrites DEF Unwind
<1>4. CASE Kill
  BY <1>4 DEF Kill
<1> QED BY <1>2, <1>3, <1>4

LEMMA GitTypes ==
    ASSUME NEW h \in Tree, NEW t \in Tree, NEW i \in [Path -> File \cup {Ita}], NEW S
    PROVE  /\ IntentToAdd(i, t) \in [Path -> File \cup {Ita}]
           /\ AddAll(i, t) \in Tree
           /\ Restored(h, i, t, S) \in Tree
           /\ Cleaned(i, t, S) \in Tree
           /\ DOMAIN Diff(h, i, t) \subseteq Path
           /\ Dirty(h, i, t) \subseteq Path
<1>1. IntentToAdd(i, t) \in [Path -> File \cup {Ita}]
  BY DEF IntentToAdd, File
<1>2. AddAll(i, t) \in Tree
  BY DEF AddAll, Tree, File
<1>3. Restored(h, i, t, S) \in Tree
  BY DEF Restored, Tree
<1>4. Cleaned(i, t, S) \in Tree
  BY DEF Cleaned, Tree, File
<1>5. DOMAIN Diff(h, i, t) \subseteq Path
  BY DEF Diff
<1>6. Dirty(h, i, t) \subseteq Path
  BY DEF Dirty
<1> QED BY <1>1, <1>2, <1>3, <1>4, <1>5, <1>6

LEMMA TypeInit == Init => TypeInv
<1> SUFFICES ASSUME Init PROVE TypeInv
  OBVIOUS
<1>1. head \in Tree
  BY ContentAssumption DEF Init, Tree, File
<1>2. index \in [Path -> File \cup {Ita}]
  BY <1>1 DEF Init, Tree
<1> QED BY <1>1, <1>2 DEF Init, TypeInv, TypeOK, Places, NoPatch

LEMMA ForgetTypes ==
    ASSUME TypeOK, ForgetTurn
    PROVE  /\ try' \in {0, 1} /\ why' \in {"unparseable_result", "gate_failure"}
           /\ DOMAIN judged' \subseteq Path /\ DOMAIN patch' \subseteq Path
           /\ reported' \subseteq Path /\ saved' \in Tree
BY DEF TypeOK, ForgetTurn, NoPatch

LEMMA TypeStep == TypeInv /\ [Next]_vars => TypeInv'
<1> SUFFICES ASSUME TypeInv, [Next]_vars PROVE TypeInv'
  OBVIOUS
<1> USE DEF TypeInv, TypeOK, Goto, gitVars, turnVars
<1>a. None \in File /\ Here \in File /\ {Lock, Log, Scratch} \subseteq Path
  BY PathAssumption, ContentAssumption DEF File
<1>b. UnexpectedDirt \subseteq Path
  BY GitTypes DEF UnexpectedDirt
<1>1. CASE StartRun
  <2>1. [tree EXCEPT ![Lock] = Here] \in Tree
    BY <1>a, OneWritten
  <2>2. tree' \in Tree
    BY <1>1, <2>1, LoggedWrites DEF StartRun
  <2> QED BY <1>1, <2>2 DEF StartRun, Places
<1>2. CASE ClaimTask
  BY <1>2, ForgetTypes DEF ClaimTask, Places
<1>3. CASE TurnCompleted
  <2>1. tree' \in Tree
    BY <1>3, RewrittenWrites DEF TurnCompleted, AgentWrites
  <2> QED BY <1>3, <2>1 DEF TurnCompleted, Places
<1>4. CASE TurnUnparseable
  <2>1. tree' \in Tree
    BY <1>4, RewrittenWrites DEF TurnUnparseable, AgentWrites
  <2> QED BY <1>4, <2>1 DEF TurnUnparseable, Places
<1>5. CASE TurnKept
  <2>1. tree' \in Tree
    BY <1>5, RewrittenWrites, UnlockedWrites DEF TurnKept
  <2> QED BY <1>5, <2>1, ForgetTypes DEF TurnKept, Places
<1>6. CASE ScopeCheck
  <2>1. index' \in [Path -> File \cup {Ita}]
    BY <1>6, GitTypes DEF ScopeCheck
  <2>2. DOMAIN judged' \subseteq Path
    BY <1>6, <2>1, GitTypes DEF ScopeCheck
  <2> QED BY <1>6, <2>1, <2>2 DEF ScopeCheck, Places
<1>7. CASE HarnessStarts \/ NoHarness \/ CommandsWrite \/ HarnessEnds
  <2>1. tree' \in Tree /\ UNCHANGED <<head, index, turnVars, turns, faults>>
        /\ pc' \in {"gates", "suite", "proof"}
    BY <1>7, GatesWrite
  <2> QED BY <2>1 DEF Places
<1>8. CASE PersistProof
  <2>1. index' \in [Path -> File \cup {Ita}]
    BY <1>8, GitTypes DEF PersistProof
  <2>2. DOMAIN patch' \subseteq Path
    BY <1>8, <2>1, GitTypes DEF PersistProof
  <2>3. pc' \in {"add", "list", "keep"} /\ why' = "gate_failure"
    BY <1>8 DEF PersistProof
  <2> QED BY <1>8, <2>1, <2>2, <2>3 DEF PersistProof, Places
<1>9. CASE StageAll
  <2>1. index' \in Tree
    BY <1>9, GitTypes DEF StageAll
  <2>2. index' \in [Path -> File \cup {Ita}]
    BY <2>1 DEF Tree
  <2> QED BY <1>9, <2>1, <2>2 DEF StageAll, Places
<1>10. CASE UnstageExcluded
  <2>1. index' \in Tree
    BY <1>10 DEF UnstageExcluded, Tree
  <2>2. index' \in [Path -> File \cup {Ita}]
    BY <2>1 DEF Tree
  <2> QED BY <1>10, <2>1, <2>2 DEF UnstageExcluded, Places
<1>11. CASE CommitStaged
  <2>1. tree' \in Tree
    <3>1. PICK c \in Content : tree' = [tree EXCEPT ![Log] = c]
      BY <1>11 DEF CommitStaged
    <3> QED BY <1>a, <3>1, OneWritten DEF File
  <2> QED BY <1>11, <2>1 DEF CommitStaged, Places
<1>12. CASE ListDiscarded
  BY <1>12, <1>b DEF ListDiscarded, Places
<1>13. CASE RestoreTracked
  <2>1. tree' \in Tree
    BY <1>13, GitTypes DEF RestoreTracked
  <2>2. index' \in [Path -> File \cup {Ita}]
    BY <1>13 DEF RestoreTracked, Tree
  <2> QED BY <1>13, <2>1, <2>2 DEF RestoreTracked, Places
<1>14. CASE CleanUntracked
  <2>1. tree' \in Tree
    BY <1>14, GitTypes DEF CleanUntracked
  <2> QED BY <1>14, <2>1 DEF CleanUntracked, Places
<1>15. CASE AfterRevert
  <2>1. pc' \in {"turn", "claim"} /\ try' \in {0, 1}
    BY <1>15 DEF AfterRevert
  <2> QED BY <1>15, <2>1 DEF AfterRevert, Places
<1>16. CASE EndRun
  BY <1>16, ForgetTypes, UnlockedWrites DEF EndRun, Places
<1>17. CASE Unwind
  <2>1. tree' \in Tree
    BY <1>17, EndWrites
  <2> QED BY <1>17, <2>1, ForgetTypes DEF Unwind, Places
<1>18. CASE Kill
  BY <1>18, ForgetTypes DEF Kill, Places
<1>19. CASE UserRemovesLock
  BY <1>19, UnlockedWrites DEF UserRemovesLock, Places
<1>20. CASE UserTidies
  <2> DEFINE t == [tree EXCEPT ![Scratch] = None]
             i == AddAll(index, t)
             r == Restored(head, index, t, State)
             j == [p \in Path |-> IF p \in State THEN index[p] ELSE head[p]]
  <2>1. t \in Tree
    BY <1>a, OneWritten
  <2>2. i \in Tree /\ r \in Tree
    BY <2>1, GitTypes
  <2>3. i \in [Path -> File \cup {Ita}] /\ j \in [Path -> File \cup {Ita}]
    BY <2>2 DEF Tree
  <2>4. Cleaned(j, r, State) \in Tree
    BY <2>2, <2>3, GitTypes
  <2>5. \/ head' = i /\ index' = i /\ tree' = t
        \/ index' = j /\ tree' = Cleaned(j, r, State) /\ head' = head
    BY <1>20 DEF UserTidies
  <2>6. head' \in Tree /\ tree' \in Tree /\ index' \in [Path -> File \cup {Ita}]
    BY <2>1, <2>2, <2>3, <2>4, <2>5
  <2> QED BY <1>20, <2>6 DEF UserTidies
<1>21. CASE UNCHANGED vars
  BY <1>21 DEF vars
<1> QED BY <1>1, <1>2, <1>3, <1>4, <1>5, <1>6, <1>7, <1>8, <1>9, <1>10, <1>11, <1>12,
           <1>13, <1>14, <1>15, <1>16, <1>17, <1>18, <1>19, <1>20, <1>21
        DEF Next, Run, Environment

THEOREM WorkTreeTypeCorrect == Spec => []TypeOK
<1>1. TypeInv => TypeOK
  BY DEF TypeInv
<1> QED BY <1>1, TypeInit, TypeStep, PTL DEF Spec

-----------------------------------------------------------------------------
(* Whatever the agent writes *)

(* Index and tree after an audit: what is not in the tree is not in the      *)
(* index, and what only the tree has is ignored.                           *)
Closed(i, t) ==
    \A p \in Path : /\ t[p] = None => i[p] = None
                    /\ i[p] = None /\ t[p] # None => p \in Ignored(t)

(* A turn starts with the index of HEAD, and a revert ends with it. *)
IndexIsHead ==
    pc \in {"turn", "audit", "clean", "reverted"} =>
        \A p \in Work : index[p] = head[p]

TrackedIsRestored ==
    pc \in {"clean", "reverted"} =>
        \A p \in Work : head[p] # None => tree[p] = head[p]

AuditIsClosed ==
    \/ pc = "add"
    \/ pc \in {"list", "restore"} /\ why = "gate_failure"
    => Closed(index, tree)

(* After an audited turn the rules are HEAD's, or gone, or hide themselves.  *)
RulesAreSettled ==
    pc = "clean" /\ why = "gate_failure" /\ head[Rules] = None =>
        tree[Rules] = None \/ Rules \in Ignored(tree)

(* What is staged is the tree, except for files that are ignored. *)
StagedIsTree ==
    /\ pc \in {"unstage", "commit"} =>
           \A p \in Path \ Control :
               index[p] = tree[p] \/ (index[p] = None /\ p \in Ignored(tree))
    /\ pc = "commit" => \A p \in Control : index[p] = head[p]

GitInv ==
    /\ TypeInv
    /\ IndexIsHead
    /\ TrackedIsRestored
    /\ AuditIsClosed
    /\ RulesAreSettled
    /\ StagedIsTree
    /\ AuditedRevertIsClean

(* An intent to add closes the index.  *)
LEMMA IntentCloses ==
    ASSUME NEW t \in Tree, NEW i \in [Path -> File \cup {Ita}]
    PROVE  Closed(IntentToAdd(i, t), t)
BY ContentAssumption DEF Closed, IntentToAdd, Tree, File, Ignored

(* What is tracked is clean when it is HEAD's, in index and tree. *)
LEMMA CleanPath ==
    ASSUME NEW p \in Work, index[p] = head[p],
           tree[p] # head[p] => head[p] = None /\ p \in Ignored(tree)
    PROVE  p \notin UnexpectedDirt
BY DEF UnexpectedDirt, Dirty

LEMMA DirtyPath ==
    ASSUME NEW p \in Work, p \notin UnexpectedDirt
    PROVE  /\ index[p] = head[p]
           /\ tree[p] # head[p] => head[p] = None /\ p \in Ignored(tree)
BY DEF UnexpectedDirt, Dirty, Work

LEMMA GitStepQuiet ==
    ASSUME GitInv, [Next]_vars,
           pc' \notin {"turn", "audit", "add", "unstage", "commit",
                      "list", "restore", "clean", "reverted"}
    PROVE  GitInv'
<1>1. TypeInv'
  BY TypeStep DEF GitInv
<1> QED BY <1>1 DEF GitInv, IndexIsHead, TrackedIsRestored, AuditIsClosed, RulesAreSettled,
                    StagedIsTree, AuditedRevertIsClean

LEMMA GitStep == GitInv /\ [Next]_vars => GitInv'
<1> SUFFICES ASSUME GitInv, [Next]_vars PROVE GitInv'
  OBVIOUS
<1> DEFINE Quiet == pc' \notin {"turn", "audit", "add", "unstage", "commit",
                               "list", "restore", "clean", "reverted"}
<1>typ. TypeInv /\ TypeInv' /\ TypeOK
  BY TypeStep DEF GitInv, TypeInv
<1>pth. /\ Rules \in Path \ State /\ Rules \in Work /\ Log \in Path \ Control
        /\ Control \subseteq State
  BY PathAssumption DEF Work
<1> USE DEF Goto, gitVars, turnVars
<1>1. CASE ClaimTask
  <2>1. pc' = "turn" /\ UnexpectedDirt = {} /\ index' = index /\ head' = head
    BY <1>1 DEF ClaimTask
  <2>2. \A p \in Work : index[p] = head[p]
    BY <2>1, DirtyPath
  <2> QED BY <1>typ, <2>1, <2>2
          DEF GitInv, IndexIsHead, TrackedIsRestored, AuditIsClosed, RulesAreSettled,
              StagedIsTree, AuditedRevertIsClean
<1>2. CASE TurnCompleted
  <2>1. pc = "turn" /\ pc' = "audit" /\ index' = index /\ head' = head
    BY <1>2 DEF TurnCompleted
  <2> QED BY <1>typ, <2>1
          DEF GitInv, IndexIsHead, TrackedIsRestored, AuditIsClosed, RulesAreSettled,
              StagedIsTree, AuditedRevertIsClean
<1>3. CASE TurnUnparseable
  <2>1. pc' = "list" /\ why' = "unparseable_result"
    BY <1>3 DEF TurnUnparseable
  <2> QED BY <1>typ, <2>1
          DEF GitInv, IndexIsHead, TrackedIsRestored, AuditIsClosed, RulesAreSettled,
              StagedIsTree, AuditedRevertIsClean
<1>4. CASE PersistProof
  <2>1. pc' \in {"add", "list", "keep"} /\ index' = IntentToAdd(index, tree) /\ tree' = tree
    BY <1>4 DEF PersistProof
  <2>2. Closed(index', tree')
    BY <1>typ, <2>1, IntentCloses DEF TypeOK
  <2> QED BY <1>typ, <2>1, <2>2
          DEF GitInv, IndexIsHead, TrackedIsRestored, AuditIsClosed, RulesAreSettled,
              StagedIsTree, AuditedRevertIsClean
<1>5. CASE StageAll
  <2>1. pc' = "unstage" /\ index' = AddAll(index, tree) /\ tree' = tree
    BY <1>5 DEF StageAll
  <2>2. \A p \in Path : index'[p] = tree'[p] \/ (index'[p] = None /\ p \in Ignored(tree'))
    BY <2>1 DEF AddAll
  <2> QED BY <1>typ, <2>1, <2>2
          DEF GitInv, IndexIsHead, TrackedIsRestored, AuditIsClosed, RulesAreSettled,
              StagedIsTree, AuditedRevertIsClean
<1>6. CASE UnstageExcluded
  <2>1. pc = "unstage" /\ pc' = "commit" /\ tree' = tree /\ head' = head
    BY <1>6 DEF UnstageExcluded
  <2>2. \A p \in Path : index'[p] = IF p \in Control THEN head[p] ELSE index[p]
    BY <1>6 DEF UnstageExcluded
  <2>3. \A p \in Path \ Control :
            index'[p] = tree'[p] \/ (index'[p] = None /\ p \in Ignored(tree'))
    BY <2>1, <2>2 DEF GitInv, StagedIsTree
  <2>4. \A p \in Control : index'[p] = head'[p]
    BY <1>pth, <2>1, <2>2, PathAssumption
  <2> QED BY <1>typ, <2>1, <2>3, <2>4
          DEF GitInv, IndexIsHead, TrackedIsRestored, AuditIsClosed, RulesAreSettled,
              StagedIsTree, AuditedRevertIsClean
<1>7. CASE ListDiscarded
  <2>1. pc = "list" /\ pc' = "restore" /\ UNCHANGED <<tree, index, why>>
    BY <1>7 DEF ListDiscarded
  <2>2. why = "gate_failure" => Closed(index, tree)
    BY <2>1 DEF GitInv, AuditIsClosed
  <2>3. why' = "gate_failure" => Closed(index', tree')
    BY <2>1, <2>2 DEF Closed
  <2> QED BY <1>typ, <2>1, <2>3
          DEF GitInv, IndexIsHead, TrackedIsRestored, AuditIsClosed, RulesAreSettled,
              StagedIsTree, AuditedRevertIsClean
<1>8. CASE RestoreTracked
  <2>1. pc = "restore" /\ pc' = "clean" /\ head' = head /\ why' = why
    BY <1>8 DEF RestoreTracked
  <2>2. \A p \in Work : /\ index'[p] = head[p]
                        /\ head[p] # None => tree'[p] = head[p]
                        /\ index[p] # None => tree'[p] = head[p]
                        /\ head[p] = None /\ index[p] = None => tree'[p] = tree[p]
    BY <1>8 DEF RestoreTracked, Restored, Work
  <2>3. why = "gate_failure" /\ head[Rules] = None =>
            tree'[Rules] = None \/ Rules \in Ignored(tree')
    <3> SUFFICES ASSUME why = "gate_failure", head[Rules] = None, tree'[Rules] # None
                 PROVE  Rules \in Ignored(tree')
      OBVIOUS
    <3>1. index[Rules] = None /\ tree'[Rules] = tree[Rules]
      BY <1>pth, <2>2
    <3>2. Rules \in Ignored(tree)
      BY <1>pth, <2>1, <3>1 DEF GitInv, AuditIsClosed, Closed
    <3> QED BY <3>1, <3>2 DEF Ignored
  <2> QED BY <1>typ, <2>1, <2>2, <2>3
          DEF GitInv, IndexIsHead, TrackedIsRestored, AuditIsClosed, RulesAreSettled,
              StagedIsTree, AuditedRevertIsClean
<1>9. CASE CleanUntracked
  <2>1. pc = "clean" /\ pc' = "reverted" /\ UNCHANGED <<head, index, why>>
    BY <1>9 DEF CleanUntracked
  <2>2. \A p \in Work : /\ index[p] = head[p] /\ index'[p] = head'[p]
                        /\ head[p] # None => tree'[p] = head[p]
                        /\ head[p] = None => tree'[p] = IF p \in Ignored(tree) THEN tree[p]
                                                       ELSE None
    BY <1>9, <2>1 DEF CleanUntracked, Cleaned, Work, GitInv, IndexIsHead, TrackedIsRestored
  <2>3. ASSUME why = "gate_failure" PROVE UnexpectedDirt' = {}
    <3>1. tree'[Rules] = tree[Rules]
      BY <1>pth, <2>1, <2>2, <2>3 DEF GitInv, RulesAreSettled, TrackedIsRestored
    <3>2. Ignored(tree') = Ignored(tree)
      BY <3>1 DEF Ignored
    <3>3. \A p \in Work : p \notin UnexpectedDirt'
      BY <2>1, <2>2, <3>2 DEF UnexpectedDirt, Dirty
    <3> QED BY <3>3 DEF UnexpectedDirt, Dirty, Work
  <2> QED BY <1>typ, <2>1, <2>2, <2>3
          DEF GitInv, IndexIsHead, TrackedIsRestored, AuditIsClosed, RulesAreSettled,
              StagedIsTree, AuditedRevertIsClean
<1>10. CASE AfterRevert
  <2>1. pc = "reverted" /\ pc' \in {"turn", "claim"} /\ index' = index /\ head' = head
    BY <1>10 DEF AfterRevert
  <2> QED BY <1>typ, <2>1
          DEF GitInv, IndexIsHead, TrackedIsRestored, AuditIsClosed, RulesAreSettled,
              StagedIsTree, AuditedRevertIsClean
<1>11. CASE StartRun \/ TurnKept \/ ScopeCheck \/ HarnessStarts \/ NoHarness \/ CommandsWrite
            \/ HarnessEnds \/ CommitStaged \/ EndRun \/ Unwind \/ Kill \/ UserRemovesLock \/ UserTidies
  <2>1. pc' \in {"idle", "claim", "gates", "suite", "proof"}
    BY <1>11 DEF StartRun, TurnKept, ScopeCheck, HarnessStarts, NoHarness, CommandsWrite, HarnessEnds, CommitStaged,
                 EndRun, Unwind, Kill, UserRemovesLock, UserTidies
  <2> QED BY <2>1, GitStepQuiet
<1>12. CASE UNCHANGED vars
  <2>1. UNCHANGED <<head, index, tree, pc, why>>
    BY <1>12 DEF vars
  <2>2. UnexpectedDirt' = UnexpectedDirt
    BY <2>1 DEF UnexpectedDirt
  <2> QED BY <1>typ, <2>1, <2>2
          DEF GitInv, IndexIsHead, TrackedIsRestored, AuditIsClosed, RulesAreSettled,
              StagedIsTree, AuditedRevertIsClean, Closed
<1> QED BY <1>1, <1>2, <1>3, <1>4, <1>5, <1>6, <1>7, <1>8, <1>9, <1>10, <1>11, <1>12
        DEF Next, Run, Environment

LEMMA GitInit == Init => GitInv
<1> SUFFICES ASSUME Init PROVE GitInv
  OBVIOUS
<1>1. pc = "idle"
  BY DEF Init
<1> QED BY <1>1, TypeInit DEF GitInv, IndexIsHead, TrackedIsRestored, AuditIsClosed, RulesAreSettled,
                              StagedIsTree, AuditedRevertIsClean

(* Whatever the agent writes, its ignore rules included, a revert after an   *)
(* audited turn leaves nothing of it behind.                               *)
THEOREM AuditedRevertLeavesClean == Spec => []AuditedRevertIsClean
<1>1. GitInv => AuditedRevertIsClean
  BY DEF GitInv
<1> QED BY <1>1, GitInit, GitStep, PTL DEF Spec

LEMMA CommitStep ==
    ASSUME [Next]_vars, Commits
    PROVE  head' = index
BY DEF Next, Run, Environment, Commits, vars, StartRun, ClaimTask, TurnCompleted, TurnUnparseable,
       TurnKept, ScopeCheck, HarnessStarts, NoHarness, CommandsWrite, HarnessEnds, PersistProof,
       StageAll, UnstageExcluded, CommitStaged, ListDiscarded, RestoreTracked, CleanUntracked,
       AfterRevert, EndRun, Unwind, Kill, UserRemovesLock, UserTidies, Goto

(* Every commit holds the log of the run that made it, and no live lock.   *)
THEOREM CommitsHoldTheEvidence == Spec => EvidenceIsCommitted
<1>1. ASSUME GitInv, [Next]_vars, Commits
      PROVE  head'[Log] = tree[Log] /\ \A p \in Control : head'[p] = head[p]
  <2>1. head' = index /\ pc = "commit"
    BY <1>1, CommitStep DEF Commits
  <2>2. Log \in Path \ Control /\ Log \notin Ignored(tree)
    <3>1. Log \in State /\ Log \notin Control /\ Log \in Path
      BY PathAssumption
    <3>2. tree[Rules] \in Content \cup {None}
      BY <1>1, PathAssumption DEF GitInv, TypeInv, TypeOK, Tree, File
    <3>3. Hidden[tree[Rules]] \subseteq Path \ (State \cup {Scratch})
      BY <3>2, ContentAssumption
    <3> QED BY <3>1, <3>3 DEF Ignored
  <2> QED BY <1>1, <2>1, <2>2 DEF GitInv, StagedIsTree
<1>2. GitInv /\ [Next]_vars => [Commits =>
           /\ head'[Log] = tree[Log]
           /\ \A p \in Control : head'[p] = head[p]]_vars
  BY <1>1
<1> QED BY <1>2, GitInit, GitStep, PTL DEF Spec, EvidenceIsCommitted

(* From the proof to the commit, the persisted diff. *)
RecordInv ==
    /\ pc = "add" => patch = Diff(head, index, tree)
    /\ pc \in {"unstage", "commit"} =>
           \A p \in Work : /\ p \in DOMAIN patch <=> index[p] # head[p]
                           /\ p \in DOMAIN patch => patch[p] = index[p]

(* An add after an intent to add stages what the diff shows. *)
LEMMA AddIsDiff ==
    ASSUME NEW t \in Tree, NEW h \in Tree, NEW i \in [Path -> File \cup {Ita}], Closed(i, t)
    PROVE  /\ DOMAIN Diff(h, i, t) = {p \in Path : AddAll(i, t)[p] # h[p]}
           /\ \A p \in DOMAIN Diff(h, i, t) : Diff(h, i, t)[p] = AddAll(i, t)[p]
<1> DEFINE seen == [p \in Path |-> IF i[p] = None THEN None ELSE t[p]]
<1>1. \A p \in Path : seen[p] = AddAll(i, t)[p]
  BY DEF AddAll, Closed
<1>2. Diff(h, i, t) = [p \in {q \in Path : seen[q] # h[q]} |-> seen[p]]
  BY DEF Diff
<1> QED BY <1>1, <1>2

LEMMA RecordStep == GitInv /\ RecordInv /\ [Next]_vars => RecordInv'
<1> SUFFICES ASSUME GitInv, RecordInv, [Next]_vars PROVE RecordInv'
  OBVIOUS
<1> USE DEF Goto, gitVars, turnVars
<1>typ. tree \in Tree /\ head \in Tree /\ index \in [Path -> File \cup {Ita}]
  BY DEF GitInv, TypeInv, TypeOK
<1>pth. Work \subseteq Path /\ Work \cap Control = {}
  BY PathAssumption DEF Work
<1>1. CASE PersistProof
  BY <1>1 DEF PersistProof, RecordInv
<1>2. CASE StageAll
  <2>1. /\ pc = "add" /\ pc' = "unstage" /\ UNCHANGED <<head, tree, patch>>
        /\ index' = AddAll(index, tree)
    BY <1>2 DEF StageAll
  <2>2. patch = Diff(head, index, tree) /\ Closed(index, tree)
    BY <2>1 DEF RecordInv, GitInv, AuditIsClosed
  <2>3. /\ DOMAIN patch = {p \in Path : index'[p] # head[p]}
        /\ \A p \in DOMAIN patch : patch[p] = index'[p]
    BY <1>typ, <2>1, <2>2, AddIsDiff
  <2> QED BY <1>pth, <2>1, <2>3 DEF RecordInv
<1>3. CASE UnstageExcluded
  <2>1. /\ pc = "unstage" /\ pc' = "commit" /\ UNCHANGED <<head, patch>>
        /\ \A p \in Work : index'[p] = index[p]
    BY <1>3, <1>pth DEF UnstageExcluded
  <2> QED BY <2>1 DEF RecordInv
<1>4. CASE \/ StartRun \/ ClaimTask \/ TurnCompleted \/ TurnUnparseable \/ TurnKept \/ ScopeCheck
           \/ HarnessStarts \/ NoHarness \/ CommandsWrite \/ HarnessEnds \/ CommitStaged
           \/ ListDiscarded \/ RestoreTracked \/ CleanUntracked \/ AfterRevert \/ EndRun
           \/ Unwind \/ Kill \/ UserRemovesLock \/ UserTidies
  <2>1. pc' \notin {"add", "unstage", "commit"}
    BY <1>4 DEF StartRun, ClaimTask, TurnCompleted, TurnUnparseable, TurnKept, ScopeCheck,
                HarnessStarts, NoHarness, CommandsWrite, HarnessEnds, CommitStaged, ListDiscarded,
                RestoreTracked, CleanUntracked, AfterRevert, EndRun, Unwind, Kill,
                UserRemovesLock, UserTidies
  <2> QED BY <2>1 DEF RecordInv
<1>5. CASE UNCHANGED vars
  BY <1>5 DEF vars, RecordInv
<1> QED BY <1>1, <1>2, <1>3, <1>4, <1>5 DEF Next, Run, Environment

LEMMA RecordInit == Init => RecordInv
BY DEF Init, RecordInv

LEMMA RecordedCommit ==
    ASSUME GitInv, RecordInv, [Next]_vars, Commits
    PROVE  CommitIsOnRecord
<1>1. head' = index /\ pc = "commit"
  BY CommitStep DEF Commits
<1>2. DOMAIN patch \subseteq Path
  BY DEF GitInv, TypeInv, TypeOK
<1>3. \A p \in Work : /\ p \in DOMAIN patch <=> head'[p] # head[p]
                      /\ p \in DOMAIN patch => patch[p] = head'[p]
  BY <1>1 DEF RecordInv
<1> QED BY <1>2, <1>3 DEF CommitIsOnRecord, Moved, Work

(* A commit is the diff persisted with its proof, whoever writes what, the   *)
(* ignore rules included, and whatever fails or is killed before it.       *)
THEOREM CommitsAreOnRecord == Spec => [][Commits => CommitIsOnRecord]_vars
<1>1. GitInv /\ RecordInv /\ [Next]_vars => [Commits => CommitIsOnRecord]_vars
  BY RecordedCommit
<1> QED BY <1>1, GitInit, GitStep, RecordInit, RecordStep, PTL DEF Spec

-----------------------------------------------------------------------------
(* Where no command writes *)

Steady == Work \ (CommandPath \cup {Scratch})

(* What a diff of the tree shows of a path. *)
Shown(p) == IF index[p] = None THEN None ELSE tree[p]

(* The index during a turn: HEAD's, and intents, and what was deleted.     *)
AuditedPath(p) ==
    /\ \/ index[p] = head[p]
       \/ index[p] = Ita /\ head[p] = None
       \/ index[p] = None /\ tree[p] = None
    /\ tree[p] = None => index[p] = None
    /\ index[p] = None /\ tree[p] # None => p \in Ignored(tree)
    /\ p \in DOMAIN judged <=> Shown(p) # head[p]
    /\ p \in DOMAIN judged => judged[p] = Shown(p)

StagedPath(p) ==
    /\ p \in DOMAIN judged <=> index[p] # head[p]
    /\ p \in DOMAIN judged => judged[p] = index[p]

AuditInv ==
    /\ pc \in {"gates", "suite", "proof", "add"} => \A p \in Steady : AuditedPath(p)
    /\ pc \in {"unstage", "commit"} => \A p \in Steady : StagedPath(p)

(* A scratch directory that can be removed is in no commit and in no audit. *)
ScratchInv ==
    /\ head[Scratch] = None
    /\ index[Scratch] = None
    /\ pc \notin {"idle", "suite"} => tree[Scratch] = None

ScratchUnseen ==
    pc \in {"gates", "suite", "proof", "add", "unstage", "commit"} => Scratch \notin DOMAIN judged

SweptInv == ScratchSticks = FALSE => ScratchInv /\ ScratchUnseen

LEMMA SteadyIs ==
    ASSUME Rules \notin CommandPath
    PROVE  /\ Steady \subseteq Work /\ Work \subseteq Path /\ Work \cap Control = {}
           /\ Work = Path \ State
           /\ Scratch \in Work \ Steady
           /\ Rules \in Steady
BY PathAssumption DEF Steady, Work

(* What git shows of what the gates leave alone stays the same. *)
LEMMA SteadyDuringGates ==
    ASSUME Rules \notin CommandPath, tree \in Tree,
           HarnessStarts \/ NoHarness \/ CommandsWrite \/ HarnessEnds
    PROVE  /\ \A p \in Steady : tree'[p] = tree[p]
           /\ Ignored(tree') = Ignored(tree)
<1>1. \A p \in Steady : tree'[p] = tree[p]
  BY SteadyIs, GatesWrite DEF Steady
<1> QED BY <1>1, SteadyIs DEF Ignored

LEMMA AuditStep ==
    ASSUME Rules \notin CommandPath
    PROVE  GitInv /\ AuditInv /\ [Next]_vars => AuditInv'
<1> SUFFICES ASSUME GitInv, AuditInv, [Next]_vars PROVE AuditInv'
  OBVIOUS
<1> USE DEF Goto, gitVars, turnVars
<1>typ. tree \in Tree /\ head \in Tree /\ index \in [Path -> File \cup {Ita}]
  BY DEF GitInv, TypeInv, TypeOK
<1>std. /\ Steady \subseteq Work /\ Work \subseteq Path /\ Work \cap Control = {}
        /\ Work = Path \ State
  BY SteadyIs
<1>1. CASE ScopeCheck
  <2>1. /\ pc = "audit" /\ pc' = "gates" /\ head' = head /\ tree' = tree
        /\ index' = IntentToAdd(index, tree)
        /\ judged' = Diff(head, index', tree)
    BY <1>1 DEF ScopeCheck
  <2>2. ASSUME NEW p \in Steady PROVE AuditedPath(p)'
    <3>1. p \in Path /\ index[p] = head[p]
      BY <1>std, <2>1 DEF GitInv, IndexIsHead
    <3>2. index'[p] = IF tree[p] = None THEN None
                      ELSE IF index[p] = None /\ p \notin Ignored(tree) THEN Ita ELSE index[p]
      BY <2>1, <3>1 DEF IntentToAdd
    <3>3. /\ p \in DOMAIN judged' <=> Shown(p)' # head[p]
          /\ p \in DOMAIN judged' => judged'[p] = Shown(p)'
      BY <2>1, <3>1 DEF Diff, Shown
    <3>4. Ita # None
      BY ContentAssumption
    <3> QED BY <2>1, <3>1, <3>2, <3>3, <3>4 DEF AuditedPath
  <2> QED BY <2>1, <2>2 DEF AuditInv
<1>2. CASE HarnessStarts \/ NoHarness \/ CommandsWrite \/ HarnessEnds
  <2>1. /\ pc \in {"gates", "suite"} /\ pc' \in {"gates", "suite", "proof"}
        /\ UNCHANGED <<head, index, judged>>
    BY <1>2, <1>typ, GatesWrite
  <2>2. (\A p \in Steady : tree'[p] = tree[p]) /\ Ignored(tree') = Ignored(tree)
    BY <1>2, <1>typ, SteadyDuringGates
  <2>3. ASSUME NEW p \in Steady PROVE AuditedPath(p)'
    <3>1. AuditedPath(p)
      BY <2>1 DEF AuditInv
    <3>2. Shown(p)' = Shown(p)
      BY <2>1, <2>2 DEF Shown
    <3> QED BY <2>1, <2>2, <3>1, <3>2 DEF AuditedPath
  <2> QED BY <2>1, <2>3 DEF AuditInv
<1>3. CASE PersistProof
  <2>1. /\ pc = "proof" /\ pc' \in {"add", "list", "keep"}
        /\ UNCHANGED <<head, tree, judged>>
        /\ index' = IntentToAdd(index, tree)
    BY <1>3 DEF PersistProof
  <2>2. ASSUME NEW p \in Steady PROVE AuditedPath(p)'
    <3>1. AuditedPath(p) /\ p \in Path
      BY <1>std, <2>1 DEF AuditInv
    <3>2. index'[p] = index[p]
      BY <2>1, <3>1 DEF IntentToAdd, AuditedPath
    <3>3. Shown(p)' = Shown(p)
      BY <2>1, <3>2 DEF Shown
    <3> QED BY <2>1, <3>1, <3>2, <3>3 DEF AuditedPath
  <2> QED BY <2>1, <2>2 DEF AuditInv
<1>4. CASE StageAll
  <2>1. /\ pc = "add" /\ pc' = "unstage" /\ UNCHANGED <<head, tree, judged>>
        /\ index' = AddAll(index, tree)
    BY <1>4 DEF StageAll
  <2>2. ASSUME NEW p \in Steady PROVE StagedPath(p)'
    <3>1. AuditedPath(p) /\ p \in Path
      BY <1>std, <2>1 DEF AuditInv
    <3>2. index'[p] = Shown(p)
      BY <2>1, <3>1 DEF AddAll, AuditedPath, Shown
    <3> QED BY <2>1, <3>1, <3>2 DEF AuditedPath, StagedPath
  <2> QED BY <2>1, <2>2 DEF AuditInv
<1>5. CASE UnstageExcluded
  <2>1. /\ pc = "unstage" /\ pc' = "commit" /\ UNCHANGED <<head, judged>>
        /\ \A p \in Work : index'[p] = index[p]
    BY <1>5, <1>std DEF UnstageExcluded
  <2>2. ASSUME NEW p \in Steady PROVE StagedPath(p)'
    BY <1>std, <2>1 DEF AuditInv, StagedPath
  <2> QED BY <2>1, <2>2 DEF AuditInv
<1>6. CASE StartRun \/ ClaimTask \/ TurnCompleted \/ TurnUnparseable \/ TurnKept \/ CommitStaged
           \/ ListDiscarded \/ RestoreTracked \/ CleanUntracked \/ AfterRevert \/ EndRun
           \/ Unwind \/ Kill \/ UserRemovesLock \/ UserTidies
  <2>1. pc' \notin {"gates", "suite", "proof", "add", "unstage", "commit"}
    BY <1>6 DEF StartRun, ClaimTask, TurnCompleted, TurnUnparseable, TurnKept, CommitStaged,
                ListDiscarded, RestoreTracked, CleanUntracked, AfterRevert, EndRun, Unwind, Kill,
                UserRemovesLock, UserTidies
  <2> QED BY <2>1 DEF AuditInv
<1>7. CASE UNCHANGED vars
  <2>1. UNCHANGED <<head, index, tree, pc, judged>>
    BY <1>7 DEF vars
  <2>2. \A p \in Steady : Shown(p)' = Shown(p)
    BY <2>1 DEF Shown
  <2>3. Ignored(tree') = Ignored(tree)
    BY <2>1
  <2>4. ASSUME NEW p \in Steady, AuditedPath(p) PROVE AuditedPath(p)'
    BY <2>1, <2>2, <2>3, <2>4 DEF AuditedPath
  <2>5. ASSUME NEW p \in Steady, StagedPath(p) PROVE StagedPath(p)'
    BY <2>1, <2>5 DEF StagedPath
  <2> QED BY <2>1, <2>4, <2>5 DEF AuditInv
<1> QED BY <1>1, <1>2, <1>3, <1>4, <1>5, <1>6, <1>7 DEF Next, Run, Environment

LEMMA ScratchStep ==
    ASSUME ScratchSticks = FALSE, TypeOK, TypeOK', ScratchInv, [Next]_vars
    PROVE  ScratchInv'
<1> USE DEF Goto, gitVars, turnVars
<1>pth. /\ Scratch \in Path \ State /\ Scratch \notin Control /\ Scratch \in Work
        /\ Scratch # Lock /\ Scratch # Log /\ Scratch \notin AgentPath
  BY PathAssumption DEF Work
<1>ign. \A t \in Tree : Scratch \notin Ignored(t)
  <2> SUFFICES ASSUME NEW t \in Tree PROVE Scratch \notin Ignored(t)
    OBVIOUS
  <2>1. t[Rules] \in Content \cup {None}
    BY PathAssumption DEF Tree, File
  <2>2. Hidden[t[Rules]] \subseteq Path \ (State \cup {Scratch})
    BY <2>1, ContentAssumption
  <2> QED BY <1>pth, <2>2 DEF Ignored
<1>unl. Unlocked(tree)[Scratch] = tree[Scratch]
  BY <1>pth, UnlockedWrites DEF TypeOK
<1>1. CASE StartRun
  <2>1. UnexpectedDirt = {} /\ index' = index /\ head' = head
    BY <1>1 DEF StartRun
  <2>2. tree[Scratch] = None
    BY <1>pth, <1>ign, <2>1, DirtyPath DEF ScratchInv, TypeOK
  <2>3. tree' \in Logged([tree EXCEPT ![Lock] = Here])
    BY <1>1 DEF StartRun
  <2>4. [tree EXCEPT ![Lock] = Here] \in Tree /\ [tree EXCEPT ![Lock] = Here][Scratch] = tree[Scratch]
    BY <1>pth, PathAssumption, ContentAssumption, OneWritten DEF TypeOK, File
  <2>5. tree'[Scratch] = tree[Scratch]
    BY <1>pth, <2>3, <2>4, LoggedWrites
  <2> QED BY <2>1, <2>2, <2>5 DEF ScratchInv
<1>2. CASE TurnCompleted \/ TurnUnparseable
  <2>1. tree'[Scratch] = tree[Scratch]
    BY <1>2, <1>pth, RewrittenWrites DEF TurnCompleted, TurnUnparseable, AgentWrites, TypeOK
  <2> QED BY <1>2, <2>1 DEF TurnCompleted, TurnUnparseable, ScratchInv
<1>3. CASE ScopeCheck \/ PersistProof
  <2>1. tree[Scratch] = None
    BY <1>3 DEF ScopeCheck, PersistProof, ScratchInv
  <2>2. IntentToAdd(index, tree)[Scratch] = None
    BY <1>pth, <2>1 DEF IntentToAdd
  <2> QED BY <1>3, <2>1, <2>2 DEF ScopeCheck, PersistProof, ScratchInv
<1>4. CASE HarnessStarts
  <2>1. pc' = "suite" /\ UNCHANGED <<head, index>>
    BY <1>4 DEF HarnessStarts
  <2> QED BY <2>1 DEF ScratchInv
<1>5. CASE HarnessEnds
  <2>1. tree' = [tree EXCEPT ![Scratch] = None] /\ UNCHANGED <<head, index>>
    BY <1>5 DEF HarnessEnds, Swept
  <2>2. tree'[Scratch] = None
    BY <1>pth, <2>1 DEF TypeOK, Tree
  <2> QED BY <2>1, <2>2 DEF ScratchInv
<1>15. CASE CommandsWrite
  <2>1. /\ tree' \in Rewritten(tree, CommandPath)
        /\ UNCHANGED <<head, index, pc>>
    BY <1>15 DEF CommandsWrite
  <2>2. tree'[Scratch] = tree[Scratch]
    BY <1>pth, <2>1, RewrittenWrites, PathAssumption DEF TypeOK
  <2> QED BY <2>1, <2>2 DEF ScratchInv
<1>6. CASE StageAll
  <2>1. tree[Scratch] = None /\ tree' = tree /\ head' = head
    BY <1>6 DEF StageAll, ScratchInv
  <2>2. index'[Scratch] = None
    BY <1>6, <1>pth, <2>1 DEF StageAll, AddAll
  <2> QED BY <2>1, <2>2 DEF ScratchInv
<1>7. CASE UnstageExcluded
  <2>1. index'[Scratch] = index[Scratch] /\ pc = "unstage" /\ tree' = tree /\ head' = head
    BY <1>7, <1>pth DEF UnstageExcluded
  <2> QED BY <2>1 DEF ScratchInv
<1>8. CASE CommitStaged
  <2>1. pc = "commit" /\ head' = index /\ index' = index
    BY <1>8 DEF CommitStaged
  <2>2. PICK c \in Content : tree' = [tree EXCEPT ![Log] = c]
    BY <1>8 DEF CommitStaged
  <2>3. tree'[Scratch] = tree[Scratch]
    BY <1>pth, <2>2 DEF TypeOK, Tree
  <2> QED BY <2>1, <2>3 DEF ScratchInv
<1>9. CASE RestoreTracked
  <2>1. index'[Scratch] = head[Scratch] /\ head' = head /\ pc = "restore"
    BY <1>9, <1>pth DEF RestoreTracked
  <2>2. tree'[Scratch] \in {head[Scratch], tree[Scratch]}
    BY <1>9, <1>pth DEF RestoreTracked, Restored
  <2> QED BY <2>1, <2>2 DEF ScratchInv
<1>10. CASE CleanUntracked
  <2>1. tree'[Scratch] \in {None, tree[Scratch]}
    BY <1>10, <1>pth DEF CleanUntracked, Cleaned
  <2> QED BY <1>10, <2>1 DEF CleanUntracked, ScratchInv
<1>11. CASE ClaimTask \/ NoHarness \/ ListDiscarded \/ AfterRevert
  <2>1. pc \notin {"idle", "suite"} /\ UNCHANGED <<head, index, tree>>
    BY <1>11 DEF ClaimTask, NoHarness, ListDiscarded, AfterRevert
  <2> QED BY <2>1 DEF ScratchInv
<1>12. CASE TurnKept \/ EndRun \/ Unwind \/ Kill \/ UserRemovesLock
  <2>1. pc' = "idle" /\ UNCHANGED <<head, index>>
    BY <1>12 DEF TurnKept, EndRun, Unwind, Kill, UserRemovesLock
  <2> QED BY <2>1 DEF ScratchInv
<1>13. CASE UserTidies
  <2> DEFINE t == [tree EXCEPT ![Scratch] = None]
             i == AddAll(index, t)
  <2>1. i[Scratch] = None
    BY <1>pth DEF AddAll, TypeOK, Tree
  <2>2. pc' = "idle"
    BY <1>13 DEF UserTidies
  <2>3. \/ head' = i /\ index' = i
        \/ index'[Scratch] = head[Scratch] /\ head' = head
    BY <1>13, <1>pth DEF UserTidies
  <2> QED BY <2>1, <2>2, <2>3 DEF ScratchInv
<1>14. CASE UNCHANGED vars
  BY <1>14 DEF vars, ScratchInv
<1> QED BY <1>1, <1>2, <1>3, <1>4, <1>5, <1>6, <1>7, <1>8, <1>9, <1>10, <1>11, <1>12, <1>13, <1>14,
           <1>15
        DEF Next, Run, Environment

LEMMA UnseenStep ==
    ASSUME ScratchSticks = FALSE, TypeOK, ScratchInv, ScratchUnseen, [Next]_vars
    PROVE  ScratchUnseen'
<1> USE DEF Goto, gitVars, turnVars
<1>1. CASE ScopeCheck
  <2>1. Scratch \in Path
    BY PathAssumption
  <2>2. pc = "audit" /\ index' = IntentToAdd(index, tree) /\ judged' = Diff(head, index', tree)
    BY <1>1 DEF ScopeCheck
  <2>3. tree[Scratch] = None /\ head[Scratch] = None
    BY <2>2 DEF ScratchInv
  <2>4. index'[Scratch] = None
    BY <2>1, <2>2, <2>3 DEF IntentToAdd
  <2> QED BY <2>1, <2>2, <2>3, <2>4 DEF Diff, ScratchUnseen
<1>2. CASE HarnessStarts \/ NoHarness \/ CommandsWrite \/ HarnessEnds \/ PersistProof \/ StageAll
           \/ UnstageExcluded
  <2>1. pc \in {"gates", "suite", "proof", "add", "unstage"} /\ judged' = judged
    BY <1>2 DEF HarnessStarts, NoHarness, CommandsWrite, HarnessEnds, PersistProof, StageAll,
                UnstageExcluded
  <2> QED BY <2>1 DEF ScratchUnseen
<1>3. CASE StartRun \/ ClaimTask \/ TurnCompleted \/ TurnUnparseable \/ TurnKept \/ CommitStaged
           \/ ListDiscarded \/ RestoreTracked \/ CleanUntracked \/ AfterRevert \/ EndRun
           \/ Unwind \/ Kill \/ UserRemovesLock \/ UserTidies
  <2>1. pc' \notin {"gates", "suite", "proof", "add", "unstage", "commit"}
    BY <1>3 DEF StartRun, ClaimTask, TurnCompleted, TurnUnparseable, TurnKept, CommitStaged,
                ListDiscarded, RestoreTracked, CleanUntracked, AfterRevert, EndRun, Unwind, Kill,
                UserRemovesLock, UserTidies
  <2> QED BY <2>1 DEF ScratchUnseen
<1>4. CASE UNCHANGED vars
  BY <1>4 DEF vars, ScratchUnseen
<1> QED BY <1>1, <1>2, <1>3, <1>4 DEF Next, Run, Environment

JudgedInv == GitInv /\ RecordInv /\ AuditInv /\ SweptInv

LEMMA JudgedInit == Init => JudgedInv
<1> SUFFICES ASSUME Init PROVE JudgedInv
  OBVIOUS
<1>1. pc = "idle" /\ index = head /\ head[Scratch] = None
  BY ContentAssumption DEF Init
<1> QED BY <1>1, GitInit, RecordInit DEF JudgedInv, AuditInv, SweptInv, ScratchInv, ScratchUnseen

LEMMA JudgedStep ==
    ASSUME Rules \notin CommandPath
    PROVE  JudgedInv /\ [Next]_vars => JudgedInv'
<1> SUFFICES ASSUME JudgedInv, [Next]_vars PROVE JudgedInv'
  OBVIOUS
<1>1. GitInv' /\ RecordInv' /\ AuditInv'
  BY GitStep, RecordStep, AuditStep DEF JudgedInv
<1>2. TypeOK /\ TypeOK'
  BY <1>1 DEF JudgedInv, GitInv, TypeInv
<1>3. SweptInv'
  <2> SUFFICES ASSUME ScratchSticks = FALSE PROVE ScratchInv' /\ ScratchUnseen'
    BY DEF SweptInv
  <2> QED BY <1>2, ScratchStep, UnseenStep DEF JudgedInv, SweptInv
<1> QED BY <1>1, <1>3 DEF JudgedInv

(* What the gates' commands leave alone is committed as the scope audit saw  *)
(* it, unless they rewrite the rules that say which files git sees; the      *)
(* scratch directory is in no commit unless it cannot be removed.          *)
THEOREM CommitsAreWhatWasJudged ==
    ASSUME Rules \notin CommandPath
    PROVE  Spec => CommitIsWhatWasJudged
<1>1. ASSUME JudgedInv, [Next]_vars, Commits
      PROVE  CommitIsOnRecord /\ CommitIsAudited
  <2>1. head' = index /\ pc = "commit"
    BY <1>1, CommitStep DEF Commits
  <2>2. CommitIsOnRecord
    BY <1>1, RecordedCommit DEF JudgedInv
  <2>3. ASSUME NEW p \in (Path \ State) \ Written
        PROVE  /\ p \in Moved <=> p \in DOMAIN judged
               /\ p \in Moved => head'[p] = judged[p]
    <3>1. p \in Moved <=> index[p] # head[p]
      BY <2>1 DEF Moved
    <3>2. CASE p \in Steady
      BY <1>1, <2>1, <3>1, <3>2 DEF JudgedInv, AuditInv, StagedPath
    <3>3. CASE p = Scratch /\ ScratchSticks = FALSE
      BY <1>1, <2>1, <3>1, <3>3 DEF JudgedInv, SweptInv, ScratchInv, ScratchUnseen
    <3> QED BY <3>2, <3>3, ExplorationAssumption DEF Written, Steady, Work
  <2> QED BY <2>2, <2>3 DEF CommitIsAudited
<1>2. JudgedInv /\ [Next]_vars => [Commits => CommitIsOnRecord /\ CommitIsAudited]_vars
  BY <1>1
<1> QED BY <1>2, JudgedInit, JudgedStep, PTL DEF Spec, CommitIsWhatWasJudged

-----------------------------------------------------------------------------
(* With ignore rules that no agent and no command rewrites *)

RulesInv ==
    /\ tree[Rules] = head[Rules]
    /\ index[Rules] = head[Rules]

IgnoredIsUntracked ==
    \A p \in Work : p \in Ignored(head) /\ head[p] = None => index[p] = None

(* While a revert is under way: what it began with, and what it says. *)
RevertInv ==
    /\ pc = "restore" => saved = tree /\ reported = UnexpectedDirt
    /\ pc = "clean" =>
           \A p \in Work : head[p] = None /\ saved[p] # None /\ p \notin Ignored(tree)
                              => p \in reported
    /\ pc \in {"clean", "reverted"} =>
           /\ \A p \in Path : tree[p] # saved[p] => p \in reported
           /\ \A p \in State : tree[p] = saved[p]
           /\ \A p \in Work : head[p] = None /\ p \in Ignored(head) => tree[p] = saved[p]
    /\ RevertLeavesClean

FixedInv == GitInv /\ RulesInv /\ IgnoredIsUntracked /\ RevertInv

LEMMA RulesStep ==
    ASSUME Rules \notin AgentPath \cup CommandPath, TypeOK, TypeOK', RulesInv, [Next]_vars
    PROVE  RulesInv'
<1> USE DEF Goto, gitVars, turnVars
<1>pth. /\ Rules \in Path \ State /\ Rules \notin Control
        /\ Rules # Lock /\ Rules # Log /\ Rules # Scratch
  BY PathAssumption
<1>gon. tree[Rules] = None => Rules \notin Ignored(tree)
  BY <1>pth, ContentAssumption DEF Ignored
<1>unl. \A t \in Tree : Unlocked(t) \in Tree /\ Unlocked(t)[Rules] = t[Rules]
  BY <1>pth, UnlockedWrites
<1>one. \A t \in Tree : \A q \in {Lock, Log, Scratch} : \A c \in File :
            [t EXCEPT ![q] = c] \in Tree /\ [t EXCEPT ![q] = c][Rules] = t[Rules]
  BY <1>pth DEF Tree
<1>typ. tree \in Tree /\ None \in File /\ Here \in File /\ Content \subseteq File
  BY ContentAssumption DEF TypeOK, File
<1>1. CASE StartRun
  <2>1. tree' \in Logged([tree EXCEPT ![Lock] = Here]) /\ UNCHANGED <<head, index>>
    BY <1>1 DEF StartRun
  <2>2. /\ [tree EXCEPT ![Lock] = Here] \in Tree
        /\ [tree EXCEPT ![Lock] = Here][Rules] = tree[Rules]
    BY <1>one, <1>typ
  <2>3. tree'[Rules] = tree[Rules]
    BY <1>pth, <2>1, <2>2, LoggedWrites
  <2> QED BY <2>1, <2>3 DEF RulesInv
<1>2. CASE TurnCompleted \/ TurnUnparseable
  <2>1. tree'[Rules] = tree[Rules]
    BY <1>2, <1>pth, <1>typ, RewrittenWrites DEF TurnCompleted, TurnUnparseable, AgentWrites
  <2> QED BY <1>2, <2>1 DEF TurnCompleted, TurnUnparseable, RulesInv
<1>3. CASE TurnKept
  <2>1. PICK t \in Rewritten(tree, AgentPath) : tree' = Unlocked(t)
    BY <1>3 DEF TurnKept
  <2>2. tree'[Rules] = tree[Rules]
    BY <1>pth, <1>typ, <1>unl, <2>1, RewrittenWrites
  <2> QED BY <1>3, <2>2 DEF TurnKept, RulesInv
<1>4. CASE ScopeCheck \/ PersistProof
  <2>1. index' = IntentToAdd(index, tree) /\ UNCHANGED <<head, tree>>
    BY <1>4 DEF ScopeCheck, PersistProof
  <2>2. index'[Rules] = index[Rules]
    BY <1>pth, <2>1 DEF IntentToAdd, RulesInv
  <2> QED BY <2>1, <2>2 DEF RulesInv
<1>5. CASE HarnessStarts \/ NoHarness \/ CommandsWrite \/ HarnessEnds
  <2>1. tree'[Rules] = tree[Rules] /\ UNCHANGED <<head, index>>
    BY <1>5, <1>pth, <1>typ, GatesWrite
  <2> QED BY <2>1 DEF RulesInv
<1>6. CASE StageAll
  <2>1. index'[Rules] = tree[Rules]
    BY <1>6, <1>pth, <1>gon DEF StageAll, AddAll, RulesInv
  <2> QED BY <1>6, <2>1 DEF StageAll, RulesInv
<1>7. CASE UnstageExcluded
  BY <1>7, <1>pth DEF UnstageExcluded, RulesInv
<1>8. CASE CommitStaged
  <2>1. PICK c \in Content : tree' = [tree EXCEPT ![Log] = c]
    BY <1>8 DEF CommitStaged
  <2>2. tree'[Rules] = tree[Rules]
    BY <1>one, <1>typ, <2>1
  <2> QED BY <1>8, <2>2 DEF CommitStaged, RulesInv
<1>9. CASE RestoreTracked
  BY <1>9, <1>pth DEF RestoreTracked, Restored, RulesInv
<1>10. CASE CleanUntracked
  <2>1. tree'[Rules] = tree[Rules]
    BY <1>10, <1>pth DEF CleanUntracked, Cleaned, RulesInv
  <2> QED BY <1>10, <2>1 DEF CleanUntracked, RulesInv
<1>11. CASE ClaimTask \/ ListDiscarded \/ AfterRevert \/ Kill
  BY <1>11 DEF ClaimTask, ListDiscarded, AfterRevert, Kill, RulesInv
<1>12. CASE EndRun \/ UserRemovesLock
  BY <1>12, <1>typ, <1>unl DEF EndRun, UserRemovesLock, RulesInv
<1>13. CASE Unwind
  <2>1. tree'[Rules] = tree[Rules]
    BY <1>13, <1>pth, <1>typ, EndWrites
  <2> QED BY <1>13, <2>1 DEF Unwind, RulesInv
<1>14. CASE UserTidies
  <2> DEFINE t == [tree EXCEPT ![Scratch] = None]
             i == AddAll(index, t)
             r == Restored(head, index, t, State)
             j == [p \in Path |-> IF p \in State THEN index[p] ELSE head[p]]
  <2>1. t[Rules] = tree[Rules]
    BY <1>one, <1>typ
  <2>2. Ignored(t) = Ignored(tree)
    BY <2>1 DEF Ignored
  <2>3. i[Rules] = tree[Rules]
    BY <1>pth, <1>gon, <2>1, <2>2 DEF AddAll, RulesInv
  <2>4. r[Rules] = head[Rules] /\ j[Rules] = head[Rules]
    BY <1>pth, <2>1 DEF Restored, RulesInv
  <2>5. Cleaned(j, r, State)[Rules] = head[Rules]
    BY <1>pth, <2>4 DEF Cleaned
  <2>6. \/ head' = i /\ index' = i /\ tree' = t
        \/ index' = j /\ tree' = Cleaned(j, r, State) /\ head' = head
    BY <1>14 DEF UserTidies
  <2> QED BY <2>1, <2>3, <2>4, <2>5, <2>6 DEF RulesInv
<1>15. CASE UNCHANGED vars
  BY <1>15 DEF vars, RulesInv
<1> QED BY <1>1, <1>2, <1>3, <1>4, <1>5, <1>6, <1>7, <1>8, <1>9, <1>10, <1>11, <1>12, <1>13, <1>14, <1>15
        DEF Next, Run, Environment

LEMMA IgnoredStep ==
    ASSUME RulesInv, IgnoredIsUntracked, RulesInv', [Next]_vars
    PROVE  IgnoredIsUntracked'
<1> USE DEF Goto, gitVars, turnVars
<1>pth. Work \subseteq Path \ Control /\ Work = Path \ State
  BY PathAssumption DEF Work
<1>ign. Ignored(tree) = Ignored(head)
  BY DEF RulesInv, Ignored
<1>1. CASE ScopeCheck \/ PersistProof
  <2>1. index' = IntentToAdd(index, tree) /\ head' = head
    BY <1>1 DEF ScopeCheck, PersistProof
  <2>2. \A p \in Work : p \in Ignored(head) /\ index[p] = None => index'[p] = None
    BY <1>pth, <1>ign, <2>1 DEF IntentToAdd
  <2> QED BY <2>1, <2>2 DEF IgnoredIsUntracked
<1>2. CASE StageAll
  <2>1. index' = AddAll(index, tree) /\ head' = head
    BY <1>2 DEF StageAll
  <2>2. \A p \in Work : p \in Ignored(head) /\ index[p] = None => index'[p] = None
    BY <1>pth, <1>ign, <2>1 DEF AddAll
  <2> QED BY <2>1, <2>2 DEF IgnoredIsUntracked
<1>3. CASE UnstageExcluded
  <2>1. head' = head /\ \A p \in Work : index'[p] = index[p]
    BY <1>3, <1>pth DEF UnstageExcluded
  <2> QED BY <2>1 DEF IgnoredIsUntracked
<1>4. CASE CommitStaged
  <2>1. head' = index /\ index' = index
    BY <1>4 DEF CommitStaged
  <2> QED BY <2>1 DEF IgnoredIsUntracked
<1>5. CASE RestoreTracked
  <2>1. head' = head /\ \A p \in Work : index'[p] = head[p]
    BY <1>5, <1>pth DEF RestoreTracked
  <2> QED BY <2>1 DEF IgnoredIsUntracked
<1>6. CASE UserTidies
  <2> DEFINE j == [p \in Path |-> IF p \in State THEN index[p] ELSE head[p]]
  <2>1. \/ head' = index'
        \/ index' = j /\ head' = head
    BY <1>6 DEF UserTidies
  <2>2. \A p \in Work : j[p] = head[p]
    BY <1>pth
  <2> QED BY <2>1, <2>2 DEF IgnoredIsUntracked
<1>7. CASE StartRun \/ ClaimTask \/ TurnCompleted \/ TurnUnparseable \/ TurnKept \/ HarnessStarts
           \/ NoHarness \/ CommandsWrite \/ HarnessEnds \/ ListDiscarded \/ CleanUntracked
           \/ AfterRevert \/ EndRun \/ Unwind \/ Kill \/ UserRemovesLock
  <2>1. UNCHANGED <<head, index>>
    BY <1>7 DEF StartRun, ClaimTask, TurnCompleted, TurnUnparseable, TurnKept, HarnessStarts,
                NoHarness, CommandsWrite, HarnessEnds, ListDiscarded, CleanUntracked, AfterRevert, EndRun,
                Unwind, Kill, UserRemovesLock
  <2> QED BY <2>1 DEF IgnoredIsUntracked
<1>8. CASE UNCHANGED vars
  BY <1>8 DEF vars, IgnoredIsUntracked
<1> QED BY <1>1, <1>2, <1>3, <1>4, <1>5, <1>6, <1>7, <1>8 DEF Next, Run, Environment

LEMMA RevertStep ==
    ASSUME FixedInv, [Next]_vars, GitInv', RulesInv', IgnoredIsUntracked'
    PROVE  RevertInv'
<1> USE DEF Goto, gitVars, turnVars
<1>inv. GitInv /\ RulesInv /\ IgnoredIsUntracked /\ RevertInv
  BY DEF FixedInv
<1>pth. Work = Path \ State /\ State \subseteq Path
  BY PathAssumption DEF Work
<1>ign. Ignored(tree) = Ignored(head)
  BY <1>inv DEF RulesInv, Ignored
<1>1. CASE ListDiscarded
  <2>1. /\ pc' = "restore" /\ reported' = UnexpectedDirt /\ saved' = tree
        /\ UNCHANGED <<head, index, tree>>
    BY <1>1 DEF ListDiscarded
  <2>2. UnexpectedDirt' = UnexpectedDirt
    BY <2>1 DEF UnexpectedDirt
  <2> QED BY <2>1, <2>2 DEF RevertInv, RevertLeavesClean
<1>2. CASE RestoreTracked
  <2>1. /\ pc = "restore" /\ pc' = "clean" /\ UNCHANGED <<head, reported, saved>>
        /\ saved = tree /\ reported = UnexpectedDirt
    BY <1>2, <1>inv DEF RestoreTracked, RevertInv
  <2>2. \A p \in Path : tree'[p] = IF p \notin State /\ (head[p] # None \/ index[p] # None)
                                 THEN head[p] ELSE tree[p]
    BY <1>2 DEF RestoreTracked, Restored
  <2>3. Ignored(tree') = Ignored(tree)
    <3>1. tree'[Rules] = tree[Rules]
      BY <1>inv, <2>1 DEF RulesInv
    <3> QED BY <3>1 DEF Ignored
  <2>4. \A p \in Work : head[p] = None /\ tree[p] # None /\ p \notin Ignored(tree)
                         => p \in UnexpectedDirt
    BY <1>pth, DirtyPath
  <2>5. \A p \in Path : tree'[p] # tree[p] => p \in UnexpectedDirt
    <3> SUFFICES ASSUME NEW p \in Path, tree'[p] # tree[p] PROVE p \in UnexpectedDirt
      OBVIOUS
    <3>1. p \in Work /\ (head[p] # None \/ index[p] # None) /\ head[p] # tree[p]
      BY <1>pth, <2>2
    <3> QED BY <3>1, DirtyPath
  <2>6. \A p \in State : tree'[p] = tree[p]
    BY <1>pth, <2>2
  <2>7. \A p \in Work : head[p] = None /\ p \in Ignored(head) => tree'[p] = tree[p]
    BY <1>inv, <1>pth, <2>2 DEF IgnoredIsUntracked
  <2> QED BY <2>1, <2>3, <2>4, <2>5, <2>6, <2>7 DEF RevertInv, RevertLeavesClean
<1>3. CASE CleanUntracked
  <2>1. /\ pc = "clean" /\ pc' = "reverted" /\ UNCHANGED <<head, index, reported, saved>>
        /\ \A p \in Work : index[p] = head[p] /\ (head[p] # None => tree[p] = head[p])
    BY <1>3, <1>inv DEF CleanUntracked, GitInv, IndexIsHead, TrackedIsRestored
  <2>2. \A p \in Path : tree'[p] = IF p \notin State /\ index[p] = None /\ p \notin Ignored(tree)
                                 THEN None ELSE tree[p]
    BY <1>3 DEF CleanUntracked, Cleaned
  <2>3. Ignored(tree') = Ignored(tree)
    <3>1. tree'[Rules] = tree[Rules]
      BY <1>inv, <2>1 DEF RulesInv
    <3> QED BY <3>1 DEF Ignored
  <2>4. \A p \in Path : tree'[p] # saved[p] => p \in reported
    <3> SUFFICES ASSUME NEW p \in Path, tree'[p] # saved[p] PROVE p \in reported
      OBVIOUS
    <3>1. CASE tree'[p] = tree[p]
      BY <1>inv, <2>1, <3>1 DEF RevertInv
    <3>2. CASE tree'[p] # tree[p]
      <4>1. p \in Work /\ head[p] = None /\ p \notin Ignored(tree) /\ saved[p] # None
        BY <1>pth, <2>1, <2>2, <3>2
      <4> QED BY <1>inv, <2>1, <4>1 DEF RevertInv
    <3> QED BY <3>1, <3>2
  <2>5. \A p \in State : tree'[p] = saved[p]
    BY <1>inv, <1>pth, <2>1, <2>2 DEF RevertInv
  <2>6. \A p \in Work : head[p] = None /\ p \in Ignored(head) => tree'[p] = saved[p]
    BY <1>inv, <1>pth, <1>ign, <2>1, <2>2 DEF RevertInv
  <2>7. UnexpectedDirt' = {}
    <3>1. \A p \in Work : p \notin UnexpectedDirt'
      BY <1>pth, <2>1, <2>2, <2>3 DEF UnexpectedDirt, Dirty
    <3> QED BY <3>1 DEF UnexpectedDirt, Dirty, Work
  <2> QED BY <2>1, <2>4, <2>5, <2>6, <2>7 DEF RevertInv, RevertLeavesClean
<1>4. CASE StartRun \/ ClaimTask \/ TurnCompleted \/ TurnUnparseable \/ TurnKept \/ ScopeCheck
           \/ HarnessStarts \/ NoHarness \/ CommandsWrite \/ HarnessEnds \/ PersistProof \/ StageAll
           \/ UnstageExcluded \/ CommitStaged \/ AfterRevert \/ EndRun \/ Unwind \/ Kill
           \/ UserRemovesLock \/ UserTidies
  <2>1. pc' \notin {"restore", "clean", "reverted"}
    BY <1>4 DEF StartRun, ClaimTask, TurnCompleted, TurnUnparseable, TurnKept, ScopeCheck,
                HarnessStarts, NoHarness, CommandsWrite, HarnessEnds, PersistProof, StageAll, UnstageExcluded,
                CommitStaged, AfterRevert, EndRun, Unwind, Kill, UserRemovesLock, UserTidies
  <2> QED BY <2>1 DEF RevertInv, RevertLeavesClean
<1>5. CASE UNCHANGED vars
  <2>1. UNCHANGED <<head, index, tree, pc, saved, reported>>
    BY <1>5 DEF vars
  <2>2. UnexpectedDirt' = UnexpectedDirt /\ Ignored(tree') = Ignored(tree)
        /\ Ignored(head') = Ignored(head)
    BY <2>1 DEF UnexpectedDirt
  <2> QED BY <1>inv, <2>1, <2>2 DEF RevertInv, RevertLeavesClean
<1> QED BY <1>1, <1>2, <1>3, <1>4, <1>5 DEF Next, Run, Environment

LEMMA FixedInit == Init => FixedInv
<1> SUFFICES ASSUME Init PROVE FixedInv
  OBVIOUS
<1>1. pc = "idle" /\ index = head
  BY DEF Init
<1>2. tree[Rules] = head[Rules]
  <2>1. Rules \in Path \ {Lock} /\ Rules \notin Control
    BY PathAssumption
  <2>2. head[Rules] = None => Rules \notin Ignored(head)
    BY <2>1, ContentAssumption DEF Ignored
  <2> QED BY <2>1, <2>2 DEF Init
<1> QED BY <1>1, <1>2, GitInit
        DEF FixedInv, RulesInv, IgnoredIsUntracked, RevertInv, RevertLeavesClean

LEMMA FixedStep ==
    ASSUME Rules \notin AgentPath \cup CommandPath
    PROVE  FixedInv /\ [Next]_vars => FixedInv'
<1> SUFFICES ASSUME FixedInv, [Next]_vars PROVE FixedInv'
  OBVIOUS
<1>1. GitInv /\ GitInv' /\ TypeOK /\ TypeOK' /\ RulesInv /\ IgnoredIsUntracked
  BY GitStep DEF FixedInv, GitInv, TypeInv
<1>2. RulesInv'
  BY <1>1, RulesStep
<1>3. IgnoredIsUntracked'
  BY <1>1, <1>2, IgnoredStep
<1>4. RevertInv'
  BY <1>1, <1>2, <1>3, RevertStep
<1> QED BY <1>1, <1>2, <1>3, <1>4 DEF FixedInv

(* A revert leaves HEAD, of the first turn's or the second's, audited or not. *)
THEOREM RevertsLeaveClean ==
    ASSUME Rules \notin AgentPath \cup CommandPath
    PROVE  Spec => []RevertLeavesClean
<1>1. FixedInv => RevertLeavesClean
  BY DEF FixedInv, RevertInv
<1> QED BY <1>1, FixedInit, FixedStep, PTL DEF Spec

(* A revert loses neither the state directory nor anything that is ignored, *)
(* and changes nothing that it does not list.                              *)
THEOREM RevertsAreAccounted ==
    ASSUME Rules \notin AgentPath \cup CommandPath
    PROVE  Spec => []RevertIsAccounted
<1>1. FixedInv /\ pc = "reverted" => RevertKeepsTheRest
  BY PathAssumption DEF FixedInv, RevertInv, RevertKeepsTheRest, Work
<1>2. FixedInv /\ pc = "reverted" => RevertSaysWhat
  BY DEF FixedInv, RevertInv, RevertSaysWhat
<1>3. FixedInv => RevertIsAccounted
  BY <1>1, <1>2 DEF RevertIsAccounted
<1> QED BY <1>3, FixedInit, FixedStep, PTL DEF Spec

-----------------------------------------------------------------------------
(* Refinement *)

LEMMA PlaceIs ==
    /\ pc \in {"idle", "claim", "turn"} => PlaceOf = pc
    /\ pc \in {"audit", "gates", "suite", "proof", "keep"} => PlaceOf = "judge"
    /\ pc \in {"add", "unstage", "commit"} => PlaceOf = "commit"
    /\ pc \in {"list", "restore", "clean"} => PlaceOf = "revert"
    /\ pc = "reverted" => PlaceOf = IF why = "unparseable_result" THEN "turn" ELSE "claim"
<1>1. pc \in {"idle", "claim", "turn"} => PlaceOf = pc
  BY DEF PlaceOf
<1>2. pc \in {"audit", "gates", "suite", "proof", "keep"} => PlaceOf = "judge"
  BY DEF PlaceOf
<1>3. pc \in {"add", "unstage", "commit"} => PlaceOf = "commit"
  BY DEF PlaceOf
<1>4. pc \in {"list", "restore", "clean"} => PlaceOf = "revert"
  BY DEF PlaceOf
<1>5. pc = "reverted" => PlaceOf = IF why = "unparseable_result" THEN "turn" ELSE "claim"
  BY DEF PlaceOf
<1> QED BY <1>1, <1>2, <1>3, <1>4, <1>5

LEMMA DirtIs ==
    /\ pc \notin {"add", "clean"} => DirtOf = UnexpectedDirt
    /\ pc = "add" => DirtOf = DOMAIN patch \ State
    /\ pc = "clean" => DirtOf = reported
BY DEF DirtOf

LEMMA PlaceWillBe ==
    /\ pc' \in {"idle", "claim", "turn"} => PlaceOf' = pc'
    /\ pc' \in {"audit", "gates", "suite", "proof", "keep"} => PlaceOf' = "judge"
    /\ pc' \in {"add", "unstage", "commit"} => PlaceOf' = "commit"
    /\ pc' \in {"list", "restore", "clean"} => PlaceOf' = "revert"
    /\ pc' = "reverted" => PlaceOf' = IF why' = "unparseable_result" THEN "turn" ELSE "claim"
<1>1. pc' \in {"idle", "claim", "turn"} => PlaceOf' = pc'
  BY DEF PlaceOf
<1>2. pc' \in {"audit", "gates", "suite", "proof", "keep"} => PlaceOf' = "judge"
  BY DEF PlaceOf
<1>3. pc' \in {"add", "unstage", "commit"} => PlaceOf' = "commit"
  BY DEF PlaceOf
<1>4. pc' \in {"list", "restore", "clean"} => PlaceOf' = "revert"
  BY DEF PlaceOf
<1>5. pc' = "reverted" => PlaceOf' = IF why' = "unparseable_result" THEN "turn" ELSE "claim"
  BY DEF PlaceOf
<1> QED BY <1>1, <1>2, <1>3, <1>4, <1>5

LEMMA DirtWillBe ==
    /\ pc' \notin {"add", "clean"} => DirtOf' = UnexpectedDirt'
    /\ pc' = "add" => DirtOf' = DOMAIN patch' \ State
    /\ pc' = "clean" => DirtOf' = reported'
BY DEF DirtOf

LEMMA SameDirt ==
    ASSUME \A p \in Work : index'[p] = index[p] /\ head'[p] = head[p] /\ tree'[p] = tree[p]
    PROVE  UnexpectedDirt' = UnexpectedDirt /\ HeadOf' = HeadOf
<1>1. Rules \in Work /\ Work = Path \ State
  BY PathAssumption DEF Work
<1>2. Ignored(tree') = Ignored(tree)
  BY <1>1 DEF Ignored
<1>3. \A p \in Path \ State : p \in Dirty(head', index', tree') <=> p \in Dirty(head, index, tree)
  BY <1>1, <1>2 DEF Dirty
<1>4. UnexpectedDirt' = UnexpectedDirt
  BY <1>3 DEF UnexpectedDirt, Dirty
<1> QED BY <1>1, <1>4 DEF HeadOf

(* Where no command wrote, what is dirty is what the persisted diff shows.   *)
LEMMA AuditedDirt ==
    ASSUME NEW p \in Work, AuditedPath(p)
    PROVE  p \in UnexpectedDirt <=> Shown(p) # head[p]
<1>1. Ita # None /\ p \in Path \ State
  BY ContentAssumption DEF Work
<1>2. p \in UnexpectedDirt <=>
          index[p] # head[p] \/ (index[p] # tree[p] /\ (index[p] # None \/ p \notin Ignored(tree)))
  BY <1>1 DEF UnexpectedDirt, Dirty
<1> QED BY <1>1, <1>2 DEF AuditedPath, Shown

(* What is staged is all that is dirty. *)
LEMMA StagedDirt ==
    ASSUME \A p \in Work : index[p] = tree[p] \/ (index[p] = None /\ p \in Ignored(tree))
    PROVE  UnexpectedDirt = {p \in Work : index[p] # head[p]}
BY DEF UnexpectedDirt, Dirty, Work

LEMMA BaseStep ==
    ASSUME Rules \notin AgentPath \cup CommandPath,
           JudgedInv, JudgedInv', FixedInv, FixedInv', [Next]_vars
    PROVE  [Base!Next]_<<PlaceOf, HeadOf, DirtOf>>
<1> DEFINE E == UnexpectedDirt
<1> USE DEF Goto, gitVars, turnVars
<1>inv. /\ TypeOK /\ TypeOK' /\ GitInv /\ GitInv' /\ RecordInv /\ RecordInv' /\ AuditInv
        /\ AuditInv' /\ RulesInv /\ RulesInv' /\ RevertInv /\ RevertInv'
  BY DEF JudgedInv, FixedInv, GitInv, TypeInv
<1>pth. /\ Work = Path \ State /\ Scratch \in Work /\ Rules \in Work /\ Rules # Scratch
        /\ Lock \notin Work /\ Log \notin Work /\ Control \subseteq State
        /\ Lock \in Path /\ Log \in Path
  BY PathAssumption DEF Work
<1>std. /\ Steady \subseteq Work /\ Steady = Work \ (CommandPath \cup {Scratch})
        /\ Rules \in Steady /\ Work \subseteq Path
  BY SteadyIs DEF Steady
<1>typ. /\ tree \in Tree /\ None \in File /\ Here \in File /\ Content \subseteq File
        /\ index \in [Path -> File \cup {Ita}] /\ head \in Tree
  BY <1>inv, ContentAssumption DEF TypeOK, File
<1>plc. /\ pc \in {"idle", "claim", "turn"} => PlaceOf = pc
        /\ pc \in {"audit", "gates", "suite", "proof", "keep"} => PlaceOf = "judge"
        /\ pc \in {"add", "unstage", "commit"} => PlaceOf = "commit"
        /\ pc \in {"list", "restore", "clean"} => PlaceOf = "revert"
        /\ pc = "reverted" => PlaceOf = IF why = "unparseable_result" THEN "turn" ELSE "claim"
  BY PlaceIs
<1>plc2. /\ pc' \in {"idle", "claim", "turn"} => PlaceOf' = pc'
         /\ pc' \in {"audit", "gates", "suite", "proof", "keep"} => PlaceOf' = "judge"
         /\ pc' \in {"add", "unstage", "commit"} => PlaceOf' = "commit"
         /\ pc' \in {"list", "restore", "clean"} => PlaceOf' = "revert"
         /\ pc' = "reverted" => PlaceOf' = IF why' = "unparseable_result" THEN "turn" ELSE "claim"
  BY PlaceWillBe
<1>drt. /\ pc \notin {"add", "clean"} => DirtOf = E
        /\ pc = "add" => DirtOf = DOMAIN patch \ State
        /\ pc = "clean" => DirtOf = reported
  BY DirtIs
<1>drt2. /\ pc' \notin {"add", "clean"} => DirtOf' = E'
         /\ pc' = "add" => DirtOf' = DOMAIN patch' \ State
         /\ pc' = "clean" => DirtOf' = reported'
  BY DirtWillBe
<1>sub. E \subseteq Work /\ E' \subseteq Work
  BY <1>pth DEF UnexpectedDirt, Dirty
<1>unl. \A t \in Tree : \A p \in Work : Unlocked(t)[p] = t[p]
  <2> SUFFICES ASSUME NEW t \in Tree, NEW p \in Work PROVE Unlocked(t)[p] = t[p]
    OBVIOUS
  <2>1. p \in Path \ {Lock}
    BY <1>pth
  <2> QED BY <2>1, UnlockedWrites
<1>hdr. HeadOf' = HeadOf <=> \A p \in Work : head'[p] = head[p]
  BY <1>pth DEF HeadOf
<1> DEFINE Same == \A p \in Work : index'[p] = index[p] /\ head'[p] = head[p] /\ tree'[p] = tree[p]
<1>sam. Same => E' = E /\ HeadOf' = HeadOf
  BY SameDirt
<1>1. CASE StartRun
  <2>1. /\ pc = "idle" /\ pc' = "claim" /\ E = {} /\ UNCHANGED <<head, index>>
        /\ tree' \in Logged([tree EXCEPT ![Lock] = Here])
    BY <1>1 DEF StartRun
  <2>2. [tree EXCEPT ![Lock] = Here] \in Tree
        /\ \A p \in Work : [tree EXCEPT ![Lock] = Here][p] = tree[p]
    BY <1>pth, <1>typ DEF Tree
  <2>3. \A p \in Path \ {Log} : tree'[p] = [tree EXCEPT ![Lock] = Here][p]
    BY <2>1, <2>2, LoggedWrites
  <2>4. Same
    BY <1>pth, <2>1, <2>2, <2>3
  <2>5. PlaceOf = "idle" /\ PlaceOf' = "claim" /\ DirtOf = {} /\ DirtOf' = {} /\ HeadOf' = HeadOf
    BY <1>plc, <1>plc2, <1>drt, <1>drt2, <1>sam, <2>1, <2>4
  <2>6. Base!Begin
    BY <2>5 DEF Base!Begin
  <2> QED BY <2>6 DEF Base!Next
<1>2. CASE ClaimTask
  <2>1. pc = "claim" /\ pc' = "turn" /\ E = {} /\ UNCHANGED <<head, index, tree>>
    BY <1>2 DEF ClaimTask
  <2>2. PlaceOf = "claim" /\ PlaceOf' = "turn" /\ DirtOf = {} /\ DirtOf' = {} /\ HeadOf' = HeadOf
    BY <1>plc, <1>plc2, <1>drt, <1>drt2, <1>sam, <2>1
  <2>3. Base!Begin
    BY <2>2 DEF Base!Begin
  <2> QED BY <2>3 DEF Base!Next
<1>3. CASE TurnCompleted \/ TurnUnparseable \/ TurnKept
  <2>1. pc = "turn" /\ pc' \in {"audit", "list", "idle"} /\ head' = head
    BY <1>3 DEF TurnCompleted, TurnUnparseable, TurnKept
  <2>2. PlaceOf = "turn" /\ PlaceOf' \in {"judge", "revert", "idle"} /\ HeadOf' = HeadOf
    BY <1>plc, <1>plc2, <1>hdr, <2>1
  <2>3. DirtOf' \in SUBSET Work
    BY <1>drt2, <1>sub, <2>1
  <2>4. Base!Turn
    BY <1>pth, <2>2, <2>3 DEF Base!Turn
  <2> QED BY <2>4 DEF Base!Next
<1>4. CASE ScopeCheck
  <2>1. /\ pc = "audit" /\ pc' = "gates" /\ UNCHANGED <<head, tree>>
        /\ index' = IntentToAdd(index, tree)
    BY <1>4 DEF ScopeCheck
  <2>2. \A p \in Work : index[p] = head[p]
    BY <1>inv, <2>1 DEF GitInv, IndexIsHead
  <2>3. Ita # None /\ Rules \in Path
    BY <1>pth, ContentAssumption
  <2>4. \A p \in Work : p \in Dirty(head, index', tree) <=> p \in Dirty(head, index, tree)
    <3> SUFFICES ASSUME NEW p \in Work
                 PROVE  p \in Dirty(head, index', tree) <=> p \in Dirty(head, index, tree)
      OBVIOUS
    <3>1. index'[p] = IF tree[p] = None THEN None
                      ELSE IF index[p] = None /\ p \notin Ignored(tree) THEN Ita ELSE index[p]
      BY <1>pth, <2>1 DEF IntentToAdd
    <3> QED BY <1>pth, <2>2, <2>3, <3>1 DEF Dirty
  <2>5. E' = E
    BY <1>pth, <2>1, <2>4 DEF UnexpectedDirt, Dirty
  <2> QED BY <1>plc, <1>plc2, <1>drt, <1>drt2, <1>hdr, <2>1, <2>5
<1>jdg. ASSUME PlaceOf = "judge", PlaceOf' \in {"judge", "commit", "revert"}, HeadOf' = HeadOf,
               DirtOf' \subseteq Work, DirtOf \subseteq Work,
               \A p \in Steady : p \in DirtOf' <=> p \in DirtOf
        PROVE  Base!Judge
  <2>1. DirtOf' \ (CommandPath \cup {Scratch}) = DirtOf \ (CommandPath \cup {Scratch})
    BY <1>std, <1>jdg
  <2> QED BY <1>pth, <1>jdg, <2>1 DEF Base!Judge
<1>5. CASE HarnessStarts \/ NoHarness \/ CommandsWrite \/ HarnessEnds
  <2>1. /\ pc \in {"gates", "suite"} /\ pc' \in {"gates", "suite", "proof"}
        /\ UNCHANGED <<head, index>>
    BY <1>5, <1>typ, GatesWrite
  <2>2. (\A p \in Steady : tree'[p] = tree[p]) /\ Ignored(tree') = Ignored(tree)
    BY <1>5, <1>typ, SteadyDuringGates
  <2>3. \A p \in Steady : p \in E' <=> p \in E
    BY <1>std, <1>pth, <2>1, <2>2 DEF UnexpectedDirt, Dirty
  <2>4. PlaceOf = "judge" /\ PlaceOf' = "judge" /\ DirtOf = E /\ DirtOf' = E' /\ HeadOf' = HeadOf
    BY <1>plc, <1>plc2, <1>drt, <1>drt2, <1>hdr, <2>1
  <2>5. Base!Judge
    BY <1>jdg, <1>sub, <2>3, <2>4
  <2> QED BY <2>5 DEF Base!Next
<1>8. CASE PersistProof
  <2>1. /\ pc = "proof" /\ pc' \in {"add", "list", "keep"} /\ UNCHANGED <<head, tree>>
        /\ index' = IntentToAdd(index, tree) /\ patch' = Diff(head, index', tree)
    BY <1>8 DEF PersistProof
  <2>2. PlaceOf = "judge" /\ PlaceOf' \in {"judge", "commit", "revert"}
        /\ DirtOf = E /\ HeadOf' = HeadOf
    BY <1>plc, <1>plc2, <1>drt, <1>hdr, <2>1
  <2>3. \A p \in Steady : AuditedPath(p) /\ index'[p] = index[p]
    <3> SUFFICES ASSUME NEW p \in Steady PROVE AuditedPath(p) /\ index'[p] = index[p]
      OBVIOUS
    <3>1. AuditedPath(p)
      BY <1>inv, <2>1 DEF AuditInv
    <3> QED BY <1>std, <2>1, <3>1 DEF AuditedPath, IntentToAdd
  <2>4. CASE pc' = "add"
    <3>1. DirtOf' = DOMAIN Diff(head, index', tree) \ State
      BY <1>drt2, <2>1, <2>4
    <3>2. DirtOf' \subseteq Work
      BY <1>pth, <3>1 DEF Diff
    <3>3. ASSUME NEW p \in Steady PROVE p \in DirtOf' <=> p \in E
      <4>1. p \in DirtOf' <=> Shown(p) # head[p]
        BY <1>pth, <1>std, <2>3, <3>1 DEF Diff, Shown
      <4>2. p \in E <=> Shown(p) # head[p]
        BY <1>std, <2>3, AuditedDirt
      <4> QED BY <4>1, <4>2
    <3>4. Base!Judge
      BY <1>jdg, <1>sub, <2>2, <3>2, <3>3
    <3> QED BY <3>4 DEF Base!Next
  <2>5. CASE pc' \in {"list", "keep"}
    <3>1. DirtOf' = E'
      BY <1>drt2, <2>5
    <3>2. \A p \in Steady : p \in E' <=> p \in E
      BY <1>std, <1>pth, <2>1, <2>3 DEF UnexpectedDirt, Dirty
    <3>3. Base!Judge
      BY <1>jdg, <1>sub, <2>2, <3>1, <3>2
    <3> QED BY <3>3 DEF Base!Next
  <2> QED BY <2>1, <2>4, <2>5
<1>9. CASE StageAll
  <2>1. pc = "add" /\ pc' = "unstage" /\ UNCHANGED <<head, tree, patch>>
    BY <1>9 DEF StageAll
  <2>2. \A p \in Work : p \in DOMAIN patch <=> index'[p] # head'[p]
    BY <1>inv, <2>1 DEF RecordInv
  <2>3. \A p \in Work : index'[p] = tree'[p] \/ (index'[p] = None /\ p \in Ignored(tree'))
    BY <1>inv, <1>pth, <2>1 DEF GitInv, StagedIsTree
  <2>4. E' = {p \in Work : index'[p] # head'[p]}
    BY <2>3 DEF UnexpectedDirt, Dirty, Work
  <2>5. DOMAIN patch \subseteq Path
    BY <1>inv DEF TypeOK
  <2>6. E' = DOMAIN patch \ State
    BY <1>pth, <2>2, <2>4, <2>5
  <2> QED BY <1>plc, <1>plc2, <1>drt, <1>drt2, <1>hdr, <2>1, <2>6
<1>10. CASE UnstageExcluded
  <2>1. pc = "unstage" /\ pc' = "commit" /\ UNCHANGED <<head, tree>>
        /\ \A p \in Work : index'[p] = index[p]
    BY <1>10, <1>pth DEF UnstageExcluded
  <2> QED BY <1>plc, <1>plc2, <1>drt, <1>drt2, <1>sam, <2>1
<1>11. CASE CommitStaged
  <2>1. pc = "commit" /\ pc' = "claim" /\ head' = index /\ index' = index
    BY <1>11 DEF CommitStaged
  <2>2. PICK c \in Content : tree' = [tree EXCEPT ![Log] = c]
    BY <1>11 DEF CommitStaged
  <2>3. \A p \in Work : tree'[p] = tree[p]
    BY <1>pth, <1>typ, <2>2 DEF Tree
  <2>4. Ignored(tree') = Ignored(tree)
    BY <1>pth, <2>3 DEF Ignored
  <2>5. \A p \in Work : index[p] = tree[p] \/ (index[p] = None /\ p \in Ignored(tree))
    BY <1>inv, <1>pth, <2>1 DEF GitInv, StagedIsTree
  <2>6. E = {p \in Work : head'[p] # head[p]}
    <3>1. \A p \in Work : p \in E <=> head'[p] # head[p]
      BY <1>pth, <2>1, <2>5 DEF UnexpectedDirt, Dirty
    <3> QED BY <1>sub, <3>1
  <2>7. E' = {}
    <3>1. \A p \in Work : p \notin E'
      BY <1>pth, <2>1, <2>3, <2>4, <2>5 DEF UnexpectedDirt, Dirty
    <3> QED BY <1>sub, <3>1
  <2>8. {p \in Work : HeadOf'[p] # HeadOf[p]} = E
    BY <1>pth, <2>6 DEF HeadOf
  <2>9. PlaceOf = "commit" /\ PlaceOf' = "claim" /\ DirtOf = E /\ DirtOf' = {}
    BY <1>plc, <1>plc2, <1>drt, <1>drt2, <2>1, <2>7
  <2>10. Base!Commit
    BY <1>pth, <2>8, <2>9 DEF Base!Commit
  <2> QED BY <2>10 DEF Base!Next
<1>12. CASE ListDiscarded
  <2>1. pc = "list" /\ pc' = "restore" /\ UNCHANGED <<head, index, tree>>
    BY <1>12 DEF ListDiscarded
  <2> QED BY <1>plc, <1>plc2, <1>drt, <1>drt2, <1>sam, <2>1
<1>13. CASE RestoreTracked
  <2>1. pc = "restore" /\ pc' = "clean" /\ head' = head /\ reported' = reported
    BY <1>13 DEF RestoreTracked
  <2>2. reported = E
    BY <1>inv, <2>1 DEF RevertInv
  <2> QED BY <1>plc, <1>plc2, <1>drt, <1>drt2, <1>hdr, <2>1, <2>2
<1>14. CASE CleanUntracked
  <2>1. pc = "clean" /\ pc' = "reverted" /\ head' = head
    BY <1>14 DEF CleanUntracked
  <2>2. E' = {}
    BY <1>inv, <2>1 DEF RevertInv, RevertLeavesClean
  <2>3. PlaceOf = "revert" /\ PlaceOf' \in {"turn", "claim"} /\ DirtOf' = {} /\ HeadOf' = HeadOf
    BY <1>plc, <1>plc2, <1>drt2, <1>hdr, <2>1, <2>2
  <2>4. Base!Revert
    BY <2>3 DEF Base!Revert
  <2> QED BY <2>4 DEF Base!Next
<1>15. CASE AfterRevert
  <2>1. /\ pc = "reverted" /\ UNCHANGED <<head, index, tree, why>>
        /\ pc' = IF why = "unparseable_result" THEN "turn" ELSE "claim"
    BY <1>15 DEF AfterRevert
  <2> QED BY <1>plc, <1>plc2, <1>drt, <1>drt2, <1>sam, <2>1
<1>16. CASE EndRun \/ Unwind \/ Kill
  <2>1. pc' = "idle" /\ UNCHANGED <<head, index>>
    BY <1>16, <1>typ, EndWrites
  <2>2. \A p \in Work \ {Scratch} : tree'[p] = tree[p]
    BY <1>16, <1>pth, <1>typ, EndWrites
  <2>3. Ignored(tree') = Ignored(tree)
    BY <1>pth, <2>2 DEF Ignored
  <2>4. E' \subseteq E \cup {Scratch}
    <3>1. \A p \in Work \ {Scratch} : p \in E' => p \in E
      BY <1>pth, <2>1, <2>2, <2>3 DEF UnexpectedDirt, Dirty
    <3> QED BY <1>sub, <3>1
  <2>5. pc = "clean" => E \subseteq reported
    <3> SUFFICES ASSUME pc = "clean", NEW p \in E PROVE p \in reported
      OBVIOUS
    <3>1. p \in Work /\ index[p] = head[p] /\ (head[p] # None => tree[p] = head[p])
      BY <1>inv, <1>sub DEF GitInv, IndexIsHead, TrackedIsRestored
    <3>2. head[p] = None /\ tree[p] # None /\ p \notin Ignored(tree)
      BY <3>1, CleanPath
    <3>3. p \in Path
      BY <1>pth, <3>1
    <3> QED BY <1>inv, <3>1, <3>2, <3>3 DEF RevertInv
  <2>9. pc = "add" => E \subseteq (DOMAIN patch \ State) \cup CommandPath \cup {Scratch}
    <3> SUFFICES ASSUME pc = "add", NEW p \in E, p \in Steady PROVE p \in DOMAIN patch \ State
      BY <1>std, <1>sub
    <3>1. AuditedPath(p) /\ patch = Diff(head, index, tree)
      BY <1>inv DEF AuditInv, RecordInv
    <3>2. Shown(p) # head[p]
      BY <1>std, <3>1, AuditedDirt
    <3> QED BY <1>pth, <1>std, <3>1, <3>2 DEF Diff, Shown
  <2>6. DirtOf' \subseteq DirtOf \cup (CommandPath \cup {Scratch})
    BY <1>drt, <1>drt2, <2>1, <2>4, <2>5, <2>9
  <2>7. PlaceOf' = "idle" /\ HeadOf' = HeadOf
    BY <1>plc2, <1>hdr, <2>1
  <2>8. Base!End
    BY <2>6, <2>7 DEF Base!End
  <2> QED BY <2>8 DEF Base!Next
<1>17. CASE UserRemovesLock \/ UserTidies
  <2>1. pc = "idle" /\ pc' = "idle"
    BY <1>17 DEF UserRemovesLock, UserTidies
  <2>2. PlaceOf = "idle" /\ PlaceOf' = "idle" /\ DirtOf' \in SUBSET Work
    BY <1>plc, <1>plc2, <1>drt2, <1>sub, <2>1
  <2>3. Base!Between
    BY <1>pth, <2>2 DEF Base!Between
  <2> QED BY <2>3 DEF Base!Next
<1>18. CASE UNCHANGED vars
  <2>1. UNCHANGED <<head, index, tree, pc, why, reported, patch>>
    BY <1>18 DEF vars
  <2>2. PlaceOf' = PlaceOf
    BY <2>1 DEF PlaceOf
  <2>3. E' = E /\ HeadOf' = HeadOf
    BY <1>sam, <2>1
  <2> QED BY <1>drt, <1>drt2, <2>1, <2>2, <2>3
<1> QED
  BY <1>1, <1>2, <1>3, <1>4, <1>5, <1>8, <1>9, <1>10, <1>11, <1>12, <1>13, <1>14,
     <1>15, <1>16, <1>17, <1>18 DEF Next, Run, Environment

(* With rules that stay, the three commands of a revert and the three of a   *)
(* commit are the single steps that the loop counts on, failures and kills   *)
(* between them included, and the gates in between change only what          *)
(* commands write.                                                         *)
THEOREM TurnsImplementBaseline ==
    ASSUME Rules \notin AgentPath \cup CommandPath
    PROVE  Spec => ImplementsBaseline
<1>1. Init => Base!Init
  <2> SUFFICES ASSUME Init PROVE Base!Init
    OBVIOUS
  <2>1. pc = "idle"
    BY DEF Init
  <2>2. PlaceOf = "idle" /\ DirtOf = UnexpectedDirt
    BY <2>1, PlaceIs, DirtIs
  <2>3. UnexpectedDirt \subseteq Path \ State
    BY DEF UnexpectedDirt, Dirty
  <2> QED BY <2>2, <2>3 DEF Base!Init
<1>2. JudgedInv /\ JudgedInv' /\ FixedInv /\ FixedInv' /\ [Next]_vars
      => [Base!Next]_<<PlaceOf, HeadOf, DirtOf>>
  BY BaseStep
<1>3. JudgedInv /\ [Next]_vars => JudgedInv'
  BY JudgedStep
<1> QED
  BY <1>1, <1>2, <1>3, JudgedInit, FixedInit, FixedStep, PTL
     DEF Spec, ImplementsBaseline, Base!Spec
=============================================================================
