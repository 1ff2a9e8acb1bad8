--------------------------- MODULE PlanningProofs ---------------------------
(***************************************************************************)
(* The approval gate holds for any number of plan commands, approvals, runs *)
(* and kills, in any order: only approved plans are active or run, and only *)
(* plans that passed every check are written.                              *)
(***************************************************************************)
EXTENDS Planning, TLAPS

Sound == Plan \ (Broken \cup Poor)

(* A plan that is being written passed the checks. *)
MadeIsSound ==
    \A p \in Planner : planner[p].at \in {"spec", "graph", "event"} => planner[p].made \in Sound

(* An approval holds a sound draft, and its event precedes its write.      *)
SeenIsSound ==
    \A a \in Approver :
        /\ approver[a].at \in {"append", "persist"} => approver[a].seen.plan \in Sound
        /\ approver[a].at = "persist" => approver[a].seen.plan \in ApprovedPlans

FilesAreSound ==
    /\ graph.plan \in Sound \cup {NoPlan}
    /\ loop.mem.plan \in Sound \cup {NoPlan}
    /\ \A i \in 1 .. Len(log) : log[i].plan \in Sound

GateInv == MadeIsSound /\ SeenIsSound /\ FilesAreSound /\ OnlyApprovedRuns

-----------------------------------------------------------------------------

(* An append only adds to what is approved. *)
LEMMA AppendApproves ==
    ASSUME TypeOK, NEW e \in PlanEvent, log' = Append(log, e)
    PROVE  /\ log' \in Seq(PlanEvent)
           /\ ApprovedPlans \subseteq ApprovedPlans'
           /\ e.event = "plan_approved" => e.plan \in ApprovedPlans'
           /\ (\A i \in 1 .. Len(log) : log[i].plan \in Sound) /\ e.plan \in Sound
                => \A i \in 1 .. Len(log') : log'[i].plan \in Sound
<1> DEFINE n == Len(log)
<1>1. log \in Seq(PlanEvent) /\ n \in Nat
  BY DEF TypeOK
<1>2. /\ log' \in Seq(PlanEvent) /\ Len(log') = n + 1 /\ log'[n + 1] = e
      /\ \A i \in 1 .. n : log'[i] = log[i]
  BY <1>1
<1> HIDE DEF n
<1>3. \A i \in 1 .. n : i \in 1 .. n + 1
  BY <1>1
<1>4. ApprovedPlans \subseteq ApprovedPlans'
  <2> SUFFICES ASSUME NEW i \in 1 .. n, log[i].event = "plan_approved"
               PROVE  log[i].plan \in ApprovedPlans'
    BY DEF ApprovedPlans, n
  <2> QED
    BY <1>2, <1>3 DEF ApprovedPlans
<1>5. e.event = "plan_approved" => e.plan \in ApprovedPlans'
  <2>1. n + 1 \in 1 .. Len(log')
    BY <1>1, <1>2
  <2> QED
    BY <1>2, <2>1 DEF ApprovedPlans
<1>6. ASSUME \A i \in 1 .. n : log[i].plan \in Sound, e.plan \in Sound
      PROVE  \A i \in 1 .. Len(log') : log'[i].plan \in Sound
  BY <1>1, <1>2, <1>6
<1> QED
  BY <1>2, <1>4, <1>5, <1>6 DEF n

LEMMA EventType ==
    ASSUME NEW kind \in {"plan_generated", "plan_approved"}, NEW plan \in Sound
    PROVE  /\ Event(kind, plan) \in PlanEvent
           /\ Event(kind, plan).plan = plan /\ Event(kind, plan).event = kind
BY PlanAssumption DEF Event, PlanEvent, Sound

LEMMA SameLogSameApprovals ==
    ASSUME UNCHANGED log
    PROVE  ApprovedPlans' = ApprovedPlans
BY DEF ApprovedPlans

LEMMA PlannerStepKeeps ==
    ASSUME TypeOK, GateInv, NEW p \in Planner, PlannerStep(p)
    PROVE  TypeOK' /\ GateInv'
<1> USE DEF TypeOK, GateInv
<1>1. CASE StartPlan(p) \/ PlanRefused(p) \/ PlannerFails(p)
  <2>1. UNCHANGED <<diskVars, approver, loop, runs, kills>>
    BY <1>1 DEF StartPlan, PlanRefused, PlannerFails
  <2> DEFINE T == [at : {"new", "dispatch", "spec", "graph", "event", "done"},
                   attempt : Nat, made : Plan \cup {NoPlan}]
  <2>0. planner \in [Planner -> T] /\ planner[p] \in T
    OBVIOUS
  <2>a. PICK r \in T : planner' = [planner EXCEPT ![p] = r] /\ r.at \in {"dispatch", "done"}
    <3> HIDE DEF TypeOK, GateInv
    <3>1. /\ [planner[p] EXCEPT !.at = "dispatch", !.attempt = 1] \in T
          /\ [planner[p] EXCEPT !.attempt = planner[p].attempt + 1] \in T
          /\ [planner[p] EXCEPT !.at = "done"] \in T
      <4>1. [planner[p] EXCEPT !.at = "dispatch", !.attempt = 1] \in T
        BY <2>0
      <4>2. [planner[p] EXCEPT !.attempt = planner[p].attempt + 1] \in T
        BY <2>0
      <4>3. [planner[p] EXCEPT !.at = "done"] \in T
        BY <2>0
      <4> QED
        BY <4>1, <4>2, <4>3
    <3>2. CASE StartPlan(p)
      <4>1. planner' = [planner EXCEPT
                          ![p] = [planner[p] EXCEPT !.at = "dispatch", !.attempt = 1]]
        BY <2>0, <3>2 DEF StartPlan
      <4> QED
        BY <2>0, <3>1, <4>1
    <3>3. CASE PlanRefused(p) /\ planner[p].attempt < MaxPlanAttempts
      <4>1. /\ planner' = [planner EXCEPT
                             ![p] = [planner[p] EXCEPT !.attempt = planner[p].attempt + 1]]
            /\ planner[p].at = "dispatch"
        BY <2>0, <3>3 DEF PlanRefused
      <4> QED
        BY <2>0, <3>1, <4>1
    <3>4. CASE PlanRefused(p) /\ ~ (planner[p].attempt < MaxPlanAttempts)
      <4>1. planner' = [planner EXCEPT ![p] = [planner[p] EXCEPT !.at = "done"]]
        BY <2>0, <3>4 DEF PlanRefused
      <4> QED
        BY <2>0, <3>1, <4>1
    <3>6. CASE PlannerFails(p)
      <4>1. planner' = [planner EXCEPT ![p] = [planner[p] EXCEPT !.at = "done"]]
        BY <2>0, <3>6 DEF PlannerFails
      <4> QED
        BY <2>0, <3>1, <4>1
    <3>5. CASE PlanRefused(p)
      BY <3>3, <3>4, <3>5
    <3> QED
      BY <1>1, <3>2, <3>5, <3>6
  <2>2. /\ planner' \in [Planner -> T]
        /\ \A q \in Planner : planner'[q].at \in {"spec", "graph", "event"} =>
              planner'[q] = planner[q]
    BY <2>0, <2>a
  <2>3. TypeOK'
    BY <2>1, <2>2 DEF diskVars
  <2>4. MadeIsSound'
    BY <2>2 DEF MadeIsSound
  <2> QED
    BY <2>1, <2>3, <2>4, SameLogSameApprovals
    DEF diskVars, SeenIsSound, FilesAreSound, OnlyApprovedRuns, Running
<1>2. CASE PlanAccepted(p)
  <2>1. PICK plan \in Plan :
            /\ Accepted(p, plan)
            /\ planner' = [planner EXCEPT ![p].at = "spec", ![p].made = plan]
    BY <1>2 DEF PlanAccepted
  <2>2. plan \in Sound
    BY <2>1 DEF Accepted, Sound
  <2>3. UNCHANGED <<diskVars, approver, loop, runs, kills>>
    BY <1>2 DEF PlanAccepted
  <2>4. TypeOK'
    BY <2>1, <2>3 DEF diskVars
  <2>5. MadeIsSound'
    BY <2>1, <2>2 DEF MadeIsSound
  <2> QED
    BY <2>3, <2>4, <2>5, SameLogSameApprovals
    DEF diskVars, SeenIsSound, FilesAreSound, OnlyApprovedRuns, Running
<1>3. CASE WriteSpec(p)
  <2>1. planner[p].made \in Sound
    BY <1>3 DEF WriteSpec, MadeIsSound
  <2>2. TypeOK'
    BY <1>3, <2>1, PlanAssumption DEF WriteSpec, Sound
  <2>3. MadeIsSound'
    BY <1>3, <2>1 DEF WriteSpec, MadeIsSound
  <2> QED
    BY <1>3, <2>2, <2>3, SameLogSameApprovals
    DEF WriteSpec, SeenIsSound, FilesAreSound, OnlyApprovedRuns, Running
<1>4. CASE WriteGraph(p)
  <2>1. planner[p].made \in Sound
    BY <1>4 DEF WriteGraph, MadeIsSound
  <2>2. TypeOK'
    BY <1>4, <2>1 DEF WriteGraph, Sound, GraphFile
  <2>3. MadeIsSound'
    BY <1>4, <2>1 DEF WriteGraph, MadeIsSound
  <2> QED
    BY <1>4, <2>1, <2>2, <2>3, SameLogSameApprovals
    DEF WriteGraph, SeenIsSound, FilesAreSound, OnlyApprovedRuns, Running
<1>5. CASE LogGenerated(p)
  <2> DEFINE e == Event("plan_generated", planner[p].made)
  <2>1. planner[p].made \in Sound
    BY <1>5 DEF LogGenerated, MadeIsSound
  <2>2. e \in PlanEvent /\ e.plan \in Sound
    BY <2>1, EventType
  <2>3. log' = Append(log, e) /\ UNCHANGED <<spec, graph, approver, loop, runs, kills>>
        /\ planner' = [planner EXCEPT ![p].at = "done"]
    BY <1>5 DEF LogGenerated
  <2> HIDE DEF e
  <2>4. /\ log' \in Seq(PlanEvent) /\ ApprovedPlans \subseteq ApprovedPlans'
        /\ \A i \in 1 .. Len(log') : log'[i].plan \in Sound
    BY <2>2, <2>3, AppendApproves DEF FilesAreSound
  <2>5. TypeOK'
    BY <2>3, <2>4
  <2>6. MadeIsSound'
    BY <2>3 DEF MadeIsSound
  <2> QED
    BY <2>3, <2>4, <2>5, <2>6 DEF SeenIsSound, FilesAreSound, OnlyApprovedRuns, Running
<1> HIDE DEF TypeOK, GateInv
<1> QED
  BY <1>1, <1>2, <1>3, <1>4, <1>5 DEF PlannerStep

LEMMA ApproverStepKeeps ==
    ASSUME TypeOK, GateInv, NEW a \in Approver, ApproverStep(a)
    PROVE  TypeOK' /\ GateInv'
<1> USE DEF TypeOK, GateInv
<1>1. CASE Review(a)
  <2>1. TypeOK'
    BY <1>1 DEF Review, diskVars, GraphFile
  <2>2. SeenIsSound'
    BY <1>1, SameLogSameApprovals DEF Review, diskVars, SeenIsSound
  <2> QED
    BY <1>1, <2>1, <2>2, SameLogSameApprovals
    DEF Review, diskVars, MadeIsSound, FilesAreSound, OnlyApprovedRuns, Running
<1>2. CASE LoadForApproval(a)
  <2>1. TypeOK'
    BY <1>2 DEF LoadForApproval, diskVars
  <2>2. graph.plan \in Sound
    BY <1>2 DEF LoadForApproval, FilesAreSound
  <2>3. SeenIsSound'
    BY <1>2, <2>2, SameLogSameApprovals DEF LoadForApproval, diskVars, SeenIsSound
  <2> QED
    BY <1>2, <2>1, <2>3, SameLogSameApprovals
    DEF LoadForApproval, diskVars, MadeIsSound, FilesAreSound, OnlyApprovedRuns, Running
<1>3. CASE LogApproved(a)
  <2> DEFINE e == Event("plan_approved", approver[a].seen.plan)
  <2>1. approver[a].seen.plan \in Sound
    BY <1>3 DEF LogApproved, SeenIsSound
  <2>2. e \in PlanEvent /\ e.plan = approver[a].seen.plan /\ e.event = "plan_approved"
    BY <2>1, EventType
  <2>3. log' = Append(log, e) /\ UNCHANGED <<spec, graph, planner, loop, runs, kills>>
        /\ approver' = [approver EXCEPT ![a].at = "persist"]
    BY <1>3 DEF LogApproved
  <2> HIDE DEF e
  <2>4. /\ log' \in Seq(PlanEvent) /\ ApprovedPlans \subseteq ApprovedPlans'
        /\ \A i \in 1 .. Len(log') : log'[i].plan \in Sound
        /\ approver[a].seen.plan \in ApprovedPlans'
    BY <2>1, <2>2, <2>3, AppendApproves DEF FilesAreSound
  <2>5. TypeOK'
    BY <2>3, <2>4
  <2>6. SeenIsSound'
    BY <2>1, <2>3, <2>4 DEF SeenIsSound
  <2> QED
    BY <2>3, <2>4, <2>5, <2>6 DEF MadeIsSound, FilesAreSound, OnlyApprovedRuns, Running
<1>4. CASE PersistApproved(a)
  <2>1. approver[a].seen.plan \in Sound /\ approver[a].seen.plan \in ApprovedPlans
    BY <1>4 DEF PersistApproved, SeenIsSound
  <2>2. graph' = [approver[a].seen EXCEPT !.state = "active"] /\ approver[a].seen \in GraphFile
    BY <1>4 DEF PersistApproved
  <2>3. graph' \in GraphFile /\ graph'.plan = approver[a].seen.plan
    BY <2>2 DEF GraphFile
  <2>4. TypeOK'
    BY <1>4, <2>3 DEF PersistApproved
  <2>5. SeenIsSound'
    BY <1>4, SameLogSameApprovals DEF PersistApproved, SeenIsSound
  <2> QED
    BY <1>4, <2>1, <2>3, <2>4, <2>5, SameLogSameApprovals
    DEF PersistApproved, MadeIsSound, FilesAreSound, OnlyApprovedRuns, Running
<1> HIDE DEF TypeOK, GateInv
<1> QED
  BY <1>1, <1>2, <1>3, <1>4 DEF ApproverStep

LEMMA LoopStepKeeps ==
    ASSUME TypeOK, GateInv, LoopStep
    PROVE  TypeOK' /\ GateInv'
<1> USE DEF TypeOK, GateInv
<1>0. UNCHANGED <<spec, log, planner, approver>> /\ ApprovedPlans' = ApprovedPlans
  BY SameLogSameApprovals DEF LoopStep, StartRun, LoadForRun, Transition, PersistTransition,
                              EndRun, diskVars
<1>1. MadeIsSound' /\ SeenIsSound'
  BY <1>0 DEF MadeIsSound, SeenIsSound
<1>2. CASE StartRun
  BY <1>0, <1>1, <1>2 DEF StartRun, diskVars, FilesAreSound, OnlyApprovedRuns, Running
<1>3. CASE LoadForRun
  BY <1>0, <1>1, <1>3 DEF LoadForRun, diskVars, FilesAreSound, OnlyApprovedRuns, Running
<1>4. CASE Transition
  <2>1. /\ loop' = [at |-> "persist", mem |-> [loop.mem EXCEPT !.turns = @ + 1]]
        /\ UNCHANGED <<graph, runs, kills>> /\ loop.at = "running"
    BY <1>4 DEF Transition, diskVars
  <2>0. loop.mem \in GraphFile
    OBVIOUS
  <2> HIDE DEF TypeOK, GateInv
  <2>2. /\ [loop.mem EXCEPT !.turns = @ + 1] \in GraphFile
        /\ [loop.mem EXCEPT !.turns = @ + 1].plan = loop.mem.plan
    BY <2>0 DEF GraphFile
  <2> USE DEF TypeOK, GateInv
  <2>3. loop'.at = "persist" /\ loop'.mem \in GraphFile /\ loop'.mem.plan = loop.mem.plan
    BY <2>1, <2>2
  <2>4. TypeOK'
    BY <1>0, <2>1, <2>2
  <2> QED
    BY <1>0, <1>1, <2>1, <2>3, <2>4 DEF FilesAreSound, OnlyApprovedRuns, Running
<1>5. CASE PersistTransition
  BY <1>0, <1>1, <1>5 DEF PersistTransition, FilesAreSound, OnlyApprovedRuns, Running
<1>6. CASE EndRun
  BY <1>0, <1>1, <1>6 DEF EndRun, diskVars, FilesAreSound, OnlyApprovedRuns, Running
<1> HIDE DEF TypeOK, GateInv
<1> QED
  BY <1>2, <1>3, <1>4, <1>5, <1>6 DEF LoopStep

LEMMA KillKeeps ==
    ASSUME TypeOK, GateInv, Kill
    PROVE  TypeOK' /\ GateInv'
<1> USE DEF TypeOK, GateInv
<1>0. /\ UNCHANGED <<spec, graph, log, runs>> /\ ApprovedPlans' = ApprovedPlans
      /\ kills' \in Nat
  BY SameLogSameApprovals DEF Kill, diskVars
<1>1. CASE \E p \in Planner :
             /\ planner' = [planner EXCEPT ![p].at = "done"]
             /\ UNCHANGED <<approver, loop>>
  BY <1>0, <1>1 DEF MadeIsSound, SeenIsSound, FilesAreSound, OnlyApprovedRuns, Running
<1>2. CASE \E a \in Approver :
             /\ approver' = [approver EXCEPT ![a].at = "done"]
             /\ UNCHANGED <<planner, loop>>
  BY <1>0, <1>2 DEF MadeIsSound, SeenIsSound, FilesAreSound, OnlyApprovedRuns, Running
<1>3. CASE loop' = [loop EXCEPT !.at = "idle"] /\ UNCHANGED <<planner, approver>>
  BY <1>0, <1>3 DEF MadeIsSound, SeenIsSound, FilesAreSound, OnlyApprovedRuns, Running
<1> HIDE DEF TypeOK, GateInv
<1> QED
  BY <1>1, <1>2, <1>3 DEF Kill

LEMMA GateStep == TypeOK /\ GateInv /\ [Next]_vars => TypeOK' /\ GateInv'
<1> SUFFICES ASSUME TypeOK, GateInv, [Next]_vars PROVE TypeOK' /\ GateInv'
  OBVIOUS
<1>1. CASE EditSpec
  BY <1>1, SameLogSameApprovals
  DEF EditSpec, TypeOK, GateInv, MadeIsSound, SeenIsSound, FilesAreSound, OnlyApprovedRuns, Running
<1>2. CASE UNCHANGED vars
  BY <1>2, SameLogSameApprovals
  DEF vars, diskVars, TypeOK, GateInv, MadeIsSound, SeenIsSound, FilesAreSound,
      OnlyApprovedRuns, Running
<1> QED
  BY <1>1, <1>2, PlannerStepKeeps, ApproverStepKeeps, LoopStepKeeps, KillKeeps DEF Next

LEMMA GateInvariant == Spec => [](TypeOK /\ GateInv)
<1>1. Init => TypeOK /\ GateInv
  BY PlanAssumption DEF Init, NoGraph, TypeOK, GateInv, GraphFile, MadeIsSound, SeenIsSound,
     FilesAreSound, OnlyApprovedRuns, Running
<1> QED
  BY <1>1, GateStep, PTL DEF Spec

(* Every file and every command keeps its type. *)
THEOREM PlanningTypeCorrect == Spec => []TypeOK
BY GateInvariant, PTL

(* The gate between plan and run: however the commands interleave and      *)
(* whichever of them dies, an active graph and a run have an approval of   *)
(* their plan in the log.                                                  *)
THEOREM ApprovalGatesEveryRun == Spec => []OnlyApprovedRuns
<1>1. GateInv => OnlyApprovedRuns
  BY DEF GateInv
<1> QED
  BY <1>1, GateInvariant, PTL

(* No plan that fails a check reaches a file, the log or a run. *)
THEOREM RefusedPlansLeaveNothing == Spec => []OnlySoundPlansLand
<1>1. GateInv => OnlySoundPlansLand
  BY PlanAssumption DEF GateInv, FilesAreSound, Sound, OnlySoundPlansLand
<1> QED
  BY <1>1, GateInvariant, PTL
=============================================================================
