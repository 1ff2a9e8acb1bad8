------------------------------ MODULE Planning ------------------------------
(***************************************************************************)
(* The road from a requirements document to a running plan: `redgear plan` *)
(* (planner.generate_plan, state_engine.persist_plan), `redgear approve` or *)
(* POST /plan/approve (planner.approve_plan, state_engine.approve_plan),   *)
(* and `redgear run` as far as it reads and writes the graph.  They are    *)
(* separate processes on the files of one .redgear directory, and only the *)
(* runs exclude each other: no lock covers planning or approving.          *)
(*                                                                         *)
(* A plan is what an agent may answer with; PlanGraph models the checks.   *)
(* persist_graph replaces the file atomically, so a write is one step.     *)
(***************************************************************************)
EXTENDS Naturals, Sequences, FiniteSets

CONSTANTS
    Planner, Approver,  \* the `plan` and the `approve` commands of a history
    Plan,               \* the documents the planning agent may return
    Broken,             \* those normalise_plan or validate_graph refuses
    Poor,               \* those check_plan_quality finds a problem in
    Hash,               \* spec hashes
    SpecHash,           \* the hash of a plan's requirements and out_of_scope
    NoPlan, NoSpec,     \* no task_graph.json, no spec.json
    MaxPlanAttempts,    \* max_attempts of generate_plan
    SpecEdits,          \* may a human edit spec.json?
    MaxRuns, MaxTurns, MaxKills  \* bounds on the exploration

ASSUME PlanAssumption ==
    /\ Broken \subseteq Plan /\ Poor \subseteq Plan
    /\ SpecHash \in [Plan -> Hash]
    /\ NoPlan \notin Plan /\ NoSpec \notin Hash

ASSUME PlanningBounds ==
    /\ MaxPlanAttempts \in Nat \ {0}
    /\ SpecEdits \in BOOLEAN
    /\ {MaxRuns, MaxTurns, MaxKills} \subseteq Nat

VARIABLES
    spec,      \* .redgear/spec/spec.json, as its hash
    graph,     \* .redgear/task_graph.json
    log,       \* the events of .redgear/events.jsonl that are about plans
    planner,   \* each `redgear plan`
    approver,  \* each human and their `redgear approve`
    loop,      \* the `redgear run` that holds the run lock, if any
    runs, kills

diskVars == <<spec, graph, log>>
vars == <<diskVars, planner, approver, loop, runs, kills>>

-----------------------------------------------------------------------------

(* A graph file: which plan, its state, and how many transitions its tasks *)
(* have made.                                                              *)
GraphFile == [plan : Plan \cup {NoPlan}, state : {"draft", "active"}, turns : Nat]
NoGraph == [plan |-> NoPlan, state |-> "draft", turns |-> 0]

(* The plan of an event is not recorded, only its hash; it is here for the *)
(* properties.                                                             *)
PlanEvent == [event : {"plan_generated", "plan_approved"}, hash : Hash, plan : Plan]
Event(kind, plan) == [event |-> kind, hash |-> SpecHash[plan], plan |-> plan]

TypeOK ==
    /\ spec \in Hash \cup {NoSpec}
    /\ graph \in GraphFile
    /\ log \in Seq(PlanEvent)
    /\ planner \in [Planner -> [at : {"new", "dispatch", "spec", "graph", "event", "done"},
                                attempt : Nat, made : Plan \cup {NoPlan}]]
    /\ approver \in [Approver -> [at : {"new", "reviewed", "append", "persist", "done"},
                                  reviewed : Plan \cup {NoPlan}, seen : GraphFile]]
    /\ loop \in [at : {"idle", "starting", "running", "persist"}, mem : GraphFile]
    /\ runs \in Nat /\ kills \in Nat

Init ==
    /\ spec = NoSpec
    /\ graph = NoGraph
    /\ log = <<>>
    /\ planner = [p \in Planner |-> [at |-> "new", attempt |-> 0, made |-> NoPlan]]
    /\ approver = [a \in Approver |-> [at |-> "new", reviewed |-> NoPlan, seen |-> NoGraph]]
    /\ loop = [at |-> "idle", mem |-> NoGraph]
    /\ runs = 0 /\ kills = 0

-----------------------------------------------------------------------------
(* redgear plan *)

StartPlan(p) ==
    /\ planner[p].at = "new"
    /\ planner' = [planner EXCEPT ![p].at = "dispatch", ![p].attempt = 1]
    /\ UNCHANGED <<diskVars, approver, loop, runs, kills>>

Accepted(p, plan) == plan \notin Broken \cup Poor

(* The agent's plan passes every check: only now is anything written. *)
PlanAccepted(p) ==
    /\ planner[p].at = "dispatch"
    /\ \E plan \in Plan :
          /\ Accepted(p, plan)
          /\ planner' = [planner EXCEPT ![p].at = "spec", ![p].made = plan]
    /\ UNCHANGED <<diskVars, approver, loop, runs, kills>>

(* Mutant: a plan that does not validate starts the count again. *)
BrokenPlanRefused(p) ==
    /\ planner[p].at = "dispatch"
    /\ Broken \cup Poor # {}
    /\ \/ Broken # {} /\ planner' = [planner EXCEPT ![p].attempt = 1]
       \/ planner' = IF planner[p].attempt < MaxPlanAttempts
                     THEN [planner EXCEPT ![p].attempt = @ + 1]
                     ELSE [planner EXCEPT ![p].at = "done"]
    /\ UNCHANGED <<diskVars, approver, loop, runs, kills>>

(* The problems go into the next prompt, until the attempts are used up.   *)
PlanRefused(p) ==
    /\ planner[p].at = "dispatch"
    /\ Broken \cup Poor # {}
    /\ planner' = IF planner[p].attempt < MaxPlanAttempts
                  THEN [planner EXCEPT ![p].attempt = @ + 1]
                  ELSE [planner EXCEPT ![p].at = "done"]
    /\ UNCHANGED <<diskVars, approver, loop, runs, kills>>

(* RunnerError from dispatch_json is not caught: no retry. *)
PlannerFails(p) ==
    /\ planner[p].at = "dispatch"
    /\ planner' = [planner EXCEPT ![p].at = "done"]
    /\ UNCHANGED <<diskVars, approver, loop, runs, kills>>

(* persist_plan: the spec, then the graph, then the event. *)
WriteSpec(p) ==
    /\ planner[p].at = "spec"
    /\ spec' = SpecHash[planner[p].made]
    /\ planner' = [planner EXCEPT ![p].at = "graph"]
    /\ UNCHANGED <<graph, log, approver, loop, runs, kills>>

(* Mutant: the state the agent claims is kept. *)
BrokenWriteGraph(p) ==
    /\ planner[p].at = "graph"
    /\ \E state \in {"draft", "active"} :
          graph' = [plan |-> planner[p].made, state |-> state, turns |-> 0]
    /\ planner' = [planner EXCEPT ![p].at = "event"]
    /\ UNCHANGED <<spec, log, approver, loop, runs, kills>>

(* Always a draft, which normalise_plan has made of it, with every task     *)
(* pristine, whatever graph was there.                                     *)
WriteGraph(p) ==
    /\ planner[p].at = "graph"
    /\ graph' = [plan |-> planner[p].made, state |-> "draft", turns |-> 0]
    /\ planner' = [planner EXCEPT ![p].at = "event"]
    /\ UNCHANGED <<spec, log, approver, loop, runs, kills>>

LogGenerated(p) ==
    /\ planner[p].at = "event"
    /\ log' = Append(log, Event("plan_generated", planner[p].made))
    /\ planner' = [planner EXCEPT ![p].at = "done"]
    /\ UNCHANGED <<spec, graph, approver, loop, runs, kills>>

-----------------------------------------------------------------------------
(* redgear approve *)

(* `redgear status`, or the browser: a human reads the plan. *)
Review(a) ==
    /\ approver[a].at = "new"
    /\ graph.plan # NoPlan
    /\ approver' = [approver EXCEPT ![a].at = "reviewed", ![a].reviewed = graph.plan]
    /\ UNCHANGED <<diskVars, planner, loop, runs, kills>>

(* The command names an approver but no plan: it loads what is there now,  *)
(* reviewed or not.                                                        *)
LoadForApproval(a) ==
    /\ approver[a].at \in {"new", "reviewed"}
    /\ graph.plan # NoPlan
    /\ approver' = IF graph.state = "active"
                   THEN [approver EXCEPT ![a].at = "done"]
                   ELSE [approver EXCEPT ![a].at = "append", ![a].seen = graph]
    /\ UNCHANGED <<diskVars, planner, loop, runs, kills>>

LogApproved(a) ==
    /\ approver[a].at = "append"
    /\ log' = Append(log, Event("plan_approved", approver[a].seen.plan))
    /\ approver' = [approver EXCEPT ![a].at = "persist"]
    /\ UNCHANGED <<spec, graph, planner, loop, runs, kills>>

(* Mutant: the new state is not one a graph has. *)
BrokenPersistApproved(a) ==
    /\ approver[a].at = "persist"
    /\ graph' = [approver[a].seen EXCEPT !.state = "approved"]
    /\ approver' = [approver EXCEPT ![a].at = "done"]
    /\ UNCHANGED <<spec, log, planner, loop, runs, kills>>

(* The graph that was loaded is written back, whatever is there by now.    *)
PersistApproved(a) ==
    /\ approver[a].at = "persist"
    /\ graph' = [approver[a].seen EXCEPT !.state = "active"]
    /\ approver' = [approver EXCEPT ![a].at = "done"]
    /\ UNCHANGED <<spec, log, planner, loop, runs, kills>>

-----------------------------------------------------------------------------
(* redgear run *)

(* The command's own look at the graph. *)
StartRun ==
    /\ loop.at = "idle" /\ runs < MaxRuns
    /\ graph.plan # NoPlan /\ graph.state = "active"
    /\ loop' = [loop EXCEPT !.at = "starting"]
    /\ runs' = runs + 1
    /\ UNCHANGED <<diskVars, planner, approver, kills>>

(* Mutant: the first look is enough. *)
BrokenLoadForRun ==
    /\ loop.at = "starting"
    /\ loop' = [at |-> "running", mem |-> graph]
    /\ UNCHANGED <<diskVars, planner, approver, runs, kills>>

(* orchestrator.run loads it again, under the run lock, and refuses a draft. *)
LoadForRun ==
    /\ loop.at = "starting"
    /\ loop' = IF graph.state = "active"
               THEN [at |-> "running", mem |-> graph] ELSE [loop EXCEPT !.at = "idle"]
    /\ UNCHANGED <<diskVars, planner, approver, runs, kills>>

(* A transition of a task, of which only the write of the graph matters here. *)
Transition ==
    /\ loop.at = "running"
    /\ loop.mem.turns < MaxTurns
    /\ loop' = [at |-> "persist", mem |-> [loop.mem EXCEPT !.turns = @ + 1]]
    /\ UNCHANGED <<diskVars, planner, approver, runs, kills>>

PersistTransition ==
    /\ loop.at = "persist"
    /\ graph' = loop.mem
    /\ loop' = [loop EXCEPT !.at = "running"]
    /\ UNCHANGED <<spec, log, planner, approver, runs, kills>>

EndRun ==
    /\ loop.at = "running"
    /\ loop' = [loop EXCEPT !.at = "idle"]
    /\ UNCHANGED <<diskVars, planner, approver, runs, kills>>

-----------------------------------------------------------------------------
(* Around them *)

(* A human edits the requirements. *)
EditSpec ==
    /\ SpecEdits
    /\ spec # NoSpec
    /\ spec' \in Hash \ {spec}
    /\ UNCHANGED <<graph, log, planner, approver, loop, runs, kills>>

(* A command is killed, or one of its writes fails, between two steps.     *)
Kill ==
    /\ kills < MaxKills
    /\ kills' = kills + 1
    /\ \/ \E p \in Planner :
             /\ planner[p].at \notin {"new", "done"}
             /\ planner' = [planner EXCEPT ![p].at = "done"]
             /\ UNCHANGED <<approver, loop>>
       \/ \E a \in Approver :
             /\ approver[a].at \in {"append", "persist"}
             /\ approver' = [approver EXCEPT ![a].at = "done"]
             /\ UNCHANGED <<planner, loop>>
       \/ /\ loop.at # "idle"
          /\ loop' = [loop EXCEPT !.at = "idle"]
          /\ UNCHANGED <<planner, approver>>
    /\ UNCHANGED <<diskVars, runs>>

PlannerStep(p) ==
    \/ StartPlan(p) \/ PlanAccepted(p) \/ PlanRefused(p) \/ PlannerFails(p)
    \/ WriteSpec(p) \/ WriteGraph(p) \/ LogGenerated(p)

ApproverStep(a) ==
    Review(a) \/ LoadForApproval(a) \/ LogApproved(a) \/ PersistApproved(a)

LoopStep == StartRun \/ LoadForRun \/ Transition \/ PersistTransition \/ EndRun

Next ==
    \/ \E p \in Planner : PlannerStep(p)
    \/ \E a \in Approver : ApproverStep(a)
    \/ LoopStep
    \/ EditSpec
    \/ Kill

Spec == Init /\ [][Next]_vars

(* A `redgear plan` that was started goes on; the agent answers or times out. *)
FairSpec == Spec /\ \A p \in Planner : WF_vars(PlannerStep(p))

-----------------------------------------------------------------------------
(* Properties *)

ApprovedPlans == {log[i].plan : i \in {j \in 1 .. Len(log) : log[j].event = "plan_approved"}}

Running == loop.at \in {"running", "persist"}

(* Whoever writes over whom and whoever dies: an active graph on disk, and *)
(* the graph a run works on, belong to a plan the log has an approval of.  *)
OnlyApprovedRuns ==
    /\ graph.state = "active" => graph.plan \in ApprovedPlans
    /\ Running => loop.mem.plan \in ApprovedPlans

(* Nothing that fails a check reaches a file, a log or a run. *)
OnlySoundPlansLand ==
    ({graph.plan, loop.mem.plan} \cup {log[i].plan : i \in 1 .. Len(log)})
        \cap (Broken \cup Poor) = {}

(* A `redgear plan` ends, with a plan or with an error. *)
PlanningEnds == \A p \in Planner : planner[p].at = "dispatch" ~> planner[p].at = "done"

-----------------------------------------------------------------------------
(* What the repository says and the code does not keep.                    *)

(* Between two plans there is one approval at most: two approvers that load   *)
(* one draft refute it.                                                    *)
ApprovedOnce ==
    \A i, j \in 1 .. Len(log) :
        i < j /\ log[i].event = "plan_approved" /\ log[j].event = "plan_approved"
            => \E k \in i .. j : log[k].event = "plan_generated"

(* A run starts only if the requirements on disk are those its plan was made  *)
(* and approved for: an edit after the approval refutes it.                *)
RunMatchesSpec == [][~Running /\ Running' => SpecHash[loop'.mem.plan] = spec]_vars

(* When no plan is being written, a graph has its spec beside it: a second *)
(* planner killed after its spec refutes it.                               *)
GraphHasItsSpec ==
    graph.plan # NoPlan /\ (\A p \in Planner : planner[p].at \in {"new", "dispatch", "done"})
        => SpecHash[graph.plan] = spec

(* If everybody who approves has looked at a plan first, a run only works on *)
(* a plan that somebody has seen: a plan written between the look and the  *)
(* approval refutes it.                                                    *)
RunsWhatWasReviewed ==
    Running /\ (\A a \in Approver : approver[a].reviewed # NoPlan)
        => \E a \in Approver : approver[a].reviewed = loop.mem.plan
=============================================================================
