------------------------------ MODULE TaskGraph ------------------------------
(***************************************************************************)
(* The task graph of redgear/state_engine.py as a value: the mutable half  *)
(* of a node, the four transitions, readiness, selection, and the fold that *)
(* rebuilds a graph from the event log.  There are no variables here; the  *)
(* modules that own a graph (RunLoop) apply these operators to it.         *)
(*                                                                         *)
(* A node's immutable half (type, title, scope, criteria) never takes part *)
(* in a transition and is left out, except depends_on and max_attempts.    *)
(* Timestamps are left out.  A proof id is the number of the attempt it    *)
(* judges (the code prefixes it with run and task), 0 standing for None.   *)
(***************************************************************************)
EXTENDS Naturals, Sequences, FiniteSets

CONSTANTS
    Task,         \* the ids of the graph's nodes
    DependsOn,    \* depends_on of each node
    Rank,         \* the position of each id in the ascending order of ids
    MaxAttempts,  \* max_attempts of each node
    NoClaim       \* the claim of a node nobody holds (None)

ASSUME TaskAssumption == IsFiniteSet(Task)

ASSUME DependsOnAssumption == DependsOn \in [Task -> SUBSET Task]

ASSUME RankAssumption ==
    /\ Rank \in [Task -> Nat]
    /\ \A s, t \in Task : Rank[s] = Rank[t] => s = t

ASSUME MaxAttemptsAssumption == MaxAttempts \in [Task -> Nat \ {0}]

ASSUME NoClaimAssumption == NoClaim \notin Nat

(* validate_graph, run on every load, refuses a cyclic edge set: in every  *)
(* non-empty set of nodes one depends on no other of the set.              *)
ASSUME AcyclicAssumption ==
    \A S \in SUBSET Task :
        S # {} => \E t \in S : DependsOn[t] \cap S = {}

-----------------------------------------------------------------------------
(* Nodes and graphs *)

NodeState == {"blocked", "ready", "claimed", "dispatched", "verifying",
              "verified", "rejected", "escalated"}

EscalationReason == {"none", "blocker", "attempts_exhausted"}

Node == [state      : NodeState,
         attempts   : Nat,
         claim      : Nat \cup {NoClaim},  \* base_commit, as a commit number
         prior      : Seq(Nat),            \* attempt_number of prior_attempts
         proof      : Nat,
         escalation : EscalationReason]

Graph == [Task -> Node]

(* The states each transition may start from. *)
Recomputable    == {"blocked", "ready"}

(* Mutant: an escalated task is selected again. *)
ClaimableFromEscalated == {"ready", "rejected", "escalated"}

ClaimableFrom   == {"ready", "rejected"}
VerifiableFrom  == {"claimed", "dispatched", "verifying"}
RejectableFrom  == {"claimed", "dispatched", "verifying"}
EscalatableFrom == {"claimed", "dispatched", "verifying", "rejected"}

-----------------------------------------------------------------------------
(* Readiness and selection *)

DepsVerified(g, t) == \A d \in DependsOn[t] : g[d].state = "verified"

(* Mutant: a dependency that has left the queue counts as done. *)
BrokenRecompute(g) ==
    [t \in Task |->
        IF g[t].state \in Recomputable
        THEN [g[t] EXCEPT !.state =
                  IF \A d \in DependsOn[t] : g[d].state \notin Recomputable
                  THEN "ready" ELSE "blocked"]
        ELSE g[t]]

Recompute(g) ==
    [t \in Task |->
        IF g[t].state \in Recomputable
        THEN [g[t] EXCEPT !.state = IF DepsVerified(g, t) THEN "ready" ELSE "blocked"]
        ELSE g[t]]

Claimable(g) == {t \in Task : g[t].state \in ClaimableFrom}

(* The sort key (-len(depends_on), id). *)
Precedes(s, t) ==
    LET m == Cardinality(DependsOn[s])
        n == Cardinality(DependsOn[t])
    IN  m > n \/ (m = n /\ Rank[s] < Rank[t])

(* The task to work on next, as a set: empty when next_ready_task is None. *)
NextReady(g) == {t \in Claimable(g) : \A s \in Claimable(g) \ {t} : Precedes(t, s)}

-----------------------------------------------------------------------------
(* Transitions: what each writes to its node *)

ClaimNode(n, base) == [n EXCEPT !.state = "claimed", !.claim = base]

VerifyNode(n, proof) ==
    [n EXCEPT !.state = "verified", !.proof = proof, !.claim = NoClaim]

RejectNode(n) ==
    [n EXCEPT !.state    = "rejected",
              !.attempts = n.attempts + 1,
              !.claim    = NoClaim,
              !.prior    = Append(n.prior, n.attempts + 1)]

EscalateNode(n, reason) ==
    [n EXCEPT !.state = "escalated", !.claim = NoClaim, !.escalation = reason]

-----------------------------------------------------------------------------
(* Rebuilding a graph from the log *)

(* plan_definition: every mutable field back to its pristine value.        *)
PristineNode ==
    [state |-> "blocked", attempts |-> 0, claim |-> NoClaim, prior |-> <<>>,
     proof |-> 0, escalation |-> "none"]

PlanDefinition == Recompute([t \in Task |-> PristineNode])

(* One step of replay_graph for an event about this node.  An event carries  *)
(* its kind and a number: the proof of task_verified, the attempt of       *)
(* task_rejected.  Claims and escalation records are not replayed.         *)
ReplayEvent(n, kind, num) ==
    CASE kind = "task_claimed"   -> [n EXCEPT !.state = "claimed"]
      [] kind = "task_verified"  -> [n EXCEPT !.state = "verified", !.proof = num,
                                              !.claim = NoClaim]
      [] kind = "task_rejected"  -> [n EXCEPT !.state = "rejected", !.attempts = num,
                                              !.claim = NoClaim,
                                              !.prior = Append(n.prior, num)]
      [] kind = "task_escalated" -> [n EXCEPT !.state = "escalated", !.claim = NoClaim]
=============================================================================
