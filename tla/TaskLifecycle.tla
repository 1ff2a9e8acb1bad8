--------------------------- MODULE TaskLifecycle ---------------------------
(***************************************************************************)
(* What a task graph promises, whatever drives it: the lifecycle of        *)
(* state_engine.py section 4.2 seen from outside.  A task waits for its    *)
(* dependencies, is claimed, is judged, and either is done for good, comes *)
(* back with one attempt spent, or waits for a human.  No process, no log, *)
(* no crash: RunLoop is shown to implement this.                           *)
(***************************************************************************)
EXTENDS Naturals

CONSTANTS Task, DependsOn

VARIABLES
    stage,  \* "open" (blocked or ready), "claimed", "verified", "rejected", "escalated"
    spent   \* attempts consumed

Stage == {"open", "claimed", "verified", "rejected", "escalated"}

vars == <<stage, spent>>

Init ==
    /\ stage = [t \in Task |-> "open"]
    /\ spent = [t \in Task |-> 0]

Claim(t) ==
    /\ stage[t] \in {"open", "rejected"}
    /\ \A d \in DependsOn[t] : stage[d] = "verified"
    /\ stage' = [stage EXCEPT ![t] = "claimed"]
    /\ UNCHANGED spent

Verify(t) ==
    /\ stage[t] = "claimed"
    /\ stage' = [stage EXCEPT ![t] = "verified"]
    /\ UNCHANGED spent

Reject(t) ==
    /\ stage[t] = "claimed"
    /\ stage' = [stage EXCEPT ![t] = "rejected"]
    /\ spent' = [spent EXCEPT ![t] = @ + 1]

Escalate(t) ==
    /\ stage[t] \in {"claimed", "rejected"}
    /\ stage' = [stage EXCEPT ![t] = "escalated"]
    /\ UNCHANGED spent

Next == \E t \in Task : Claim(t) \/ Verify(t) \/ Reject(t) \/ Escalate(t)

Spec == Init /\ [][Next]_vars
=============================================================================
