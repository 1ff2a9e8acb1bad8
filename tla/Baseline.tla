------------------------------ MODULE Baseline ------------------------------
(***************************************************************************)
(* What a turn does to the tree, between the run loop and git: the tree is *)
(* clean before it, a verdict leaves it as it was but for what commands    *)
(* wrote, a revert takes away all that is there, a commit takes all of it, *)
(* and HEAD moves by nothing else.  RunLoop asks no more than this of git  *)
(* and does no less; WorkTree is what git gives.                           *)
(***************************************************************************)
CONSTANTS Work,    \* the paths that are the project's, not redgear's
          Written  \* those that the gates' commands may write

VARIABLES place,   \* where the run is
          head,    \* what HEAD has at each path
          dirt     \* the paths where the tree is not what HEAD has

Init == place = "idle" /\ dirt \in SUBSET Work

(* A run starts, and a task is claimed, on a clean tree. *)
Begin ==
    /\ \/ place = "idle" /\ place' = "claim"
       \/ place = "claim" /\ place' = "turn"
    /\ dirt = {}
    /\ UNCHANGED <<head, dirt>>

Turn ==
    /\ place = "turn"
    /\ dirt' \in SUBSET Work
    /\ place' \in {"judge", "revert", "idle"}
    /\ UNCHANGED head

Judge ==
    /\ place = "judge"
    /\ place' \in {"judge", "commit", "revert", "idle"}
    /\ dirt' \in SUBSET Work
    /\ dirt' \ Written = dirt \ Written
    /\ UNCHANGED head

Revert ==
    /\ place = "revert"
    /\ place' \in {"turn", "claim"}
    /\ dirt' = {}
    /\ UNCHANGED head

Commit ==
    /\ place = "commit"
    /\ place' = "claim"
    /\ {p \in Work : head'[p] # head[p]} = dirt
    /\ dirt' = {}

(* The run ends between two turns, or anywhere with an error. *)
End ==
    /\ place' = "idle"
    /\ dirt' \subseteq dirt \cup Written
    /\ UNCHANGED head

(* The user edits between two turns, and commits when no run is there. *)
Between ==
    /\ \/ place = "idle"
       \/ place = "claim" /\ UNCHANGED head
    /\ dirt' \in SUBSET Work
    /\ UNCHANGED place

Next == Begin \/ Turn \/ Judge \/ Revert \/ Commit \/ End \/ Between

Spec == Init /\ [][Next]_<<place, head, dirt>>
=============================================================================
