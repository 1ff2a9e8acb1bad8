----------------------------- MODULE MCWorkTree -----------------------------
(* One path of each kind: a source file, a new one, an ignored one, the        *)
(* ignore rules, the scratch directory, the event log and the run lock.    *)
EXTENDS WorkTree

CONSTANTS src, new, build, rules, scratch, log, lock

AllPaths == {src, new, build, rules, scratch, log, lock}

(* Rules that read 0 ignore the build; 1, the new file too; without them,  *)
(* nothing is.                                                             *)
RulesHide == [c \in {0, 1, None} |->
    CASE c = 0 -> {build} [] c = 1 -> {build, new} [] OTHER -> {}]

(* HEAD has the source, and the rules or else the log and the lock, which the *)
(* rules do not concern.                                                   *)
FirstHeads ==
    {[p \in AllPaths |-> IF p = src \/ p \in tracked THEN 0 ELSE None] :
        tracked \in {{rules}, {log, lock}}}
=============================================================================
