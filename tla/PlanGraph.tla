------------------------------ MODULE PlanGraph ------------------------------
(***************************************************************************)
(* state_engine.validate_graph with find_cycle, run on every load of a task *)
(* graph and on every generated plan: references, Kahn's algorithm one     *)
(* iteration at a time, then the two-phase invariants of the nodes.        *)
(*                                                                         *)
(* depends_on is a set: an id listed twice is counted twice and counted    *)
(* down twice.  graph.edges is only checked for known endpoints and takes  *)
(* no part in the sort or in readiness; it is left out, and so are the     *)
(* globs of invariant 7, which callers never pass tracked files for.       *)
(***************************************************************************)
EXTENDS Naturals, FiniteSets

CONSTANTS
    Node,            \* ids of the graph's nodes, in their order
    Unknown,         \* ids no node has
    NodeTypes,       \* the types nodes may have
    DepChoices,      \* the values depends_on may have
    InheritChoices   \* the values inherits_criteria_from may have

ASSUME NodeAssumption ==
    /\ Node \subseteq Nat /\ IsFiniteSet(Node)
    /\ Unknown \subseteq Nat /\ Node \cap Unknown = {}
    /\ NodeTypes \subseteq {"scaffold", "test_authoring", "implementation"}
    /\ DepChoices \subseteq SUBSET (Node \cup Unknown)
    /\ InheritChoices \subseteq SUBSET (Node \cup Unknown)

VARIABLES
    deps,      \* depends_on
    type, inherits,
    authors,   \* the nodes with acceptance_criteria of their own
    at,        \* where validate_graph is
    remaining, queue,
    done       \* the nodes popped so far; `ordered` is their number

planVars == <<deps, type, inherits, authors>>
sortVars == <<remaining, queue, done>>
vars == <<planVars, at, sortVars>>

Verdicts == {"accepted", "E_UNKNOWN_NODE_REF", "E_GRAPH_CYCLE"}

TypeOK ==
    /\ deps \in [Node -> DepChoices]
    /\ type \in [Node -> NodeTypes]
    /\ inherits \in [Node -> InheritChoices]
    /\ authors \in SUBSET Node
    /\ at \in {"references", "sort", "nodes"} \cup Verdicts
    /\ remaining \in [Node -> Nat]
    /\ queue \in SUBSET Node
    /\ done \in SUBSET Node

(* Any graph the schema lets through. *)
Init ==
    /\ deps \in [Node -> DepChoices]
    /\ type \in [Node -> NodeTypes]
    /\ inherits \in [Node -> InheritChoices]
    /\ authors \in SUBSET Node
    /\ at = "references"
    /\ remaining = [n \in Node |-> 0]
    /\ queue = {}
    /\ done = {}

-----------------------------------------------------------------------------

Refuse(error) == at' = error /\ UNCHANGED sortVars

(* Mutant: a task that waits for itself is not counted. *)
BrokenCountDeps == [n \in Node |-> Cardinality(deps[n] \ {n})]

(* Invariant 2 has been checked: every dependency is a node. *)
CountDeps == [n \in Node |-> Cardinality(deps[n])]

ResolveReferences ==
    /\ at = "references"
    /\ IF \E n \in Node : deps[n] \cap Unknown # {}
       THEN Refuse("E_UNKNOWN_NODE_REF")
       ELSE /\ at' = "sort"
            /\ remaining' = CountDeps
            /\ queue' = {n \in Node : CountDeps[n] = 0}
            /\ UNCHANGED done
    /\ UNCHANGED planVars

(* queue.pop(0) of a sorted list. *)
First(ids) == {n \in ids : \A m \in ids : n <= m}

(* Mutant: the nodes that have become free wait for the next round, which  *)
(* only comes if the queue is not empty by then.                           *)
ForgetfulPop ==
    /\ at = "sort" /\ queue # {}
    /\ \E current \in First(queue) :
       LET successors == {n \in Node : current \in deps[n]}
       IN  /\ remaining' = [n \in Node |-> IF n \in successors THEN remaining[n] - 1
                                                               ELSE remaining[n]]
           /\ queue' = IF queue = {current} THEN {} ELSE
                       (queue \ {current}) \cup {n \in successors : remaining[n] = 1}
           /\ done' = done \cup {current}
    /\ UNCHANGED <<planVars, at>>

(* Mutant: every node counts as a successor. *)
WildPop ==
    /\ at = "sort" /\ queue # {}
    /\ \E current \in First(queue) :
           /\ remaining' = [n \in Node |-> remaining[n] - 1]
           /\ queue' = (queue \ {current}) \cup {n \in Node : remaining[n] = 1}
           /\ done' = done \cup {current}
    /\ UNCHANGED <<planVars, at>>

(* One round of the while loop. *)
Pop ==
    /\ at = "sort" /\ queue # {}
    /\ \E current \in First(queue) :
       LET successors == {n \in Node : current \in deps[n]}
       IN  /\ remaining' = [n \in Node |-> IF n \in successors THEN remaining[n] - 1
                                                               ELSE remaining[n]]
           /\ queue' = (queue \ {current}) \cup {n \in successors : remaining[n] = 1}
           /\ done' = done \cup {current}
    /\ UNCHANGED <<planVars, at>>

(* ordered == len(ids), or whatever still waits is named in the error.     *)
SortEnds ==
    /\ at = "sort" /\ queue = {}
    /\ at' = IF done = Node THEN "nodes" ELSE "E_GRAPH_CYCLE"
    /\ UNCHANGED <<planVars, sortVars>>

Named == {n \in Node : remaining[n] > 0}

(* Invariants 4, 5, 6, and 8: scaffold nodes are exempt. *)
NodeStands(n) ==
    type[n] # "scaffold" =>
        /\ type[n] = "implementation" => inherits[n] # {}
        /\ \A source \in inherits[n] : source \in Node /\ type[source] = "test_authoring"
        /\ inherits[n] # {} => n \notin authors

CheckNodes ==
    /\ at = "nodes"
    /\ at' = IF \A n \in Node : NodeStands(n) THEN "accepted" ELSE "E_UNKNOWN_NODE_REF"
    /\ UNCHANGED <<planVars, sortVars>>

Next == ResolveReferences \/ Pop \/ SortEnds \/ CheckNodes

Spec == Init /\ [][Next]_vars

-----------------------------------------------------------------------------
(* Properties *)

(* Among any tasks there is one that waits for no other of them: what the  *)
(* loop relies on (TaskGraph's AcyclicAssumption).                         *)
Acyclic(nodes) ==
    \A S \in SUBSET nodes : S # {} => \E n \in S : deps[n] \cap S = {}

(* The running counts are those of the dependencies that are not popped yet. *)
CountsAreRight ==
    at = "sort" =>
        /\ \A n \in Node : remaining[n] = Cardinality(deps[n] \ done)
        /\ queue = {n \in Node \ done : remaining[n] = 0}

(* A graph that is accepted has no cycle; one that is refused for a cycle   *)
(* has one, and the error names a set of tasks each of which waits for       *)
(* another of them.                                                        *)
AcceptedIsAcyclic == at \in {"nodes", "accepted"} => Acyclic(Node)

RefusedIsCyclic ==
    at = "E_GRAPH_CYCLE" => Named # {} /\ \A n \in Named : deps[n] \cap Named # {}

SortIsExact == AcceptedIsAcyclic /\ RefusedIsCyclic

-----------------------------------------------------------------------------
(* What the repository says and the code does not keep.                    *)

(* An implementation waits, directly or not, for the tests it inherits from:  *)
(* two nodes with no dependency between them refute it.                    *)
WaitsFor(n, source) ==
    \A S \in SUBSET Node : n \in S /\ (\A m \in S : deps[m] \subseteq S) => source \in S

ImplementationFollowsTests ==
    at = "accepted" =>
        \A n \in Node : type[n] = "implementation" =>
            \A source \in inherits[n] : WaitsFor(n, source)
=============================================================================
