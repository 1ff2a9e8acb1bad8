-------------------------- MODULE PlanGraphProofs --------------------------
(***************************************************************************)
(* Kahn's algorithm of find_cycle accepts exactly the acyclic graphs, for  *)
(* every finite set of nodes, and what validate_graph lets through has its *)
(* criteria from test_authoring nodes.                                     *)
(***************************************************************************)
EXTENDS PlanGraph, FiniteSetTheorems, TLAPS

(* After the references were resolved no dependency is unknown. *)
Resolved == \A n \in Node : deps[n] \subseteq Node

(* What holds of the counters all along the sort and after it. *)
SortInv ==
    at \in {"sort", "nodes", "accepted", "E_GRAPH_CYCLE"} =>
        /\ Resolved
        /\ \A n \in Node : remaining[n] = Cardinality(deps[n] \ done)
        /\ queue = {n \in Node \ done : remaining[n] = 0}
        /\ \A n \in done : deps[n] \subseteq done
        /\ Acyclic(done)

FreshInv == at = "references" => done = {}

VerdictInv ==
    /\ at \in {"nodes", "accepted"} => done = Node
    /\ at = "E_GRAPH_CYCLE" => done # Node /\ queue = {}

GraphInv == SortInv /\ FreshInv /\ VerdictInv

-----------------------------------------------------------------------------

LEMMA FiniteDeps ==
    ASSUME NEW S, S \subseteq Node
    PROVE  IsFiniteSet(S) /\ Cardinality(S) \in Nat
<1>1. IsFiniteSet(S)
  BY NodeAssumption, FS_Subset
<1> QED
  BY <1>1, FS_CardinalityType

(* Popping a node whose dependencies are all out keeps the popped acyclic. *)
LEMMA PoppedStayAcyclic ==
    ASSUME Acyclic(done), \A n \in done : deps[n] \subseteq done,
           NEW current, current \notin done, deps[current] \subseteq done
    PROVE  Acyclic(done \cup {current})
<1> SUFFICES ASSUME NEW S \in SUBSET (done \cup {current}), S # {}
             PROVE  \E n \in S : deps[n] \cap S = {}
  BY DEF Acyclic
<1>1. CASE S \ {current} = {}
  BY <1>1
<1>2. CASE S \ {current} # {}
  <2>1. PICK n \in S \ {current} : deps[n] \cap (S \ {current}) = {}
    BY <1>2 DEF Acyclic
  <2>2. n \in done /\ current \notin deps[n]
    BY <2>1
  <2> QED
    BY <2>1, <2>2
<1> QED
  BY <1>1, <1>2

LEMMA PopFacts ==
    ASSUME TypeOK, GraphInv, NEW current \in First(queue), at = "sort",
           remaining' = [n \in Node |-> IF n \in {m \in Node : current \in deps[m]}
                                        THEN remaining[n] - 1 ELSE remaining[n]],
           queue' = (queue \ {current}) \cup
                        {n \in {m \in Node : current \in deps[m]} : remaining[n] = 1},
           done' = done \cup {current}, UNCHANGED <<planVars, at>>
    PROVE  SortInv' /\ remaining' \in [Node -> Nat]
<1>1. /\ Resolved /\ queue = {n \in Node \ done : remaining[n] = 0}
      /\ \A n \in Node : remaining[n] = Cardinality(deps[n] \ done)
      /\ \A n \in done : deps[n] \subseteq done
      /\ Acyclic(done)
  BY DEF GraphInv, SortInv
<1>2. current \in Node /\ current \notin done /\ remaining[current] = 0
  BY <1>1 DEF First
<1>3. \A n \in Node : deps[n] \subseteq Node /\ remaining[n] \in Nat
  BY <1>1 DEF Resolved, TypeOK
<1>4. deps[current] \subseteq done
  <2>1. Cardinality(deps[current] \ done) = 0
    BY <1>1, <1>2
  <2>2. deps[current] \ done = {}
    BY <2>1, <1>2, <1>3, FiniteDeps, FS_EmptySet
  <2> QED
    BY <2>2
<1>5. ASSUME NEW n \in Node
      PROVE  /\ remaining'[n] = Cardinality(deps[n] \ done')
             /\ remaining'[n] \in Nat
             /\ remaining'[n] = IF current \in deps[n] THEN remaining[n] - 1 ELSE remaining[n]
             /\ current \in deps[n] => remaining[n] # 0
  <2> DEFINE waiting == deps[n] \ done
  <2>1. IsFiniteSet(waiting) /\ Cardinality(waiting) \in Nat
    BY <1>3, FiniteDeps
  <2>2. deps[n] \ done' = waiting \ {current}
    OBVIOUS
  <2>3. Cardinality(waiting \ {current}) =
            IF current \in waiting THEN Cardinality(waiting) - 1 ELSE Cardinality(waiting)
    BY <2>1, FS_RemoveElement
  <2>4. current \in waiting <=> current \in deps[n]
    BY <1>2
  <2>5. remaining'[n] = IF current \in deps[n] THEN remaining[n] - 1 ELSE remaining[n]
    OBVIOUS
  <2>6. remaining[n] = Cardinality(waiting)
    BY <1>1
  <2>7. current \in waiting => Cardinality(waiting) # 0
    BY <2>1, FS_EmptySet
  <2> HIDE DEF waiting
  <2>8. remaining'[n] = Cardinality(waiting \ {current})
    BY <2>3, <2>4, <2>5, <2>6
  <2>9. remaining'[n] = Cardinality(deps[n] \ done')
    BY <2>2, <2>8
  <2>10. current \in deps[n] => remaining[n] # 0
    BY <2>4, <2>6, <2>7
  <2>11. remaining'[n] \in Nat
    BY <2>1, <2>5, <2>6, <2>10
  <2> QED
    BY <2>5, <2>9, <2>10, <2>11
<1>6. current \notin deps[current]
  BY <1>2, <1>4
<1>7. queue' = {n \in Node \ done' : remaining'[n] = 0}
  <2>1. ASSUME NEW n \in queue'
        PROVE  n \in Node \ done' /\ remaining'[n] = 0
    <3>1. CASE n \in queue \ {current}
      <4>1. n \in Node \ done' /\ remaining[n] = 0
        BY <3>1, <1>1
      <4> QED
        BY <4>1, <1>5
    <3>2. CASE n \in Node /\ current \in deps[n] /\ remaining[n] = 1
      <4>1. n \notin done
        BY <3>2, <1>1, <1>2
      <4>2. n # current
        BY <3>2, <1>6
      <4> QED
        BY <3>2, <4>1, <4>2, <1>5
    <3> QED
      BY <2>1, <3>1, <3>2
  <2>2. ASSUME NEW n \in Node \ done', remaining'[n] = 0
        PROVE  n \in queue'
    <3>1. n \notin done /\ n # current
      OBVIOUS
    <3>2. CASE current \in deps[n]
      <4>1. remaining[n] = 1
        BY <2>2, <3>2, <1>3, <1>5
      <4> QED
        BY <4>1, <3>2
    <3>3. CASE current \notin deps[n]
      <4>1. remaining[n] = 0
        BY <2>2, <3>3, <1>5
      <4> QED
        BY <4>1, <3>1, <1>1
    <3> QED
      BY <3>2, <3>3
  <2> QED
    BY <2>1, <2>2
<1>8. \A n \in done' : deps[n] \subseteq done'
  BY <1>1, <1>4
<1>9. Acyclic(done)'
  <2>1. Acyclic(done \cup {current})
    BY <1>1, <1>2, <1>4, PoppedStayAcyclic
  <2>2. deps' = deps
    BY DEF planVars
  <2> QED
    BY <2>1, <2>2 DEF Acyclic
<1>10. deps' = deps
  BY DEF planVars
<1>11. Resolved'
  BY <1>1, <1>10 DEF Resolved
<1> QED
  BY <1>5, <1>7, <1>8, <1>9, <1>10, <1>11 DEF SortInv

LEMMA GraphStep ==
    ASSUME TypeOK, GraphInv, [Next]_vars
    PROVE  GraphInv' /\ TypeOK'
<1>1. CASE ResolveReferences
  <2>1. at = "references" /\ done = {} /\ UNCHANGED planVars
    BY <1>1 DEF ResolveReferences, GraphInv, FreshInv
  <2>2. CASE \E n \in Node : deps[n] \cap Unknown # {}
    <3>1. at' = "E_UNKNOWN_NODE_REF" /\ UNCHANGED sortVars
      BY <1>1, <2>2 DEF ResolveReferences, Refuse
    <3>2. TypeOK'
      BY <2>1, <3>1 DEF TypeOK, planVars, sortVars, Verdicts
    <3> QED
      BY <3>1, <3>2 DEF GraphInv, SortInv, FreshInv, VerdictInv
  <2>3. CASE ~ \E n \in Node : deps[n] \cap Unknown # {}
    <3>1. /\ at' = "sort" /\ remaining' = CountDeps /\ done' = {}
          /\ queue' = {n \in Node : CountDeps[n] = 0}
          /\ deps' = deps
      BY <1>1, <2>1, <2>3 DEF ResolveReferences, planVars
    <3>2. \A n \in Node : deps[n] \subseteq Node
      <4>1. \A n \in Node : deps[n] \subseteq Node \cup Unknown
        BY NodeAssumption DEF TypeOK
      <4> QED
        BY <2>3, <4>1
    <3>3. \A n \in Node : CountDeps[n] = Cardinality(deps[n]) /\ CountDeps[n] \in Nat
      BY <3>2, FiniteDeps DEF CountDeps
    <3>4. CountDeps \in [Node -> Nat]
      BY <3>3 DEF CountDeps
    <3>5. TypeOK'
      BY <2>1, <3>1, <3>4 DEF TypeOK, planVars
    <3>6. \A n \in Node : deps[n] \ {} = deps[n]
      OBVIOUS
    <3>7. SortInv'
      BY <3>1, <3>2, <3>3, <3>6 DEF SortInv, Resolved, Acyclic
    <3> QED
      BY <3>1, <3>5, <3>7 DEF GraphInv, FreshInv, VerdictInv
  <2> QED
    BY <2>2, <2>3
<1>2. CASE Pop
  <2>1. PICK current \in First(queue) :
            /\ remaining' = [n \in Node |-> IF n \in {m \in Node : current \in deps[m]}
                                            THEN remaining[n] - 1 ELSE remaining[n]]
            /\ queue' = (queue \ {current}) \cup
                            {n \in {m \in Node : current \in deps[m]} : remaining[n] = 1}
            /\ done' = done \cup {current}
    BY <1>2 DEF Pop
  <2>2. at = "sort" /\ UNCHANGED <<planVars, at>>
    BY <1>2 DEF Pop
  <2>3. SortInv' /\ remaining' \in [Node -> Nat]
    BY <2>1, <2>2, PopFacts
  <2>4. current \in Node
    BY <2>1 DEF First, TypeOK
  <2>5. queue' \in SUBSET Node /\ done' \in SUBSET Node
    BY <2>1, <2>4 DEF TypeOK
  <2>6. TypeOK'
    BY <2>2, <2>3, <2>5 DEF TypeOK, planVars
  <2> QED
    BY <2>2, <2>3, <2>6 DEF GraphInv, FreshInv, VerdictInv
<1>3. CASE SortEnds
  <2>1. /\ at = "sort" /\ queue = {} /\ UNCHANGED <<planVars, sortVars>>
        /\ at' = IF done = Node THEN "nodes" ELSE "E_GRAPH_CYCLE"
    BY <1>3 DEF SortEnds
  <2>2. TypeOK'
    BY <2>1 DEF TypeOK, planVars, sortVars, Verdicts
  <2>3. SortInv'
    BY <2>1 DEF GraphInv, SortInv, Resolved, Acyclic, planVars, sortVars
  <2> QED
    BY <2>1, <2>2, <2>3 DEF GraphInv, FreshInv, VerdictInv, sortVars
<1>4. CASE CheckNodes
  <2>1. /\ at = "nodes" /\ UNCHANGED <<planVars, sortVars>>
        /\ at' = IF \A n \in Node : NodeStands(n) THEN "accepted" ELSE "E_UNKNOWN_NODE_REF"
    BY <1>4 DEF CheckNodes
  <2>2. TypeOK'
    BY <2>1 DEF TypeOK, planVars, sortVars, Verdicts
  <2>3. SortInv'
    BY <2>1 DEF GraphInv, SortInv, Resolved, Acyclic, planVars, sortVars
  <2> QED
    BY <2>1, <2>2, <2>3 DEF GraphInv, FreshInv, VerdictInv, sortVars
<1>5. CASE UNCHANGED vars
  BY <1>5 DEF vars, planVars, sortVars, TypeOK, GraphInv, SortInv, Resolved, Acyclic,
              FreshInv, VerdictInv
<1> QED
  BY <1>1, <1>2, <1>3, <1>4, <1>5 DEF Next

LEMMA GraphInvariant == Spec => [](TypeOK /\ GraphInv)
<1>1. Init => TypeOK /\ GraphInv
  BY DEF Init, TypeOK, GraphInv, SortInv, FreshInv, VerdictInv
<1> QED
  BY <1>1, GraphStep, PTL DEF Spec

(* Every variable of the check keeps its type: the counts never go below 0.   *)
THEOREM GraphCheckTypeCorrect == Spec => []TypeOK
BY GraphInvariant, PTL

(* The counts of find_cycle are the numbers of dependencies not yet popped.  *)
THEOREM SortCountsRight == Spec => []CountsAreRight
<1>1. GraphInv => CountsAreRight
  BY DEF GraphInv, SortInv, CountsAreRight
<1> QED
  BY <1>1, GraphInvariant, PTL

LEMMA NamedWaitForNamed ==
    ASSUME TypeOK, GraphInv, at = "E_GRAPH_CYCLE"
    PROVE  Named # {} /\ \A n \in Named : deps[n] \cap Named # {}
<1>1. /\ Resolved /\ queue = {n \in Node \ done : remaining[n] = 0}
      /\ \A n \in Node : remaining[n] = Cardinality(deps[n] \ done)
      /\ \A n \in done : deps[n] \subseteq done
      /\ done # Node /\ queue = {} /\ done \subseteq Node
  BY DEF GraphInv, SortInv, VerdictInv, TypeOK
<1>2. \A n \in Node : remaining[n] \in Nat
  BY DEF TypeOK
<1>3. \A n \in Node \ done : n \in Named
  BY <1>1, <1>2 DEF Named
<1>4. ASSUME NEW n \in Named
      PROVE  deps[n] \cap Named # {}
  <2>1. n \in Node /\ Cardinality(deps[n] \ done) # 0
    BY <1>1, <1>2 DEF Named
  <2>2. deps[n] \ done # {}
    BY <2>1, FS_EmptySet
  <2>3. PICK d \in deps[n] : d \notin done
    BY <2>2
  <2>4. d \in Node
    BY <1>1, <2>1 DEF Resolved
  <2> QED
    BY <1>3, <2>3, <2>4
<1> QED
  BY <1>1, <1>3, <1>4

(* find_cycle is exact, for graphs of any size: one that passes is acyclic,  *)
(* which is what the run loop assumes of the graphs it loads, and one that *)
(* is refused for a cycle has one, among the tasks the error names.        *)
THEOREM SortAlwaysExact == Spec => []SortIsExact
<1>1. GraphInv => AcceptedIsAcyclic
  BY DEF GraphInv, SortInv, VerdictInv, AcceptedIsAcyclic
<1>2. TypeOK /\ GraphInv => RefusedIsCyclic
  BY NamedWaitForNamed DEF RefusedIsCyclic
<1> QED
  BY <1>1, <1>2, GraphInvariant, PTL DEF SortIsExact
=============================================================================
