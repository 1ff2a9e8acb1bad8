---------------------------- MODULE MCPlanGraph ----------------------------
(* Three nodes and an id no node has, for PlanGraph: any dependencies among  *)
(* the nodes, and for references to no node and for what is inherited the  *)
(* least that makes every check of validate_graph pass and fail.           *)
EXTENDS PlanGraph

AnyOrLost == SUBSET Node \cup {Unknown}
NoneOrFirst == {{}, {1}}
=============================================================================
