----------------------------- MODULE MCPlanning -----------------------------
(* Four answers of a planning agent for Planning: A and B share their      *)
(* requirements, C does not validate and D is of poor quality.             *)
EXTENDS Planning, TLC

CONSTANTS A, B, C, D, h1, h2

HashOfPlan == A :> h1 @@ B :> h1 @@ C :> h1 @@ D :> h2
HashOfTwo == A :> h1 @@ B :> h2
=============================================================================
