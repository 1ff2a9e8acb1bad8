----------------------------- MODULE MCDispatch -----------------------------
(* No constant of Dispatch needs a definition: its bounds are numbers. *)
EXTENDS Dispatch
=============================================================================
