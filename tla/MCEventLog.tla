----------------------------- MODULE MCEventLog -----------------------------
(* Two or three interchangeable writers for EventLog. *)
EXTENDS EventLog, TLC

WriterSymmetry == Permutations(Writer)
=============================================================================
