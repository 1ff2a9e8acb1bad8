----------------------------- MODULE MCVerifier -----------------------------
(* Interchangeable source files and tests for Verifier. *)
EXTENDS Verifier, TLC

FileSymmetry == Permutations(Path \ StatePath) \cup Permutations(Test)
=============================================================================
