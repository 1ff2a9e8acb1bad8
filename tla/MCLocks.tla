------------------------------ MODULE MCLocks ------------------------------
(* Interchangeable processes and reapers for Locks. *)
EXTENDS Locks, TLC

LockSymmetry == Permutations(Process) \cup Permutations(Reaper)
=============================================================================
