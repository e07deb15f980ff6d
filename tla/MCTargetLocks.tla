---------------------------- MODULE MCTargetLocks ----------------------------
(* Three requests over three targets: enough for a ring of three locks, and *)
(* for an entry that is popped and recreated while a request waits on it.   *)
EXTENDS TargetLocks, TLC

MCTargets == 1..3
Symmetry == Permutations(Requests)
=============================================================================
