----------------------------- MODULE MCResumable -----------------------------
(* Two clients and two targets: one target for the races on a sidecar, two  *)
(* for those on the budget.  Uploads of at most two reads.                  *)
EXTENDS Resumable, TLC

Symmetry == Permutations(Requests) \cup Permutations(Targets)
AllKinds == {"whole", "ranged", "query"}
=============================================================================
