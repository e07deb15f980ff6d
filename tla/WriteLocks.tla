----------------------------- MODULE WriteLocks ------------------------------
(***************************************************************************)
(* What the writers of one target are promised: a request holds a set of   *)
(* targets, takes them one at a time, and no target has two holders.       *)
(* TargetLocks implements it; Resumable is written on top of it.           *)
(***************************************************************************)
EXTENDS Integers

CONSTANTS Requests, Targets

VARIABLE held      \* held[r]: the targets whose lock r has

HeldByNone == held = [r \in Requests |-> {}]

Free(t) == \A r \in Requests : t \notin held[r]

Take(r, t) ==
  /\ Free(t)
  /\ held' = [held EXCEPT ![r] = @ \cup {t}]

GiveBack(r, t) ==
  /\ t \in held[r]
  /\ held' = [held EXCEPT ![r] = @ \ {t}]

HoldNext == \E r \in Requests, t \in Targets : Take(r, t) \/ GiveBack(r, t)

HoldSpec == HeldByNone /\ [][HoldNext]_held

\* No two requests hold one target (_writecoord.py:17, 41-52).
MutualExclusion ==
  \A r, s \in Requests : \A t \in Targets :
     t \in held[r] /\ t \in held[s] => r = s

=============================================================================
