------------------------------ MODULE Admission ------------------------------
(***************************************************************************)
(* What servery promises of every bounded, non-blocking admission point: a *)
(* fixed number of permits, a refusal only when every permit is held, and  *)
(* one return of each permit.  Nothing here says when a permit is given    *)
(* back; WorkPool.tla implements this with BoundedWorkPool's semaphore.    *)
(***************************************************************************)
EXTENDS Naturals, FiniteSets

CONSTANTS Jobs,      \* the calls that ask for admission
          Capacity   \* the number of permits

VARIABLES held,      \* calls that hold a permit
          refused,   \* calls turned away because no permit was free
          gone       \* calls that gave their permit back

Init == /\ held = {}
        /\ refused = {}
        /\ gone = {}

\* A permit is free and j has not had one before.
Admit(j) ==
    /\ j \notin held \cup refused \cup gone
    /\ Cardinality(held) < Capacity
    /\ held' = held \cup {j}
    /\ UNCHANGED <<refused, gone>>

\* Refusal is exact: it happens only when all permits are held.
Refuse(j) ==
    /\ j \notin held \cup refused \cup gone
    /\ Cardinality(held) = Capacity
    /\ refused' = refused \cup {j}
    /\ UNCHANGED <<held, gone>>

Return(j) ==
    /\ j \in held
    /\ held' = held \ {j}
    /\ gone' = gone \cup {j}
    /\ UNCHANGED refused

Next == \E j \in Jobs : Admit(j) \/ Refuse(j) \/ Return(j)

Spec == Init /\ [][Next]_<<held, refused, gone>>
=============================================================================
