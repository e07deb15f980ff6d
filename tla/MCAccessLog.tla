------------------------------ MODULE MCAccessLog ------------------------------
(* An instance of AccessLog for TLC.                                       *)
EXTENDS AccessLog, TLC

CONSTANTS p1, p2, p3, p4, p5

\* Five records: p1 and p2 fill the queue and leave room for the bytes of p3;
\* p4 is larger than the byte budget, p5 takes most of it.
MCCalls == {p1, p2, p3, p4, p5}
MCCharge == p1 :> 1 @@ p2 :> 1 @@ p3 :> 2 @@ p4 :> 5 @@ p5 :> 3
=============================================================================
