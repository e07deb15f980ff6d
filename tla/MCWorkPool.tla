------------------------------ MODULE MCWorkPool ------------------------------
(* An instance of WorkPool for TLC.                                        *)
EXTENDS WorkPool, TLC

CONSTANTS j1, j2, j3

\* One coroutine and two plain submitters, whose weights exceed the byte
\* budget together but not alone.
MCJobs == {j1, j2, j3}
MCAsyncJobs == {j1}
MCWeight == j1 :> 1 @@ j2 :> 2 @@ j3 :> 1
=============================================================================
