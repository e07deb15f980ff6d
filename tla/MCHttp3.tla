-------------------------------- MODULE MCHttp3 --------------------------------
(* An instance of Http3 and of the cache it shares, for TLC.                 *)
EXTENDS Http3, TLC

CONSTANTS c1, c2, s1, thread

MCConnOf == s1 :> c1
MCSizeOf == "small" :> 1 @@ "large" :> 2
=============================================================================
