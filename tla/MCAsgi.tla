-------------------------------- MODULE MCAsgi --------------------------------
(* An instance of Asgi for TLC.                                              *)
EXTENDS Asgi, TLC

Post == [NoRequest EXCEPT !.keepAlive = TRUE, !.te = TRUE, !.chunked = TRUE, !.parts = 1]
MCRequests ==
  {Post, [NoRequest EXCEPT !.head = TRUE, !.keepAlive = TRUE], [NoRequest EXCEPT !.upgrade = TRUE]}
MCEvents ==
  {AnyStart(NoLength), AnyStart(1), AnyStart(Conflicting),
   [AnyStart(NoLength) EXCEPT !.close = TRUE], [AnyStart(NoLength) EXCEPT !.trailers = TRUE],
   AnyBody(0, FALSE), AnyBody(1, TRUE), AnyBody(1, FALSE), AnyTrailers(FALSE)}
=============================================================================
