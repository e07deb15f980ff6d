------------------------------- MODULE WebSocket -------------------------------
(***************************************************************************)
(* The WebSocket of a connection that was upgraded (_websocket.py, serve): *)
(* the application, one coroutine that receives and sends in turn, the     *)
(* task that reads a message for it, and the task that tells the client    *)
(* when the server drains.  A message is a frame; what it holds does not   *)
(* matter here.                                                            *)
(*                                                                         *)
(*   app      idle: between two calls; accepting, closing: its send waits  *)
(*            for the transport; reading: its receive waits for a message; *)
(*            echoing: the reading task answered a CLOSE and waits for     *)
(*            the transport                                                *)
(*   watcher  waiting for the drain, or for the upgrade; done              *)
(*   wire     what was sent: nothing, the refusal, the upgrade, a CLOSE;   *)
(*            broken: a frame before the upgrade or data after a CLOSE     *)
(***************************************************************************)
CONSTANT Sockets   \* the connections that may be upgraded

VARIABLE ws

NoSocket == [app |-> "idle", connected |-> FALSE, accepted |-> FALSE, closed |-> FALSE,
             restarted |-> FALSE, watcher |-> "waiting", wire |-> "none"]
WebSockets == [app : {"idle", "accepting", "closing", "reading", "echoing"},
               connected : BOOLEAN, accepted : BOOLEAN, closed : BOOLEAN, restarted : BOOLEAN,
               watcher : {"waiting", "upgrade", "done"},
               wire : {"none", "refused", "upgraded", "closed", "broken"}]

\* A frame may be sent on an open WebSocket; CLOSE again after a CLOSE.
WithData(s) == [s EXCEPT !.wire = IF @ = "upgraded" THEN @ ELSE "broken"]
WithClose(s) == [s EXCEPT !.wire = IF @ \in {"upgraded", "closed"} THEN "closed" ELSE "broken"]

\* restart(): once, and never before the upgrade.
Restarted(s) ==
  IF ~s.accepted \/ s.restarted THEN s
  ELSE WithClose([s EXCEPT !.restarted = TRUE, !.closed = TRUE])

Update(c, s) == ws' = [ws EXCEPT ![c] = s]

-----------------------------------------------------------------------------
(* receive()                                                               *)

\* The first call says connect; one on a closed socket says disconnect.
WsReceive(c, draining) ==
  LET s == ws[c]
  IN /\ s.app = "idle"
     /\ \/ ~s.connected /\ Update(c, [s EXCEPT !.connected = TRUE])
        \/ s.connected /\ ~s.closed /\ draining /\ Update(c, Restarted(s))
        \/ s.connected /\ ~s.closed /\ ~draining /\ Update(c, [s EXCEPT !.app = "reading"])

\* A message, a PING that is answered, or the end: an error of the client's
\* ends the socket without a CLOSE.
WsMessage(c) == ws[c].app = "reading" /\ Update(c, [ws[c] EXCEPT !.app = "idle"])
WsFails(c) ==
  ws[c].app \in {"reading", "echoing"} /\ Update(c, [ws[c] EXCEPT !.app = "idle", !.closed = TRUE])

\* The client's CLOSE, which it sends after the upgrade, is answered before the
\* socket counts as closed.
WsCloseSeen(c) ==
  /\ ws[c].app = "reading" /\ ws[c].accepted
  /\ Update(c, WithClose([ws[c] EXCEPT !.app = "echoing"]))
WsEchoed(c) ==
  ws[c].app = "echoing" /\ Update(c, [ws[c] EXCEPT !.app = "idle", !.closed = TRUE])

\* The drain ends the wait, whatever the reading task has read.
WsInterrupted(c, draining) ==
  /\ draining /\ ws[c].app \in {"reading", "echoing"}
  /\ Update(c, Restarted([ws[c] EXCEPT !.app = "idle"]))

-----------------------------------------------------------------------------
(* send(); applications accept at most once, and send on what they accepted *)

WsAccept(c) ==
  LET s == ws[c]
  IN /\ s.app = "idle" /\ s.connected /\ ~s.accepted /\ ~s.closed
     /\ Update(c, [s EXCEPT !.app = "accepting", !.wire = "upgraded"])

WsAccepted(c) ==
  ws[c].app = "accepting" /\ Update(c, [ws[c] EXCEPT !.app = "idle", !.accepted = TRUE])

WsSend(c) ==
  /\ ws[c].app = "idle" /\ ws[c].accepted /\ ~ws[c].closed
  /\ Update(c, WithData(ws[c]))

WsClose(c) ==
  LET s == [ws[c] EXCEPT !.app = "closing"]
  IN /\ ws[c].app = "idle" /\ ws[c].connected
     /\ Update(c, IF ~s.accepted THEN [s EXCEPT !.wire = "refused"]
                  ELSE IF ~s.closed THEN WithClose(s) ELSE s)

WsClosed(c) ==
  ws[c].app = "closing" /\ Update(c, [ws[c] EXCEPT !.app = "idle", !.closed = TRUE])

-----------------------------------------------------------------------------
(* watch_shutdown()                                                        *)

WsWatch(c, draining) ==
  LET s == ws[c]
  IN /\ draining /\ s.watcher # "done"
     /\ IF s.accepted THEN Update(c, [Restarted(s) EXCEPT !.watcher = "done"])
        ELSE s.watcher = "waiting" /\ Update(c, [s EXCEPT !.watcher = "upgrade"])

WebSocketStep(c, draining) ==
  \/ WsReceive(c, draining) \/ WsMessage(c) \/ WsFails(c) \/ WsCloseSeen(c) \/ WsEchoed(c)
  \/ WsInterrupted(c, draining) \/ WsAccept(c) \/ WsAccepted(c) \/ WsSend(c) \/ WsClose(c)
  \/ WsClosed(c) \/ WsWatch(c, draining)
=============================================================================
