--------------------------------- MODULE Asgi ---------------------------------
(***************************************************************************)
(* servery's ASGI server (asgi.py): its connections, the exchanges on      *)
(* them, their applications, and the drain.  All of it runs on one event   *)
(* loop: what happens between two awaits is one step.                      *)
(*                                                                         *)
(* Of a connection, at:                                                    *)
(*   accepted   its task has not run; refusing, rejecting: it was closed   *)
(*              at once, for the drain or for want of a slot               *)
(*   head       the request head is awaited; call: the application runs;   *)
(*   flush      drain() after a response; reply: drain() after the         *)
(*              server's own; closing: wait_closed(); done                 *)
(* The application may call receive and send at any time, also from a      *)
(* second task that only waits for the disconnect, and may end in any way. *)
(* Deadlines are not counted: what waits may time out.                     *)
(*                                                                         *)
(* Of the server (serve_forever) and the lifespan protocol (_Lifespan):    *)
(*   server  new, starting, unwinding (startup() cancels the task), bound, *)
(*           serving, draining, forced, closing, ending (shutdown() is to  *)
(*           begin), asking, cancelling, stopped; failed: startup() raised *)
(*   life    task: none, running, cancelling (_cancel_task waits for it),  *)
(*           done; startup, shutdown: what the application answered, or    *)
(*           exited                                                        *)
(***************************************************************************)
EXTENDS AsgiResponse, WebSocket, FiniteSets, Functions

CONSTANTS Mode,         \* config.lifespan
          Clients,      \* bound: the connections that clients open
          Slots,        \* config.max_connections
          MaxRequests,  \* config.max_requests_per_connection
          MaxAsked,     \* bound: the requests that all clients make
          Requests,     \* bound: the requests that clients make
          Events        \* bound: what the application sends

ASSUME ModeAssumption == Mode \in {"auto", "on", "off"}
\* A request: parts are those that its body comes in.
Asks == [head : BOOLEAN, keepAlive : BOOLEAN, te : BOOLEAN, upgrade : BOOLEAN, chunked : BOOLEAN,
         parts : Nat]

ASSUME EventsAssumption ==
  /\ Requests \subseteq Asks
  /\ \A e \in Events : e \in Occurring /\ e.kind # ""
ASSUME AsgiAssumption == Slots \in Nat \ {0} /\ MaxRequests \in Nat \ {0} /\ Sockets = Clients

VARIABLES server, life, conn, registered, free
asgiVars == <<server, life, conn, registered, free, ws>>

-----------------------------------------------------------------------------
(* The server and the lifespan of its application                          *)

Servers == {"new", "starting", "unwinding", "bound", "serving", "draining", "forced", "closing",
            "ending", "asking", "cancelling", "stopped", "failed"}
Answers == {"none", "complete", "failed", "exited"}
Lives == [task : {"none", "running", "cancelling", "done"}, startup : Answers, shutdown : Answers]

LifeInit == /\ server = "new"
            /\ life = [task |-> "none", startup |-> "none", shutdown |-> "none"]

Supported == life.startup = "complete"
GoTo(s) == server' = s
CancelTask == life' = [life EXCEPT !.task = IF @ = "running" THEN "cancelling" ELSE @]

-----------------------------------------------------------------------------
(* The application                                                         *)

\* Nothing reads an answer until the server waits for it: what the application
\* does before is done then.  A second answer, or one to the shutdown of what
\* did not start, is refused.
Awaited == server \in {"starting", "unwinding", "ending", "asking", "cancelling"}

Answer ==
  /\ life.task \in {"running", "cancelling"} /\ Awaited
  /\ \E answer \in {"complete", "failed"} :
       \/ life.startup = "none" /\ life' = [life EXCEPT !.startup = answer]
       \/ /\ Supported /\ life.shutdown = "none" /\ server # "starting"
          /\ life' = [life EXCEPT !.shutdown = answer]
  /\ UNCHANGED server

\* It returns, raises, or is cancelled: whoever waits for an answer goes on.
Exit ==
  /\ life.task \in {"running", "cancelling"} /\ Awaited
  /\ life' = [life EXCEPT !.task = "done",
                          !.startup = IF @ = "none" THEN "exited" ELSE @,
                          !.shutdown = IF @ = "none" THEN "exited" ELSE @]
  /\ UNCHANGED server

-----------------------------------------------------------------------------
(* The server                                                              *)

Startup ==
  /\ server = "new"
  /\ IF Mode = "off" THEN GoTo("bound") /\ UNCHANGED life
     ELSE GoTo("starting") /\ life' = [life EXCEPT !.task = "running"]

\* The answer came, or the time to wait for it is over.  Without the protocol
\* the server goes on only in mode auto, when the application left it.
Started ==
  /\ server = "starting"
  /\ IF Supported \/ (Mode = "auto" /\ life.startup = "exited")
     THEN GoTo("bound") /\ UNCHANGED life
     ELSE GoTo("unwinding") /\ CancelTask

Unwound == server = "unwinding" /\ life.task = "done" /\ GoTo("failed") /\ UNCHANGED life

\* shutdown(): it asks an application that started and is still there.
AskShutdown ==
  /\ server = "ending"
  /\ IF Supported /\ life.task = "running" THEN GoTo("asking") /\ UNCHANGED life
     ELSE GoTo("cancelling") /\ CancelTask

\* Answered, or the time is over.
ShutdownOver == server = "asking" /\ GoTo("cancelling") /\ CancelTask

Stopped ==
  /\ server = "cancelling" /\ life.task \in {"none", "done"} /\ GoTo("stopped") /\ UNCHANGED life

-----------------------------------------------------------------------------
(* Connections                                                             *)

NoRequest == [head |-> FALSE, keepAlive |-> FALSE, te |-> FALSE, upgrade |-> FALSE,
              chunked |-> FALSE, parts |-> 0]
NoConn ==
  [at |-> "none", phase |-> "idle", transport |-> "none", forced |-> FALSE,
   peer |-> "open",      \* what the client did: open, eof or lost
   ahead |-> FALSE,      \* a request head is in the reader's buffer
   number |-> 0, request |-> NoRequest,
   response |-> NoResponse,
   client |-> Unread,    \* how the client reads the response
   left |-> 0, done |-> FALSE, final |-> FALSE,   \* _remaining, _done, _final_delivered
   hooked |-> FALSE,     \* the protocol's callbacks are replaced
   heard |-> FALSE,      \* _disconnected
   waiters |-> {},       \* requests whose receive waits for the disconnect
   woken |-> {},         \* those whose wait is over, but which have not run yet
   missed |-> FALSE]     \* the client had gone unnoticed when one began (history)

Live == {"rejecting", "head", "call", "flush", "reply", "closing"}
Connections ==
  [at : Live \cup {"none", "accepted", "refusing", "done"}, phase : {"idle", "http", "websocket"},
   transport : {"none", "open", "closing", "closed"}, forced : BOOLEAN,
   peer : {"open", "eof", "lost"}, ahead : BOOLEAN, number : 0..MaxRequests, request : Asks,
   response : Responses, client : Readers, left : Nat, done : BOOLEAN, final : BOOLEAN,
   hooked : BOOLEAN, heard : BOOLEAN, waiters : SUBSET (1..MaxRequests),
   woken : SUBSET (1..MaxRequests), missed : BOOLEAN]
Draining == server \in {"draining", "forced", "closing", "ending", "asking", "cancelling", "stopped"}

AsgiTypeOK ==
  /\ server \in Servers /\ life \in Lives /\ ws \in [Clients -> WebSockets]
  /\ conn \in [Clients -> Connections]
  /\ registered \subseteq Clients /\ free \in 0..Slots

AsgiInit ==
  /\ LifeInit
  /\ conn = [c \in Clients |-> NoConn] /\ ws = [c \in Clients |-> NoSocket]
  /\ registered = {} /\ free = Slots

-----------------------------------------------------------------------------
(* The disconnect state, the transport                                     *)

Wake(k) == [k EXCEPT !.woken = @ \cup k.waiters, !.waiters = {}]
Disconnect(k) == Wake([k EXCEPT !.heard = TRUE])
IfHooked(k) == IF k.hooked THEN Disconnect(k) ELSE k

\* Mutant: the end of a response does not wake who waits for it.
Unheard(k) == k

\* Who waits in receive() is woken by the end of the response as well, but its
\* subscription to the disconnect is left to it.
Completed(k) ==
  IF k.response.complete THEN [k EXCEPT !.woken = @ \cup (k.waiters \cap {k.number})] ELSE k

\* connection_lost(None), by abort() or when a closed transport is flushed.
AbortTransport(k) ==
  IF k.transport = "closed" THEN k
  ELSE IfHooked([k EXCEPT !.transport = "closed", !.peer = IF @ = "open" THEN "eof" ELSE @])
CloseWriter(k) == [k EXCEPT !.transport = IF @ = "open" THEN "closing" ELSE @]

\* _handle_one returns, and what it knew of the exchange is gone.
Forget(k) == [k EXCEPT !.request = NoRequest, !.response = NoResponse]
Leave(k) == CloseWriter([Forget(k) EXCEPT !.at = "closing"])

Set(c, k) == conn' = [conn EXCEPT ![c] = k]
Over(k) == [NoConn EXCEPT !.at = "done", !.transport = k.transport, !.number = k.number]
Slotless == <<registered, free>>
Elsewhere == <<server, life, registered, free, ws>>

\* What the client does while nothing looks at it is as if done later.
Watched(k) == k.at \in {"head", "call"} /\ ~k.forced

\* The requests made so far, on all connections.
Asked == FoldFunction(+, 0, [c \in Clients |-> conn[c].number + IF conn[c].ahead THEN 1 ELSE 0])

ClientSends(c) ==
  LET k == conn[c]
  IN /\ Watched(k) /\ k.transport = "open" /\ k.peer = "open"
     /\ ~k.ahead /\ Asked < MaxAsked
     /\ Set(c, [k EXCEPT !.ahead = TRUE]) /\ UNCHANGED Elsewhere

ClientEnds(c) ==
  LET k == conn[c]
  IN /\ Watched(k) /\ k.transport = "open" /\ k.peer = "open"
     /\ Set(c, IfHooked([k EXCEPT !.peer = "eof"])) /\ UNCHANGED Elsewhere

ClientResets(c) ==
  LET k == conn[c]
  IN /\ Watched(k) /\ k.transport \in {"open", "closing"}
     /\ Set(c, IfHooked([k EXCEPT !.peer = "lost", !.transport = "closed"]))
     /\ UNCHANGED Elsewhere

TransportCloses(c) ==
  conn[c].transport = "closing" /\ Set(c, AbortTransport(conn[c])) /\ UNCHANGED Elsewhere

-----------------------------------------------------------------------------
(* Admission (connected)                                                   *)

Open(c) ==
  /\ server = "serving" /\ conn[c].at = "none"
  /\ Set(c, [conn[c] EXCEPT !.at = "accepted", !.transport = "open"])
  /\ UNCHANGED Elsewhere

Refuse(c) ==
  /\ conn[c].at = "accepted" /\ Draining
  /\ Set(c, CloseWriter([conn[c] EXCEPT !.at = "refusing"]))
  /\ UNCHANGED Elsewhere

Reject(c) ==
  /\ conn[c].at = "accepted" /\ ~Draining /\ free = 0
  /\ Set(c, CloseWriter([conn[c] EXCEPT !.at = "rejecting"]))
  /\ registered' = registered \cup {c} /\ UNCHANGED <<server, life, free, ws>>

Admit(c) ==
  /\ conn[c].at = "accepted" /\ ~Draining /\ free > 0
  /\ free' = free - 1 /\ registered' = registered \cup {c}
  /\ Set(c, [conn[c] EXCEPT !.at = "head"]) /\ UNCHANGED <<server, life, ws>>

\* wait_closed() may raise, and unregister() is then left out.
TurnedAway(c) ==
  /\ conn[c].at \in {"refusing", "rejecting"}
  /\ conn[c].transport = "closed" \/ conn[c].forced
  /\ Set(c, Over(conn[c]))
  /\ registered' \in {registered \ {c}, registered}
  /\ UNCHANGED <<server, life, free, ws>>

-----------------------------------------------------------------------------
(* The request (handle_connection, _handle_one)                            *)

\* A deadline, the client's end, or the transport's.
HeadFails(c) ==
  /\ conn[c].at = "head"
  /\ \/ Set(c, Leave(conn[c]))
     \/ Set(c, Leave(AbortTransport(conn[c])))
  /\ UNCHANGED Elsewhere

\* _wants_keep_alive, and not the last request of the connection.
Called(k, q) ==
  LET r == [q EXCEPT !.keepAlive = @ /\ k.number < MaxRequests]
  IN [k EXCEPT !.at = "call", !.phase = IF q.upgrade THEN "websocket" ELSE "http",
               !.request = r, !.response = NewResponse(r),
               !.left = q.parts, !.done = ~q.chunked /\ q.parts = 0, !.final = FALSE]

\* Mutant: the drain is looked at only before the head is awaited.
UnseenDrain == FALSE

SeenDrain == Draining

\* A head that won against the drain is not served; others are refused (400,
\* 401, 411, 431), malformed, or go to the application.
HeadRead(c) ==
  LET k == [conn[c] EXCEPT !.ahead = FALSE, !.client = Unread, !.number = @ + 1, !.missed = FALSE]
  IN /\ conn[c].at = "head" /\ conn[c].ahead /\ conn[c].peer # "lost"
     /\ \/ SeenDrain /\ Set(c, Leave(k)) /\ UNCHANGED ws
        \/ /\ ~SeenDrain
           /\ \/ \E q \in Requests : Set(c, Called(k, q)) /\ ws' = [ws EXCEPT ![c] = NoSocket]
              \/ Set(c, [k EXCEPT !.at = "reply", !.phase = "http"]) /\ UNCHANGED ws
              \/ Set(c, Leave([k EXCEPT !.phase = "http"])) /\ UNCHANGED ws
     /\ UNCHANGED <<server, life, Slotless>>

-----------------------------------------------------------------------------
(* The application's calls                                                 *)

Calling(c) == conn[c].at = "call" /\ ~conn[c].forced /\ ~conn[c].request.upgrade

AppSend(c) ==
  LET k == conn[c]
  IN /\ Calling(c)
     /\ \E e \in Events :
          LET o == Send(k.response, e, k.done, k.transport # "open")
          IN Set(c, Completed([k EXCEPT !.response = o.response, !.client = Read(@, o.wire)]))
     /\ UNCHANGED Elsewhere

\* The body that is left: its last part ends it if the length was announced,
\* an empty chunk otherwise.
AppReceive(c) ==
  LET k == conn[c]
  IN /\ Calling(c) /\ ~k.final
     /\ \/ k.done /\ Set(c, [k EXCEPT !.final = TRUE])
        \/ /\ ~k.done /\ k.left > 0
           /\ LET last == k.left = 1 /\ ~k.request.chunked
              IN Set(c, [k EXCEPT !.left = @ - 1, !.done = last, !.final = last])
        \/ ~k.done /\ k.left = 0 /\ Set(c, [k EXCEPT !.done = TRUE, !.final = TRUE])
        \/ /\ ~k.done /\ k.peer # "open" /\ ~k.ahead
           /\ Set(c, Disconnect([k EXCEPT !.done = TRUE, !.final = TRUE]))
     /\ UNCHANGED Elsewhere

\* subscribe(): at_eof() is false of a transport that was lost by an error,
\* and of one whose buffer holds a further request.
Subscribed(k) ==
  IF k.heard THEN k
  ELSE IF k.peer = "eof" /\ ~k.ahead THEN [k EXCEPT !.heard = TRUE]
  ELSE [k EXCEPT !.waiters = @ \cup {k.number}, !.hooked = TRUE, !.missed = k.peer # "open"]

\* receive() when nothing is left to receive.
AppListen(c) ==
  LET k == conn[c]
  IN /\ Calling(c) /\ k.final /\ ~k.response.complete /\ k.number \notin k.waiters \cup k.woken
     /\ Set(c, Subscribed(k)) /\ UNCHANGED Elsewhere

\* unsubscribe(): the last one gives the callbacks back, unless they were used.
AppHears(c) ==
  \E i \in conn[c].woken :
    LET k == [conn[c] EXCEPT !.woken = @ \ {i}, !.waiters = @ \ {i}]
    IN /\ Set(c, [k EXCEPT !.hooked = @ /\ (k.waiters # {} \/ k.heard)])
       /\ UNCHANGED Elsewhere

Socket(c) ==
  /\ conn[c].at = "call" /\ conn[c].request.upgrade /\ ~conn[c].forced
  /\ WebSocketStep(c, Draining) /\ UNCHANGED <<server, life, conn, Slotless>>

-----------------------------------------------------------------------------
(* The end of a call                                                       *)

\* The server's own response, if the application has sent none.
Own(k) ==
  IF k.response.started \/ k.transport # "open" THEN k
  ELSE [k EXCEPT !.client = ReadItem(@, Item("head", "length", 0))]
Replying(k) == [Own(k) EXCEPT !.at = "reply"]

Reusable(k) == k.request.keepAlive /\ ~k.response.close /\ k.done
Continue(k) == IF Reusable(k) /\ ~Draining THEN [Forget(k) EXCEPT !.at = "head"] ELSE Leave(k)

AppReturns(c) ==
  /\ Calling(c)
  /\ Set(c, IF conn[c].response.complete THEN [conn[c] EXCEPT !.at = "flush"]
            ELSE Replying(conn[c]))
  /\ UNCHANGED Elsewhere

\* It raises what send or receive raised, or what it likes.  After a
\* disconnect the connection may be used again, and is in phase http then.
AppRaises(c) ==
  LET k == conn[c]
  IN /\ Calling(c)
     /\ \/ k.request.chunked /\ ~k.done /\ Set(c, IF k.response.started THEN Leave(k) ELSE Replying(k))
        \/ (k.response.complete \/ k.transport # "open") /\ Set(c, Continue(k))
        \/ Set(c, Leave(AbortTransport(k)))
        \/ k.peer # "open" /\ Set(c, Leave(k))
        \/ Set(c, Replying(k))
     /\ UNCHANGED Elsewhere

\* The application of a WebSocket returns or raises; its watcher is cancelled.
SocketEnds(c) ==
  /\ conn[c].at = "call" /\ conn[c].request.upgrade /\ ~conn[c].forced
  /\ \/ Set(c, Leave(conn[c]))
     \/ Set(c, Leave(AbortTransport(conn[c])))
  /\ ws' = [ws EXCEPT ![c] = NoSocket] /\ UNCHANGED <<server, life, Slotless>>

\* drain() returns, the connection is lost, or the deadline passes.
Flush(c) ==
  /\ conn[c].at = "flush"
  /\ \/ Set(c, Continue([conn[c] EXCEPT !.phase = "idle"]))
     \/ Set(c, Leave(conn[c])) /\ conn[c].transport # "open"
     \/ Set(c, Leave(AbortTransport(conn[c])))
  /\ UNCHANGED Elsewhere

Reply(c) ==
  /\ conn[c].at = "reply"
  /\ \/ Set(c, Leave(conn[c]))
     \/ Set(c, Leave(AbortTransport(conn[c])))
  /\ UNCHANGED Elsewhere

\* A task that finish() cancelled ends, at whatever it awaits; an application
\* may go on regardless.
Cancelled(c) ==
  /\ conn[c].forced /\ conn[c].at \in {"head", "call", "flush", "reply"}
  /\ Set(c, Leave(conn[c])) /\ UNCHANGED Elsewhere

Gone(c) ==
  /\ conn[c].at = "closing" /\ (conn[c].transport = "closed" \/ conn[c].forced)
  /\ Set(c, Over(conn[c]))
  /\ free' = free + 1 /\ registered' = registered \ {c}
  /\ UNCHANGED <<server, life, ws>>

-----------------------------------------------------------------------------
(* The server (serve_forever, _Drain)                                      *)

\* The socket cannot be listened on: the lifespan is shut down.
ListenFails == server = "bound" /\ GoTo("ending") /\ UNCHANGED life
Serve == server = "bound" /\ GoTo("serving") /\ UNCHANGED life

LifespanStep ==
  /\ Answer \/ Exit \/ Startup \/ Started \/ Unwound \/ AskShutdown \/ ShutdownOver \/ Stopped
     \/ ListenFails \/ Serve
  /\ UNCHANGED <<conn, registered, free, ws>>

Working == {c \in registered : conn[c].at \in Live}

\* begin(), and finish() up to its wait; also when the server was told to stop
\* before it was told to start.
BeginDrain ==
  /\ server \in {"bound", "serving"} /\ GoTo("draining")
  /\ conn' = [c \in Clients |-> IF c \in registered /\ conn[c].phase = "idle"
                                THEN CloseWriter(conn[c]) ELSE conn[c]]
  /\ UNCHANGED <<life, registered, free, ws>>

Drained ==
  server = "draining" /\ Working = {} /\ GoTo("closing") /\ UNCHANGED <<life, conn, Slotless, ws>>

\* Mutant: the transport of a cancelled task is left alone.
CancelledOnly(k) == [Over(k) EXCEPT !.at = k.at, !.phase = k.phase, !.peer = "lost", !.forced = TRUE]

\* The deadline: what is left is cancelled and its transport aborted.  Of an
\* exchange that goes on regardless only its end is followed: nothing that it
\* sends is sent.
Aborted(k) == [Over(k) EXCEPT !.at = k.at, !.phase = k.phase, !.peer = "lost",
                              !.transport = "closed", !.forced = TRUE]

Overdue ==
  /\ server = "draining" /\ Working # {} /\ GoTo("forced")
  /\ conn' = [c \in Clients |-> IF c \in Working THEN Aborted(conn[c]) ELSE conn[c]]
  /\ ws' = [c \in Clients |-> IF c \in Working THEN NoSocket ELSE ws[c]]
  /\ UNCHANGED <<life, registered, free>>

\* sleep(0); who is still there is only observed from now on.
Observe == server = "forced" /\ GoTo("closing") /\ UNCHANGED <<life, conn, Slotless, ws>>

\* wait_closed() of the server: of all transports.
ServerClosed ==
  /\ server = "closing" /\ \A c \in Clients : conn[c].transport \in {"none", "closed"}
  /\ GoTo("ending") /\ UNCHANGED <<life, conn, Slotless, ws>>

ServerStep == BeginDrain \/ Drained \/ Overdue \/ Observe \/ ServerClosed

ClientStep(c) == ClientSends(c) \/ ClientEnds(c) \/ ClientResets(c) \/ Open(c)
TaskStep(c) ==
  \/ Refuse(c) \/ Reject(c) \/ Admit(c) \/ TurnedAway(c)
  \/ HeadFails(c) \/ HeadRead(c) \/ Flush(c) \/ Reply(c) \/ Cancelled(c) \/ Gone(c)
AppStep(c) ==
  \/ AppSend(c) \/ AppReceive(c) \/ AppListen(c) \/ AppHears(c) \/ Socket(c)
  \/ AppReturns(c) \/ AppRaises(c) \/ SocketEnds(c)

AsgiNext ==
  \/ LifespanStep \/ ServerStep
  \/ \E c \in Clients : ClientStep(c) \/ TaskStep(c) \/ AppStep(c) \/ TransportCloses(c)

UnusedCloses(c) == conn[c].at = "refusing" /\ TransportCloses(c)

\* The loop runs every task that can go on, a deadline passes, and a transport
\* that was told to close before anything was written to it does.
Fairness ==
  /\ WF_asgiVars(Drained \/ Overdue) /\ WF_asgiVars(Observe) /\ WF_asgiVars(ServerClosed)
  /\ \A c \in Clients : WF_asgiVars(Refuse(c)) /\ WF_asgiVars(UnusedCloses(c))
AsgiSpec == AsgiInit /\ [][AsgiNext]_asgiVars
AsgiFairSpec == AsgiSpec /\ Fairness

-----------------------------------------------------------------------------
(* Properties                                                              *)

\* A slot is held by exactly the connections that were admitted and are not
\* over, and the drain knows all of them: none is left out of its deadline.
Accounted ==
  LET admitted == {c \in Clients : conn[c].at \in Live \ {"rejecting"}}
  IN free + Cardinality(admitted) = Slots /\ {c \in Clients : conn[c].at \in Live} \subseteq registered

\* When a further request is awaited, the client has read exactly one whole
\* response to the one before, as that announced itself, and that request was
\* read to its end; at no time does a client read what is not announced.
InStep ==
  \A c \in Clients :
    LET k == conn[c]
    IN /\ k.client.stage # "broken"
       /\ k.at = "head" /\ k.number > 0 /\ k.peer = "open"
            => k.client.stage = "ended" /\ k.left = 0

\* Who waits in receive() is told of the end of the response and of the client,
\* unless the client had gone by an error, or with a request unread, before.
ListenersTold ==
  \A c \in Clients :
    LET k == conn[c]
    IN k.number \in k.waiters \ k.woken => ~k.response.complete /\ (k.peer # "open" => k.missed)

\* After its CLOSE a WebSocket sends no data, and nothing before the upgrade.
CloseIsLast == \A c \in Clients : ws[c].wire # "broken"

\* What a client reads on its connection is what responses and frames announce,
\* through every order of calls of the application and every end of a call,
\* and its slot is given back (asgi.py:1144, :1379, _websocket.py:184).
WireInStep == AsgiTypeOK /\ Accounted /\ InStep /\ CloseIsLast

\* Once the drain has begun, no call to the application begins.
NoCallInDrain ==
  [][\A c \in Clients : Draining /\ conn'[c].at = "call" => conn[c].at = "call"]_asgiVars

\* The lifespan is shut down when no call goes on but those that the deadline
\* cancelled and that do not listen.
LifespanLast ==
  server \in {"ending", "asking", "cancelling", "stopped"}
    => \A c \in Clients : conn[c].at \in Live => conn[c].forced

\* The drain comes between the calls and the shutdown of the lifespan: none of
\* them begins behind it, and it is behind all of them (asgi.py:753, :297).
DrainOrdered == NoCallInDrain /\ []LifespanLast

\* The drain comes to the shutdown of the lifespan, whatever applications and
\* clients do.
DrainEnds == server = "draining" ~> server = "ending"
=============================================================================
