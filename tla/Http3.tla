--------------------------------- MODULE Http3 ---------------------------------
(***************************************************************************)
(* The HTTP/3 adapter (http3.py): the admission of connections, the        *)
(* bookkeeping of their requests, one task for each reply, which computes  *)
(* its answer in a thread and streams large files against the client's     *)
(* flow control, the loss of connections at any point, and the thread that *)
(* the listener runs in.  QUIC and the framing of HTTP/3 are aioquic's.    *)
(*                                                                         *)
(* A thread of a reply, and of the other transports, may compute a coded   *)
(* file through the cache that all of them share (FlightCache).            *)
(***************************************************************************)
EXTENDS FlightCache

CONSTANTS
  Conns, Streams,
  ConnOf,           \* the connection of a stream
  MaxConnections,
  MaxRequestBody,
  FileSize,         \* chunks of a file that is too large to be buffered
  QueueLimit        \* chunks that may wait in a stream's sender

ASSUME Http3Assumption ==
  /\ Streams \subseteq Callers /\ ConnOf \in [Streams -> Conns]
  /\ MaxConnections \in Nat \ {0} /\ MaxRequestBody \in Nat
  /\ FileSize \in Nat \ {0} /\ QueueLimit \in Nat \ {0}

VARIABLES
  listener,   \* the thread: "starting", "serving", "stopping", "failed", "ended"
  owner,      \* Http3ServerHandle: "waiting", "raised", "running", "closing", "closed", "stuck"
  stop,       \* the event that stops the listener
  conns,      \* "none", "admitted", "refused" or "lost"
  active,     \* active_connections
  arrived,    \* what the client has sent on a stream: "none", "open", "trailers", "ended"
  requests,   \* _requests, _request_sizes and _request_expected: a request, or NoRequest
  rejected,   \* _rejected_requests
  task,       \* the task of a reply: where it is, its body and what is left of it
  handle,     \* the file of a reply: "none", "open", "closed", "dropped"
  wire        \* what the stream's sender was given

listening == <<listener, owner, stop>>
tables == <<requests, rejected>>
replies == <<task, handle, wire>>
http3Vars == <<cacheVars, listening, conns, active, arrived, tables, replies>>

NoRequest == [open |-> FALSE, size |-> 0, expected |-> 0]
Unknown == -1   \* no content-length
NoTask == [at |-> "none", body |-> "none", left |-> 0]
NoWire == [heads |-> 0, data |-> 0, queued |-> 0, ended |-> FALSE,
           refused |-> FALSE, reset |-> FALSE, error |-> FALSE]

Http3Init ==
  /\ CacheInit
  /\ listener = "starting" /\ owner = "waiting" /\ stop = FALSE
  /\ conns = [c \in Conns |-> "none"] /\ active = 0
  /\ arrived = [s \in Streams |-> "none"]
  /\ requests = [s \in Streams |-> NoRequest] /\ rejected = {}
  /\ task = [s \in Streams |-> NoTask] /\ handle = [s \in Streams |-> "none"]
  /\ wire = [s \in Streams |-> NoWire]

Live(s) == conns[ConnOf[s]] = "admitted" /\ listener = "serving"
Goes(s, where) == task' = [task EXCEPT ![s].at = where]

-----------------------------------------------------------------------------
(* The listener's thread and its handle                                    *)

Unmoved == UNCHANGED <<cacheVars, conns, active, arrived, tables, replies>>

Listen ==
  /\ listener = "starting" /\ listener' = "serving"
  /\ UNCHANGED <<owner, stop>> /\ Unmoved
ListenFails ==
  /\ listener = "starting" /\ listener' = "failed"
  /\ UNCHANGED <<owner, stop>> /\ Unmoved

\* The thread that starts the server waits for this one, for a time.
Started ==
  /\ owner = "waiting" /\ listener \in {"serving", "failed"}
  /\ owner' = IF listener = "failed" THEN "raised" ELSE "running"
  /\ UNCHANGED <<listener, stop>> /\ Unmoved
GiveUp ==
  /\ owner = "waiting" /\ listener = "starting"
  /\ owner' = "raised" /\ stop' = TRUE
  /\ UNCHANGED listener /\ Unmoved

CloseHandle ==
  /\ owner = "running" /\ owner' = "closing" /\ stop' = TRUE
  /\ UNCHANGED listener /\ Unmoved
Joined ==
  /\ owner = "closing" /\ listener = "ended" /\ owner' = "closed"
  /\ UNCHANGED <<listener, stop>> /\ Unmoved
JoinTimesOut ==
  /\ owner = "closing" /\ listener # "ended" /\ owner' = "stuck"
  /\ UNCHANGED <<listener, stop>> /\ Unmoved

\* What a task does when it is cancelled: what was opened is closed in another
\* thread; what the building thread will open is nobody's.
Cancelled(s) ==
  CASE task[s].at = "building" -> [task[s] EXCEPT !.at = "abandoned"]
    [] task[s].at \in {"capacity", "reading"} -> [task[s] EXCEPT !.at = "closing"]
    [] task[s].at = "started" -> [task[s] EXCEPT !.at = "done"]
    [] OTHER -> task[s]

\* The listener sees stop, closes its socket, and asyncio cancels all tasks.
StopListening ==
  /\ listener = "serving" /\ stop /\ listener' = "stopping"
  /\ task' = [s \in Streams |-> Cancelled(s)]
  /\ UNCHANGED <<owner, stop, cacheVars, conns, active, arrived, tables, handle, wire>>

\* The loop ends when the tasks and the threads they have started have ended.
Settled(s) == task[s].at \in {"none", "done", "failed"} /\ call[s].at = "idle"
EndListening ==
  /\ listener = "stopping" /\ \A s \in Streams : Settled(s)
  /\ listener' = "ended"
  /\ UNCHANGED <<owner, stop>> /\ Unmoved

-----------------------------------------------------------------------------
(* Connections                                                             *)

Room == active < MaxConnections

Connect(c) ==
  /\ listener = "serving" /\ conns[c] = "none"
  /\ IF Room THEN conns' = [conns EXCEPT ![c] = "admitted"] /\ active' = active + 1
     ELSE conns' = [conns EXCEPT ![c] = "refused"] /\ UNCHANGED active
  /\ UNCHANGED <<cacheVars, listening, arrived, tables, replies>>

\* connection_lost: the client has gone, or was silent for too long.
ConnectionLost(c) ==
  /\ listener = "serving" /\ conns[c] \in {"admitted", "refused"}
  /\ conns' = [conns EXCEPT ![c] = "lost"]
  /\ active' = IF conns[c] = "admitted" THEN active - 1 ELSE active
  /\ task' = [s \in Streams |-> IF ConnOf[s] = c THEN Cancelled(s) ELSE task[s]]
  /\ requests' = [s \in Streams |-> IF ConnOf[s] = c THEN NoRequest ELSE requests[s]]
  /\ rejected' = {s \in rejected : ConnOf[s] # c}
  /\ UNCHANGED <<cacheVars, listening, arrived, handle, wire>>

-----------------------------------------------------------------------------
(* Requests                                                                *)

\* aioquic refuses a head behind the end of a stream.
RejectedOnWire(s) ==
  IF wire[s].ended THEN [wire EXCEPT ![s].error = TRUE]
  ELSE [wire EXCEPT ![s].heads = @ + 1, ![s].ended = TRUE, ![s].refused = TRUE]
Reject(s) ==
  /\ requests' = [requests EXCEPT ![s] = NoRequest]
  /\ rejected' = rejected \union {s}
  /\ wire' = RejectedOnWire(s)
  /\ UNCHANGED task

WrongLength(request) == request.expected # Unknown /\ request.expected # request.size

\* _schedule_reply, of a request as the event has left it.
Schedule(s, request) ==
  IF WrongLength(request) THEN Reject(s)
  ELSE /\ requests' = [requests EXCEPT ![s] = NoRequest]
       /\ task' = [task EXCEPT ![s].at = "started"]
       /\ UNCHANGED <<rejected, wire>>

Keep(s, request) ==
  requests' = [requests EXCEPT ![s] = request] /\ UNCHANGED <<rejected, task, wire>>

\* The fields of a request, or of trailers whose request is no longer there;
\* expected is the length they declare, framed whether they are well framed.
Headers(s, framed, expected, ended) ==
  LET request == [open |-> TRUE, size |-> 0, expected |-> expected]
  IN IF ~framed \/ (expected # Unknown /\ expected > MaxRequestBody) THEN Reject(s)
     ELSE IF ended THEN Schedule(s, request) ELSE Keep(s, request)

ReceiveHeaders(s, framed, expected, ended) ==
  /\ Live(s) /\ arrived[s] = "none"
  /\ arrived' = [arrived EXCEPT ![s] = IF ended THEN "ended" ELSE "open"]
  /\ Headers(s, framed, expected, ended)
  /\ UNCHANGED <<cacheVars, listening, conns, active, handle>>

\* Trailers of a request that is there end it; otherwise they are taken for one.
ReceiveTrailers(s, ended) ==
  /\ Live(s) /\ arrived[s] = "open"
  /\ arrived' = [arrived EXCEPT ![s] = IF ended THEN "ended" ELSE "trailers"]
  /\ IF requests[s].open
     THEN IF ended THEN Schedule(s, requests[s]) ELSE UNCHANGED <<tables, task, wire>>
     ELSE Headers(s, TRUE, Unknown, ended)
  /\ UNCHANGED <<cacheVars, listening, conns, active, handle>>

\* Octets, or none at the end of the stream; behind trailers only the end.
ReceiveData(s, n, ended) ==
  LET request == [requests[s] EXCEPT !.size = @ + n]
  IN /\ Live(s) /\ arrived[s] \in {"open", "trailers"}
     /\ arrived[s] = "trailers" => n = 0 /\ ended
     /\ arrived' = [arrived EXCEPT ![s] = IF ended THEN "ended" ELSE @]
     /\ IF s \in rejected
        THEN /\ rejected' = IF ended THEN rejected \ {s} ELSE rejected
             /\ UNCHANGED <<requests, task, wire>>
        ELSE IF request.size > MaxRequestBody THEN Reject(s)
        ELSE IF ended /\ request.open THEN Schedule(s, request)
        ELSE Keep(s, request)
     /\ UNCHANGED <<cacheVars, listening, conns, active, handle>>

-----------------------------------------------------------------------------
(* Replies                                                                 *)

ReplyOnly == UNCHANGED <<listening, conns, active, arrived, tables>>

\* Without authorization, or with no method that is known, nothing is built.
BeginReply(s) ==
  /\ task[s].at = "started"
  /\ \/ /\ Goes(s, "building") /\ \E k \in Keys : Call(s, k)
     \/ /\ task' = [task EXCEPT ![s] = [at |-> "answering", body |-> "bytes", left |-> 0]]
        /\ UNCHANGED cacheVars
     \/ /\ \E body \in {"file", "head"} :   \* a GET or a HEAD of a large file
             task' = [task EXCEPT ![s] = [at |-> "opening", body |-> body, left |-> FileSize]]
        /\ UNCHANGED cacheVars
  /\ UNCHANGED <<handle, wire>> /\ ReplyOnly

\* The thread has the coded file, or failed to compute it.
Built(s) ==
  /\ task[s].at \in {"building", "abandoned"} /\ call[s].at = "returned"
  /\ Idles(s) /\ UNCHANGED <<items, size, flights, flight>>
  /\ task' = [task EXCEPT ![s] =
       CASE @.at = "abandoned" -> [@ EXCEPT !.at = "done"]
         [] @.at = "building" /\ call[s].outcome = "value" -> [at |-> "answering", body |-> "bytes", left |-> 1]
         [] OTHER -> [@ EXCEPT !.at = "failed"]]
  /\ UNCHANGED <<handle, wire>> /\ ReplyOnly

\* The thread has opened a large file: the task may be gone by now.
Opened(s) ==
  /\ task[s].at = "opening"
  /\ handle' = [handle EXCEPT ![s] = IF Live(s) THEN "open" ELSE "dropped"]
  /\ Goes(s, IF Live(s) THEN "answering" ELSE "done")
  /\ UNCHANGED <<wire, cacheVars>> /\ ReplyOnly

\* The head, and the body if it is there; of a file, the chunks come later. An
\* error is the task's, which closes the file before it fails.
SendReply(s) ==
  LET body == task[s].body
  IN /\ task[s].at = "answering" /\ Live(s)
     /\ IF wire[s].ended
        THEN Goes(s, IF body = "bytes" THEN "failed" ELSE "raising") /\ wire' = [wire EXCEPT ![s].error = TRUE]
        ELSE /\ wire' = [wire EXCEPT ![s].heads = @ + 1,
                                     ![s].data = IF body = "bytes" THEN task[s].left ELSE 0,
                                     ![s].ended = body # "file"]
             /\ Goes(s, CASE body = "bytes" -> "done" [] body = "head" -> "closing" [] OTHER -> "capacity")
     /\ UNCHANGED <<handle, cacheVars>> /\ ReplyOnly

\* A task that was about to answer when its connection was lost is cancelled
\* before it holds what its thread has returned.
ReplyLost(s) ==
  /\ task[s].at = "answering" /\ ~Live(s)
  /\ handle' = [handle EXCEPT ![s] = IF @ = "open" THEN "dropped" ELSE @] /\ Goes(s, "done")
  /\ UNCHANGED <<wire, cacheVars>> /\ ReplyOnly

\* _wait_for_send_capacity: polled, with a deadline.
HasCapacity(s) ==
  /\ task[s].at = "capacity" /\ wire[s].queued < QueueLimit
  /\ Goes(s, "reading")
  /\ UNCHANGED <<handle, wire, cacheVars>> /\ ReplyOnly
CapacityTimesOut(s) ==
  /\ task[s].at = "capacity" /\ wire[s].queued >= QueueLimit
  /\ Goes(s, "closing") /\ wire' = [wire EXCEPT ![s].reset = TRUE]
  /\ UNCHANGED <<handle, cacheVars>> /\ ReplyOnly

\* Mutant: the stream ends with the file, however short it is by now.
ReadChunkToEnd(s) ==
  /\ task[s].at = "reading"
  /\ wire' = [wire EXCEPT ![s].ended = TRUE] /\ Goes(s, "closing")
  /\ UNCHANGED <<handle, cacheVars>> /\ ReplyOnly

\* The next chunk, or none if the file has shrunk: the stream is reset. One that
\* cannot be read fails the task, and the stream is left as it is.
ReadChunk(s) ==
  /\ task[s].at = "reading"
  /\ \/ /\ task' = [task EXCEPT ![s].left = @ - 1,
                               ![s].at = IF task[s].left = 1 THEN "closing" ELSE "capacity"]
        /\ wire' = [wire EXCEPT ![s].data = @ + 1, ![s].queued = @ + 1, ![s].ended = task[s].left = 1]
     \/ Goes(s, "closing") /\ wire' = [wire EXCEPT ![s].reset = TRUE]
     \/ Goes(s, "raising") /\ UNCHANGED wire
  /\ UNCHANGED <<handle, cacheVars>> /\ ReplyOnly

CloseFile(s) ==
  /\ task[s].at \in {"closing", "raising"}
  /\ handle' = [handle EXCEPT ![s] = "closed"]
  /\ Goes(s, IF task[s].at = "raising" THEN "failed" ELSE "done")
  /\ UNCHANGED <<wire, cacheVars>> /\ ReplyOnly

\* The client reads.
Acknowledge(s) ==
  /\ Live(s) /\ wire[s].queued > 0
  /\ wire' = [wire EXCEPT ![s].queued = @ - 1]
  /\ UNCHANGED <<task, handle, cacheVars>> /\ ReplyOnly

-----------------------------------------------------------------------------
(* The threads of the other transports, which share the cache              *)

Others == Callers \ Streams
\* Bound: they call while a reply of HTTP/3 may still come to call.
CallOther(c) ==
  /\ \E s \in Streams : Live(s) /\ task[s].at \in {"started", "building"}
  /\ \E k \in Keys : Call(c, k)
  /\ UNCHANGED <<listening, conns, active, arrived, tables, replies>>
OtherReturns(c) ==
  /\ At(c, "returned") /\ Idles(c) /\ UNCHANGED <<items, size, flights, flight>>
  /\ UNCHANGED <<listening, conns, active, arrived, tables, replies>>
Thread(c) == Runs(c) /\ UNCHANGED <<listening, conns, active, arrived, tables, replies>>

-----------------------------------------------------------------------------
(* The specification                                                       *)

Reply(s) ==
  \/ BeginReply(s) \/ Built(s) \/ Opened(s) \/ SendReply(s) \/ ReplyLost(s)
  \/ HasCapacity(s) \/ CapacityTimesOut(s) \/ ReadChunk(s) \/ CloseFile(s)
Handle == Started \/ GiveUp \/ Joined \/ JoinTimesOut
Receive(s) ==
  \/ \E framed, ended \in BOOLEAN, n \in {Unknown} \union 0..(MaxRequestBody + 1) :
       ReceiveHeaders(s, framed, n, ended)
  \/ \E ended \in BOOLEAN : ReceiveTrailers(s, ended)
  \/ \E n \in 0..1, ended \in BOOLEAN : (n = 1 \/ ended) /\ ReceiveData(s, n, ended)

Http3Next ==
  \/ Listen \/ ListenFails \/ StopListening \/ EndListening \/ CloseHandle \/ Handle
  \/ \E c \in Conns : Connect(c) \/ ConnectionLost(c)
  \/ \E s \in Streams : Receive(s) \/ Reply(s) \/ Acknowledge(s)
  \/ \E c \in Others : CallOther(c) \/ OtherReturns(c)
  \/ \E c \in Callers : Thread(c)

Http3Spec == Http3Init /\ [][Http3Next]_http3Vars

\* The loop, the threads and the factories they run; not the clients.
Http3FairSpec ==
  /\ Http3Spec
  /\ \A s \in Streams : WF_http3Vars(Reply(s))
  /\ \A c \in Callers : WF_http3Vars(Thread(c))
  /\ \A c \in Others : WF_http3Vars(OtherReturns(c))
  /\ WF_http3Vars(Listen \/ ListenFails) /\ WF_http3Vars(StopListening) /\ WF_http3Vars(EndListening)
  /\ WF_http3Vars(Handle)

-----------------------------------------------------------------------------
(* Properties                                                              *)

Http3TypeOK ==
  /\ listener \in {"starting", "serving", "stopping", "failed", "ended"}
  /\ owner \in {"waiting", "raised", "running", "closing", "closed", "stuck"} /\ stop \in BOOLEAN
  /\ conns \in [Conns -> {"none", "admitted", "refused", "lost"}]
  /\ arrived \in [Streams -> {"none", "open", "trailers", "ended"}]
  /\ \A s \in Streams : requests[s].size <= MaxRequestBody
  /\ rejected \subseteq Streams
  /\ handle \in [Streams -> {"none", "open", "closed", "dropped"}]

(* The places that are taken are the connections that were admitted and    *)
(* are not lost, never more than the limit; a reply that is over holds no  *)
(* file, and one is left to the collector only when its connection went    *)
(* away while it was opened (http3.py:124, :141, :282).                    *)
Admitted ==
  /\ Http3TypeOK
  /\ active = Cardinality({c \in Conns : conns[c] = "admitted"}) /\ active <= MaxConnections
  /\ \A s \in Streams : task[s].at \in {"done", "failed"} => handle[s] # "open"
  /\ \A s \in Streams : handle[s] = "dropped" => ~Live(s)

(* A stream gets one response: one head, the refusal or the reply, and a   *)
(* stream that ends has carried the whole file, though the file may shrink *)
(* or fail while it is read and trailers of a request that was refused are *)
(* taken for a request of their own; a HEAD carries nothing of it          *)
(* (http3.py:150, :194, :263, :282).                                       *)
OneResponse ==
  \A s \in Streams :
    /\ wire[s].heads <= 1 /\ ~(wire[s].ended /\ wire[s].reset)
    /\ wire[s].refused => wire[s].data = 0
    /\ (wire[s].ended /\ ~wire[s].refused /\ task[s].body = "file") => wire[s].data = FileSize
    /\ task[s].body = "head" => wire[s].data = 0

(* Places, files and streams are accounted for together: what one reply    *)
(* forgets, another cannot use (http3.py:124, :141, :194, :282).           *)
RepliesWhole == Admitted /\ OneResponse

(* A request whose stream has ended is answered, refused or reset, or its  *)
(* connection goes: whichever thread computes its answer, and whatever     *)
(* becomes of the one it waits for; and every call of the cache returns,   *)
(* also when its client has gone (http3.py:232, _compress.py:96).          *)
RepliesCome ==
  /\ \A s \in Streams :
       arrived[s] = "ended" ~> (wire[s].ended \/ wire[s].reset \/ task[s].at = "failed" \/ ~Live(s))
  /\ \A c \in Callers : At(c, "look") ~> call[c].at \in {"returned", "idle"}

(* A listener that its owner has given up, or closed, ends, whatever its   *)
(* connections and the threads of its replies do (http3.py:361, :327).     *)
ListenerEnds == (owner \in {"raised", "closing"}) ~> (listener \in {"ended", "failed"})

(* Nothing waits for ever: no request, no thread at the cache, no listener *)
(* that nobody wants any more (http3.py:232, :361, _compress.py:96).       *)
Http3Settles == RepliesCome /\ ListenerEnds
=============================================================================
