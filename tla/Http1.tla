-------------------------------- MODULE Http1 --------------------------------
(***************************************************************************)
(* One HTTP/1 connection of the threaded server (handler.py): the three    *)
(* keep-alive loops, the head of a request, the body that its handler      *)
(* reads, leaves or drains, the response, and the drain of the server,     *)
(* which may begin between any two steps.  The handlers of files, of       *)
(* multipart and resumable uploads, of WebDAV, of the proxy, of WSGI and   *)
(* of CGI are told apart by how they dispose of the body and what they do  *)
(* when reading it, or answering, fails.                                   *)
(*                                                                         *)
(* The client frames its requests as it declares them, sends ahead of the  *)
(* responses, and may stop at any octet.                                   *)
(***************************************************************************)
EXTENDS RequestHead

CONSTANTS
  Requests,      \* the heads a client may send
  MaxSent,       \* bound: requests on a connection
  MaxAhead,      \* bound: units that the client sends ahead
  MaxRequests,   \* max_requests_per_connection, 0 for no limit
  MaxBody,       \* max_request_body and max_upload_size
  DrainLimit     \* keepalive_drain_limit

ASSUME Http1Assumption ==
  /\ MaxSent \in Nat \ {0} /\ MaxAhead \in Nat \ {0} /\ MaxRequests \in Nat /\ MaxBody \in Nat /\ DrainLimit \in Nat
  \* What int() makes of the digits of a Content-Length is a number.
  /\ \A r \in Requests : SameLength(FlattenSeq(r.fields.lengths)).value \in Int

\* _handle_http1 with or without a deadline for heads, or CGI's own loop.
Loops == {"servery", "cgi"}
Kinds(l) ==
  IF l = "cgi" THEN {"cgi"} ELSE {"file", "upload", "put", "dav", "proxy", "app"}

VARIABLES
  loop,       \* which keep-alive loop the handler class has
  stream,     \* what the client has sent and the server has not read
  owed,       \* octets of its last body that the client has still to send
  sent,       \* requests that the client has begun
  peer,       \* whether the client may still send
  pc,         \* where the handler's thread is
  kind,       \* the handler of the current request
  closing,    \* close_connection
  forced,     \* _body_forced_close
  original,   \* _body_original_close
  length,     \* _body_plan.length
  remaining,  \* what the reader of the body has still to read
  served,     \* _requests_served
  limited,    \* _request_limit_close
  draining,   \* the server's flag
  late,       \* requests read since it was set
  answers,    \* responses on this connection
  last        \* the last one, as the client may see it

client == <<stream, owed, sent, peer>>
policy == <<closing, forced, original, limited>>
plan == <<length, remaining>>
counts == <<served, late>>
out == <<answers, last>>
vars == <<loop, client, pc, kind, policy, plan, counts, draining, out>>

\* A response is whole, or cut short; or a length it declared was not kept, or
\* octets follow it that the client does not expect.
States == {"whole", "cut", "short", "extra", "second"}

Refused == "refused"
\* What the server makes of a head, how many octets follow it, and whether the
\* connection closes after it.
Judge(r) ==
  LET line == RequestLine(r.words)
      head == Finalize(line, r.fields, Unlimited, FALSE)
      body == ParseFraming(r.fields.lengths, r.fields.encodings, Unlimited, FALSE)
      refused == [verdict |-> Refused, follows |-> IF IsError(body) THEN 0 ELSE body.length,
                  close |-> TRUE]
  IN CASE "empty" \in DOMAIN line -> [verdict |-> "empty", follows |-> 0, close |-> TRUE]
       [] IsError(line) -> refused
       [] "fields" \in DOMAIN line /\ ~line.fields ->
            [verdict |-> "old", follows |-> 0, close |-> TRUE]
       [] OTHER -> IF IsError(head) THEN refused
                   ELSE [verdict |-> "accepted", follows |-> head.length, close |-> head.close]

\* A unit of the stream: a head, or an octet of a body, which would be refused
\* as a head.
Octet == [verdict |-> Refused, follows |-> -1, close |-> TRUE]
\* Only what is accepted, or refused, may have a body.
Judgements ==
  {j \in [verdict : {"empty", Refused, "old", "accepted"}, follows : Nat, close : BOOLEAN] :
     j.verdict \in {"empty", "old"} => j.follows = 0}

None == [announced |-> FALSE, state |-> "whole", final |-> FALSE]

Init ==
  /\ loop \in Loops
  /\ stream = <<>> /\ owed = 0 /\ sent = 0 /\ peer = "open"
  /\ pc = "begin" /\ kind = "none"
  /\ closing = TRUE /\ forced = FALSE /\ original = TRUE /\ limited = FALSE
  /\ length = 0 /\ remaining = 0 /\ served = 0 /\ late = 0
  /\ draining = FALSE /\ answers = 0 /\ last = None

-----------------------------------------------------------------------------
(* The client and the server around the connection                         *)

\* The client sends when somebody may look.
MaySend ==
  peer = "open" /\ pc \in {"wait", "read", "drain", "rejected"} /\ Len(stream) < MaxAhead

Send(r) ==
  /\ MaySend /\ sent < MaxSent /\ owed = 0
  /\ sent' = sent + 1
  /\ LET head == Judge(r) IN owed' = head.follows /\ stream' = Append(stream, head)
  /\ UNCHANGED <<loop, peer, pc, kind, policy, plan, counts, draining, out>>
SendOctet ==
  /\ MaySend /\ owed > 0
  /\ owed' = owed - 1 /\ stream' = Append(stream, Octet)
  /\ UNCHANGED <<loop, sent, peer, pc, kind, policy, plan, counts, draining, out>>
SendNoMore ==
  /\ peer = "open" /\ pc \in {"wait", "read", "drain", "rejected"} /\ peer' = "done"
  /\ UNCHANGED <<loop, stream, owed, sent, pc, kind, policy, plan, counts, draining, out>>

\* ServeryHTTPServer.begin_draining, for a connection of HTTP/1 a flag only.
BeginDraining ==
  /\ ~draining /\ pc # "closed" /\ draining' = TRUE
  /\ UNCHANGED <<loop, client, pc, kind, policy, plan, counts, out>>

-----------------------------------------------------------------------------
(* The loops                                                               *)

Goto(l) == pc' = l
Close == Goto("closed")

\* CGIHandler runs the loop of the standard library, which knows no drain.
Begin ==
  /\ pc = "begin"
  /\ IF draining /\ loop # "cgi" THEN Close ELSE Goto("wait")
  /\ UNCHANGED <<loop, client, kind, policy, plan, counts, draining, out>>

\* Waiting for the first octet of a request, buffered or not.
Wait ==
  /\ pc = "wait" /\ stream # <<>> /\ Goto("line")
  /\ UNCHANGED <<loop, client, kind, policy, plan, counts, draining, out>>

\* Mutant: nothing bounds the wait for a client that says nothing.
WaitEndsAtEof ==
  /\ pc = "wait" /\ stream = <<>> /\ peer = "done" /\ Close
  /\ closing' = TRUE
  /\ UNCHANGED <<loop, client, kind, forced, original, limited, plan, counts, draining, out>>

\* The end of the stream, or a timeout: of peek, or of the request line.
WaitEnds ==
  /\ pc = "wait" /\ stream = <<>> /\ Close
  /\ closing' = TRUE
  /\ UNCHANGED <<loop, client, kind, forced, original, limited, plan, counts, draining, out>>

\* Mutant: the loop does not look at the drain between two requests.
GoesOnWhenDraining == loop = "cgi" \/ draining \in BOOLEAN

GoesOn == loop = "cgi" \/ ~draining
After ==
  /\ pc = "after"
  /\ IF ~closing /\ GoesOn THEN Goto("wait") ELSE Close
  /\ kind' = "none" /\ length' = 0 /\ remaining' = 0   \* out of scope
  /\ forced' = FALSE /\ original' = TRUE
  /\ UNCHANGED <<loop, client, closing, limited, counts, draining, out>>

\* A head that does not come whole in time.
HeadTimeout ==
  /\ pc = "line" /\ closing' = TRUE /\ Goto("after")
  /\ UNCHANGED <<loop, client, kind, forced, original, limited, plan, counts, draining, out>>

-----------------------------------------------------------------------------
(* Responses                                                               *)

\* A head of end_headers announces the end at the limit and in a drain; an
\* error of send_error does always; build_head does if the connection closes.
Announced(error, built) == error \/ IF built THEN closing ELSE limited \/ draining

Answered(error, built, state) ==
  /\ answers' = answers + 1
  /\ last' = [announced |-> Announced(error, built), state |-> state,
              final |-> limited \/ (draining /\ ~built)]

\* One response of end_headers, whole or not; where is what follows it.
Answer(error, state, where) ==
  /\ Answered(error, FALSE, state)
  /\ closing' = (closing \/ error \/ draining)
  /\ Goto(where)
Refuse(where) == Answer(TRUE, "whole", where)

\* build_head: a body of known length, in chunks, or up to the end.
Framing(declared, isHead) ==
  IF declared THEN "length" ELSE IF ~closing /\ ~isHead THEN "chunked" ELSE "close"
\* What the chunks of a response without a body are to the client: its
\* terminator is the beginning of the next response.
Relayed(framing, bodiless) == IF framing = "chunked" /\ bodiless THEN "extra" ELSE "whole"

-----------------------------------------------------------------------------
(* The head                                                                *)

ReadEmpty ==     \* an empty line: no answer, and the end
  /\ Head(stream).verdict = "empty"
  /\ closing' = TRUE /\ forced' = FALSE /\ original' = TRUE /\ Goto("after")
  /\ UNCHANGED <<kind, limited, length, served, out>>

ReadRefused ==   \* a request line, or fields, that are refused
  /\ Head(stream).verdict = Refused
  /\ Refuse("after")
  /\ forced' = FALSE /\ original' = TRUE
  /\ UNCHANGED <<kind, limited, length, served>>

ReadOld ==       \* HTTP/0.9: no fields, no body, the connection closes
  /\ Head(stream).verdict = "old"
  /\ closing' = TRUE /\ forced' = FALSE /\ original' = TRUE /\ length' = 0
  /\ kind' \in Kinds(loop) /\ Goto("dispatch")
  /\ UNCHANGED <<limited, served, out>>

LimitReached(n) == MaxRequests > 0 /\ n >= MaxRequests

\* What is answered with 100 Continue goes out before the handler runs, and is
\* no response of its own.
ReadAccepted ==
  LET head == Head(stream)
  IN /\ head.verdict = "accepted"
     /\ served' = IF MaxRequests > 0 THEN served + 1 ELSE served
     /\ limited' = (limited \/ LimitReached(served'))
     /\ closing' = (head.close \/ LimitReached(served')) /\ original' = closing'
     /\ forced' = FALSE /\ length' = head.follows
     /\ kind' \in Kinds(loop) /\ Goto("dispatch")
     /\ UNCHANGED out

ReadHead ==
  /\ pc = "line"
  /\ stream' = Tail(stream)
  /\ late' = IF draining THEN late + 1 ELSE late
  /\ ReadEmpty \/ ReadRefused \/ ReadOld \/ ReadAccepted
  /\ UNCHANGED <<loop, owed, sent, peer, remaining, draining>>

-----------------------------------------------------------------------------
(* The disposition of the body                                             *)

\* Mutant: what is not consumed does not close the connection.
NotRequired == UNCHANGED <<closing, forced, original>>

\* _require_body_disposition: the connection closes unless the body is read.
Required ==
  IF length > 0 /\ ~forced
  THEN closing' = TRUE /\ forced' = TRUE /\ original' = closing
  ELSE UNCHANGED <<closing, forced, original>>

\* _body_consumed, read at the end of the body.
Consumed(was) ==
  IF forced THEN closing' = original /\ forced' = FALSE
  ELSE closing' = was /\ UNCHANGED forced

\* The method's first step; WSGI takes the whole body upon itself.
Require ==
  /\ pc = "dispatch"
  /\ IF kind = "app" THEN UNCHANGED <<closing, forced, original>> ELSE Required
  /\ remaining' = length
  /\ Goto("handle")
  /\ UNCHANGED <<loop, client, kind, limited, length, counts, draining, out>>

\* No method of that name, or a client that is not authorized: the same for
\* every handler, and without the body.
Unauthorized ==
  /\ pc = "handle" /\ Refuse("after")
  /\ UNCHANGED <<loop, client, kind, forced, original, limited, plan, counts, draining>>

-----------------------------------------------------------------------------
(* Files, and what else answers without the body                           *)

AnswersUnread == {"file", "dav"}

\* Mutant: an archive that fails leaves the connection open.
ServeFileKept ==
  /\ pc = "handle" /\ kind \in AnswersUnread
  /\ Answer(FALSE, "whole", "after") \/ Answer(FALSE, "cut", "after")
  /\ UNCHANGED <<loop, client, kind, forced, original, limited, plan, counts, draining>>

\* A page, a file, a range, 304 or 416; an archive, whose failure cuts it and
\* closes; a file that shrank since its length was declared.
ServeFile ==
  /\ pc = "handle" /\ kind \in AnswersUnread
  /\ \/ Answer(FALSE, "whole", "after")
     \/ kind = "file" /\ Answer(FALSE, "short", "after")
     \/ /\ kind = "file" /\ Answered(FALSE, FALSE, "cut")
        /\ closing' = TRUE /\ Goto("after")
  /\ UNCHANGED <<loop, client, kind, forced, original, limited, plan, counts, draining>>

\* A write to a client that is gone, or too slow, ends the connection.
WriteFails ==
  /\ pc \in {"handle", "answer"}
  /\ Answered(FALSE, FALSE, "cut")
  /\ closing' = TRUE /\ Close
  /\ UNCHANGED <<loop, client, kind, forced, original, limited, plan, counts, draining>>

-----------------------------------------------------------------------------
(* Reading the body                                                        *)

Readers == {"upload", "put", "dav", "proxy", "app", "cgi"}
Reading == pc = "read"

\* What a resumable PUT refuses is drained if it is small.
RejectedNext == IF length > DrainLimit THEN "after" ELSE "rejected"

\* A body over the limit is refused and closes; a resumable PUT may drain it.
TooLarge ==
  /\ pc = "handle" /\ kind \in Readers /\ TooLong(length, MaxBody)
  /\ IF kind = "put" THEN Refuse(RejectedNext) ELSE Refuse("after")
  /\ UNCHANGED <<loop, client, kind, forced, original, limited, plan, counts, draining>>

\* What a resumable PUT refuses before it reads: an error, which closes, or the
\* offset to go on from, which does not; a query, answered with the offset, is not
\* expected to have a body, and none is drained.
RejectPut ==
  /\ pc = "handle" /\ kind = "put"
  /\ Refuse(RejectedNext) \/ Answer(FALSE, "whole", RejectedNext) \/ Answer(FALSE, "whole", "after")
  /\ UNCHANGED <<loop, client, kind, forced, original, limited, plan, counts, draining>>

BeginReading ==
  /\ pc = "handle" /\ kind \in Readers /\ ~TooLong(length, MaxBody)
  /\ Goto("read")
  /\ UNCHANGED <<loop, client, kind, policy, plan, counts, draining, out>>

\* LimitedReader and BoundedReader: never beyond the declared length.
ReadOctet ==
  /\ pc \in {"read", "drain", "rejected"} /\ remaining > 0 /\ stream # <<>>
  /\ stream' = Tail(stream) /\ remaining' = remaining - 1
  /\ UNCHANGED <<loop, owed, sent, peer, pc, kind, policy, length, counts, draining, out>>

\* The body is read: all handlers but WSGI then restore the connection.
Consume ==
  /\ Reading /\ remaining = 0 /\ kind # "app"
  /\ Consumed(closing) /\ Goto("answer")
  /\ UNCHANGED <<loop, client, kind, original, limited, plan, counts, draining, out>>

\* A WSGI application answers when it likes.
AppAnswers ==
  /\ Reading /\ kind = "app" /\ Goto("answer")
  /\ UNCHANGED <<loop, client, kind, policy, plan, counts, draining, out>>

\* The client ends its stream before the body: what each handler makes of it.
BodyCut ==
  /\ Reading /\ remaining > 0 /\ stream = <<>> /\ peer = "done"
  /\ \/ kind = "upload" /\ (Refuse("after") \/ Answer(FALSE, "whole", "after"))
     \/ kind = "put" /\ Answer(FALSE, "whole", "after")
     \/ kind \in {"dav", "cgi"} /\ closing' = TRUE /\ Goto("after") /\ UNCHANGED out
     \/ kind \in {"proxy", "app"} /\ UNCHANGED <<closing, out>> /\ Goto("answer")
  /\ UNCHANGED <<loop, client, kind, forced, original, limited, plan, counts, draining>>

\* A read times out: under the total deadline it always ends the connection;
\* the socket's own timeout is an OSError that some handlers answer.
BodyTimeout ==
  /\ Reading /\ remaining > 0 /\ stream = <<>> /\ peer = "open"
  /\ \/ closing' = TRUE /\ Goto("after") /\ UNCHANGED out
     \/ kind \in {"put", "dav", "proxy", "app"} /\ Refuse("after")
  /\ UNCHANGED <<loop, client, kind, forced, original, limited, plan, counts, draining>>

\* Storing or forwarding fails part of the way, or the upload is malformed.
HandlerFails ==
  /\ Reading /\ Refuse("after")
  /\ UNCHANGED <<loop, client, kind, forced, original, limited, plan, counts, draining>>

-----------------------------------------------------------------------------
(* Answers after the body                                                  *)

\* What was stored, or could not be.
AnswerStored ==
  /\ pc = "answer" /\ kind \in {"upload", "put", "dav"}
  /\ Answer(FALSE, "whole", "after") \/ Refuse("after")
  /\ UNCHANGED <<loop, client, kind, forced, original, limited, plan, counts, draining>>

\* CGI: the whole output is there; or the script failed.
AnswerScript ==
  /\ pc = "answer" /\ kind = "cgi"
  /\ \/ Answered(FALSE, TRUE, "whole") /\ Goto("after") /\ UNCHANGED closing
     \/ Refuse("after")
  /\ UNCHANGED <<loop, client, kind, forced, original, limited, plan, counts, draining>>

\* WSGI drains what the application left of the body, if it is not too much.
LeftTooMuch(n) == n > DrainLimit

\* What follows a response that is built: the proxy closes if it did not send
\* the whole body on.
AfterBuilt(framing) ==
  LET left == kind = "app" /\ remaining > 0
  IN /\ closing' = \/ closing \/ framing = "close"
                   \/ kind = "proxy" /\ remaining > 0
                   \/ left /\ LeftTooMuch(remaining)
     /\ IF left /\ remaining <= DrainLimit THEN Goto("drain") ELSE Goto("after")

AnswerBuilt(declared, isHead, bodiless) ==
  LET framing == Framing(declared, isHead)
  IN /\ pc = "answer" /\ kind \in {"proxy", "app"}
     /\ answers' = answers + 1
     /\ last' = [announced |-> closing \/ framing = "close",
                 state |-> Relayed(framing, bodiless), final |-> limited]
     /\ AfterBuilt(framing)
     /\ UNCHANGED <<loop, client, kind, forced, original, limited, plan, counts, draining>>

\* The upstream ends before the length it declared.
RelayShort ==
  /\ pc = "answer" /\ kind = "proxy"
  /\ Answered(FALSE, TRUE, "short") /\ AfterBuilt("length")
  /\ UNCHANGED <<loop, client, kind, forced, original, limited, plan, counts, draining>>

\* It fails after the head: the proxy sends the head of an error behind what
\* went out, WSGI leaves the body without an end.
FailsAfterHead ==
  /\ pc = "answer" /\ kind \in {"proxy", "app"}
  /\ Answered(kind = "proxy", TRUE, IF kind = "proxy" THEN "second" ELSE "cut")
  /\ closing' = TRUE /\ Goto("after")
  /\ UNCHANGED <<loop, client, kind, forced, original, limited, plan, counts, draining>>
FailsBeforeHead ==
  /\ pc = "answer" /\ kind \in {"proxy", "app"} /\ Refuse("after")
  /\ UNCHANGED <<loop, client, kind, forced, original, limited, plan, counts, draining>>

-----------------------------------------------------------------------------
(* Draining what was left                                                  *)

\* The rest of the body does not come.
DrainCut ==
  /\ pc \in {"drain", "rejected"} /\ remaining > 0 /\ stream = <<>>
  /\ closing' = IF pc = "drain" THEN TRUE ELSE closing
  /\ Goto("after")
  /\ UNCHANGED <<loop, client, kind, forced, original, limited, plan, counts, draining, out>>
Drained ==
  /\ pc = "drain" /\ remaining = 0 /\ Goto("after")
  /\ UNCHANGED <<loop, client, kind, policy, plan, counts, draining, out>>

\* _drain_rejected_put_body: the original policy comes back, in spite of the
\* close that the response announced.
RejectedDrained ==
  /\ pc = "rejected" /\ remaining = 0
  /\ Consumed(closing) /\ Goto("after")
  /\ UNCHANGED <<loop, client, kind, original, limited, plan, counts, draining, out>>

-----------------------------------------------------------------------------
(* The specification                                                       *)

ServeRequest ==
  \/ ReadHead \/ HeadTimeout \/ Require \/ Unauthorized \/ ServeFile \/ WriteFails
  \/ TooLarge \/ RejectPut \/ BeginReading \/ ReadOctet \/ Consume \/ AppAnswers
  \/ BodyCut \/ BodyTimeout \/ HandlerFails \/ AnswerStored \/ AnswerScript
  \/ \E declared, isHead, bodiless \in BOOLEAN : AnswerBuilt(declared, isHead, bodiless)
  \/ RelayShort \/ FailsAfterHead \/ FailsBeforeHead
  \/ DrainCut \/ Drained \/ RejectedDrained
Serve == Begin \/ Wait \/ WaitEnds \/ After \/ ServeRequest
Next ==
  \/ Serve \/ (\E r \in Requests : Send(r)) \/ SendOctet \/ SendNoMore \/ BeginDraining

\* The thread runs, and the reads of a silent client time out.
Spec == Init /\ [][Next]_vars
FairSpec == Spec /\ WF_vars(Serve)

-----------------------------------------------------------------------------
(* Properties                                                              *)

TypeOK ==
  /\ loop \in Loops /\ peer \in {"open", "done"}
  /\ pc \in {"begin", "wait", "line", "dispatch", "handle", "read", "answer", "drain",
             "rejected", "after", "closed"}
  /\ kind \in Kinds(loop) \union {"none"}
  /\ closing \in BOOLEAN /\ forced \in BOOLEAN /\ original \in BOOLEAN /\ limited \in BOOLEAN /\ draining \in BOOLEAN
  /\ stream \in Seq(Judgements \union {Octet}) /\ owed \in Nat /\ sent \in 0..MaxSent
  /\ length \in Nat /\ remaining \in Nat /\ served \in Nat /\ late \in Nat
  /\ answers \in 0..MaxSent /\ last \in [announced : BOOLEAN, state : States, final : BOOLEAN]

\* Where the heads stand in a stream.
Heads(s) == {i \in DOMAIN s : s[i] # Octet}
\* Requests whose heads were read.
Begun == sent - Cardinality(Heads(stream))
\* Octets that come before the next head.
Ahead ==
  LET n == SelectInSeq(stream, LAMBDA u : u # Octet)
  IN IF n = 0 THEN Len(stream) + owed ELSE n - 1

\* Whatever a handler does with a body, the next head is read where it begins,
\* and no reader of a body reads into it: no octet of a body is taken for a
\* request (handler.py:882, _body.py:95, wsgi.py:185).
InStep ==
  /\ TypeOK
  /\ pc \in {"wait", "line"} => Ahead = 0
  /\ pc \in {"handle", "read", "answer", "drain", "rejected"} => remaining = Ahead

\* When the next request is read, every one before it has had one response, in
\* order, and none was cut or has another behind it: a response that failed
\* half-way ends the connection.  The lengths that a file or an upstream did
\* not keep, and the chunks of a response that has no body, are known.
OneAnswerEach ==
  /\ answers <= Begun
  /\ pc \in {"wait", "line"} =>
       answers = Begun /\ last.state \in {"whole", "short", "extra"}

\* The response at the request limit, and one whose head is sent in a drain,
\* announce the end, and nothing follows them: not even when the body that a
\* refused PUT left is drained for the sake of the connection.  No more
\* requests than the limit are served, and in a drain at most the one that the
\* connection was waiting for.
Bounded ==
  /\ MaxRequests > 0 => served <= MaxRequests
  /\ loop # "cgi" => late <= 1 /\ (last.final => last.announced)
LastIsLast ==
  [][Bounded' /\ (loop # "cgi" /\ last.final => answers' = answers)]_vars

\* No client holds its thread for ever by saying nothing, wherever it stops.
Ends == <>(pc = "closed")
=============================================================================
