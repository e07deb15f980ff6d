----------------------------- MODULE AsgiResponse -----------------------------
(***************************************************************************)
(* The response of an ASGI exchange (asgi.py, _ResponseState): what each   *)
(* event of the application does to it and puts on the wire, and how a     *)
(* client reads that.  The record of a response is that of the class; the  *)
(* octets are counted, not named.                                          *)
(***************************************************************************)
EXTENDS Integers

NoLength == -1
Conflicting == -2    \* several fields that disagree, or no number
TrailerPhase == -3   \* _remaining = -1: only trailers may follow

\* What an application may send; each kind uses the fields it has.
Occurring == [kind : {"", "start", "body", "trailers"}, length : Nat \cup {NoLength, Conflicting},
              bodyless : BOOLEAN, close : BOOLEAN, trailers : BOOLEAN, size : Nat, more : BOOLEAN,
              invalid : BOOLEAN]
Event == [kind |-> "", length |-> NoLength, bodyless |-> FALSE, close |-> FALSE,
          trailers |-> FALSE, size |-> 0, more |-> FALSE, invalid |-> FALSE]
AnyStart(length) == [Event EXCEPT !.kind = "start", !.length = length]
AnyBody(size, more) == [Event EXCEPT !.kind = "body", !.size = size, !.more = more]
AnyTrailers(more) == [Event EXCEPT !.kind = "trailers", !.more = more]

NoResponse == [status |-> "none", headers |-> Event, started |-> FALSE, suppress |-> FALSE,
               chunked |-> FALSE, trailers |-> {}, remaining |-> NoLength, close |-> FALSE,
               complete |-> FALSE]
NewResponse(request) ==
  [NoResponse EXCEPT !.suppress = request.head,
                     !.close = ~request.keepAlive,
                     !.trailers = IF request.te THEN {"client"} ELSE {}]

Responses == [status : {"none", "set"}, headers : Occurring, started : BOOLEAN, suppress : BOOLEAN,
              chunked : BOOLEAN, trailers : SUBSET {"client", "app"}, remaining : Int,
              close : BOOLEAN, complete : BOOLEAN]

\* What an event puts on the wire: a head, octets, an end, or not all of them.
Item(part, framing, size) == [part |-> part, framing |-> framing, size |-> size]
Nothing == Item("nothing", "none", 0)
Silence == [head |-> Nothing, octets |-> Nothing, end |-> Nothing]

Outcome(r, wire, error) == [response |-> r, wire |-> wire, error |-> error]
Fault(r, wire) == Outcome(r, wire, "fault")

-----------------------------------------------------------------------------
(* The events                                                              *)

Start(r, e) ==
  IF r.status # "none" THEN Fault(r, Silence)
  ELSE Outcome([r EXCEPT !.status = "set", !.headers = e,
                         !.trailers = @ \cup IF e.trailers THEN {"app"} ELSE {}],
               Silence, "none")

WireTrailers(r) == r.trailers = {"client", "app"} /\ ~r.suppress

\* A response whose length is not announced is chunked if the connection is to
\* be used again; one to a request that is not read to its end closes it.
WriteHeaders(r, bodyComplete) ==
  LET e == r.headers
      close == r.close \/ ~bodyComplete \/ e.close
      quiet == [r EXCEPT !.suppress = @ \/ e.bodyless]
      chunked == \/ WireTrailers(quiet)
                 \/ e.length = NoLength /\ ~quiet.suppress /\ ~close
      framing == CASE quiet.suppress -> "none"
                   [] chunked /\ ~quiet.suppress -> "chunked"
                   [] ~chunked /\ ~quiet.suppress /\ e.length # NoLength -> "length"
                   [] OTHER -> "close"
  IN IF e.length = Conflicting THEN Fault(r, Silence)
     ELSE Outcome([quiet EXCEPT !.started = TRUE, !.headers = Event,   \* not read again
                                !.close = close, !.chunked = chunked,
                                !.remaining = IF quiet.suppress THEN NoLength ELSE e.length],
                  [Silence EXCEPT !.head = Item("head", framing, e.length)], "none")

\* Mutant: a body that is shorter than announced is let through.
BodyNotBeyond(r, e) == r.suppress \/ r.remaining = NoLength \/ e.size <= r.remaining

BodyFits(r, e) ==
  \/ r.suppress
  \/ r.remaining = NoLength
  \/ IF e.more THEN e.size <= r.remaining ELSE e.size = r.remaining

WithBody(wire, r, e) ==
  [wire EXCEPT
     !.octets = IF e.size > 0 /\ ~r.suppress THEN Item("octets", "none", e.size) ELSE Nothing,
     !.end = IF e.more \/ ~r.chunked THEN Nothing
             ELSE Item(IF WireTrailers(r) THEN "last chunk" ELSE "end", "none", 0)]

AfterBody(r, e) ==
  [r EXCEPT !.remaining = IF ~e.more /\ "app" \in r.trailers THEN TrailerPhase
                          ELSE IF r.suppress \/ @ = NoLength THEN @ ELSE @ - e.size,
            !.complete = ~e.more /\ "app" \notin r.trailers]

Body(r, e, bodyComplete) ==
  IF r.status = "none" THEN Fault(r, Silence)
  ELSE LET h == IF r.started THEN Outcome(r, Silence, "none") ELSE WriteHeaders(r, bodyComplete)
       IN IF h.error # "none" THEN h
          ELSE IF h.response.remaining = TrailerPhase \/ ~BodyFits(h.response, e)
          THEN Fault(h.response, h.wire)
          ELSE Outcome(AfterBody(h.response, e), WithBody(h.wire, h.response, e), "none")

TrailersSent(r, e) ==
  IF "app" \notin r.trailers \/ r.remaining # TrailerPhase \/ e.invalid THEN Fault(r, Silence)
  ELSE Outcome([r EXCEPT !.complete = ~e.more],
               [Silence EXCEPT !.end = IF WireTrailers(r) /\ ~e.more THEN Item("end", "none", 0)
                                       ELSE Nothing], "none")

Send(r, e, bodyComplete, closing) ==
  IF r.complete \/ closing THEN Outcome(r, Silence, "disconnect")
  ELSE CASE e.kind = "start" -> Start(r, e)
         [] e.kind = "body" -> Body(r, e, bodyComplete)
         [] e.kind = "trailers" -> TrailersSent(r, e)

-----------------------------------------------------------------------------
(* How a client reads it                                                   *)

Readers == [stage : {"head", "body", "trailers", "ended", "broken"},
            framing : {"none", "chunked", "length", "close"}, left : Int]
Unread == [stage |-> "head", framing |-> "none", left |-> 0]
Misread(w) == [w EXCEPT !.stage = "broken"]

ReadItem(w, item) ==
  CASE item.part = "head" ->
         IF w.stage # "head" THEN Misread(w)
         ELSE [stage |-> IF item.framing = "none" \/ (item.framing = "length" /\ item.size = 0)
                         THEN "ended" ELSE "body",
               framing |-> item.framing, left |-> item.size]
    [] item.part = "octets" ->
         IF w.stage # "body" \/ (w.framing = "length" /\ item.size > w.left) THEN Misread(w)
         ELSE IF w.framing # "length" THEN w
         ELSE [w EXCEPT !.left = @ - item.size,
                        !.stage = IF item.size = w.left THEN "ended" ELSE @]
    [] item.part = "last chunk" ->
         IF w.stage = "body" /\ w.framing = "chunked" THEN [w EXCEPT !.stage = "trailers"]
         ELSE Misread(w)
    [] item.part = "end" ->
         IF w.stage = "trailers" \/ (w.stage = "body" /\ w.framing = "chunked")
         THEN [w EXCEPT !.stage = "ended"] ELSE Misread(w)
    [] item.part = "nothing" -> w

Read(w, wire) == ReadItem(ReadItem(ReadItem(w, wire.head), wire.octets), wire.end)
=============================================================================
