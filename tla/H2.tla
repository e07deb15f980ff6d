----------------------------------- MODULE H2 ----------------------------------
(***************************************************************************)
(* One HTTP/2 connection (http2/connection.py): the thread that reads      *)
(* frames, answers requests and sends bodies as windows allow, and the     *)
(* thread that drains the server and announces it with a GOAWAY.           *)
(*                                                                         *)
(*   reader   preface, reading: blocked in read1; handling: frames of the  *)
(*            chunk that came; decoding: a header block is complete;       *)
(*            flushing: a pass over the bodies; ended                      *)
(*   drainer  off, goaway: the snapshot is taken; wake: it was sent; done  *)
(*            or failed                                                    *)
(*                                                                         *)
(* The client may send any frame at any time.  What it must know to follow *)
(* the protocol is kept beside the server's state: its header table, the   *)
(* windows it granted, what it has received on each stream.                *)
(*                                                                         *)
(* The handling of a frame is one step, except that a stream's admission   *)
(* and its removal, which share _drain_lock with the drain, are apart.     *)
(***************************************************************************)
EXTENDS Hpack, Frames, FiniteSets, Functions

CONSTANTS Streams,         \* bound: the stream ids a client uses, odd and even
          MaxStreams,      \* config.max_h2_streams
          InitialWindow,   \* 65535
          MaxWindow,       \* 2^31 - 1
          FrameLimit,      \* _OUR_MAX_FRAME
          Sizes,           \* bound: the sizes of response bodies
          MaxBlock, MaxContinuation, MaxControl, MaxRst,   \* the _MAX_ budgets
          PathFields,      \* the fields that name a path
          OtherFields      \* and those that do not

ASSUME H2Assumption ==
  /\ Streams \subseteq Nat \ {0} /\ IsFiniteSet(Streams)
  /\ {MaxStreams, MaxContinuation, MaxControl, MaxRst} \subseteq Nat
  /\ InitialWindow \in 0..MaxWindow /\ MaxWindow \in Nat /\ FrameLimit \in Nat \ {0}
  /\ MaxBlock \in Nat /\ Sizes \subseteq Nat

VARIABLES reader, running,
          active, lastClient, lastAccepted,
          assembling,     \* _continuation_stream, the one stream in blocks (0: None)
          block,          \* blocks[assembling]
          endStream,      \* _header_end_stream[assembling]
          continuations,  \* _continuation_frames
          pending,        \* _pending_headers: streams that wait for END_STREAM
          table,          \* the decoder's
          outbound, left, \* the streams with a body, in order, and what is left of it
          windows,        \* stream_windows
          peerWindow, connWindow,
          rstCount, controlCount,
          round, progress,            \* the pass of _flush_outbound
          drainer, draining, idle, told,   \* told: last stream of the graceful GOAWAY
          fault,          \* the connection ends for another reason than a drain
          woken,          \* the socket is shut down
          files,          \* streams whose body is an open file
          \* the client
          peerTable, asked,           \* its header table; the fields of the block
          skipped,                    \* a header block was refused unread (history)
          credit,                     \* what the client lets the server send
          wire                        \* what came on each stream

admission == <<active, lastClient, lastAccepted>>
assembly  == <<assembling, block, endStream, continuations>>
flow      == <<windows, peerWindow, connWindow, credit>>
bodies    == <<outbound, left, files>>
budgets   == <<rstCount, controlCount>>
flushing  == <<round, progress>>
drain     == <<drainer, draining, idle, told, woken>>
codec     == <<table, peerTable, asked, skipped>>
vars == <<reader, running, admission, assembly, pending, flow, bodies, budgets, flushing, drain,
          fault, codec, wire>>

NoStream == 0
NotTold == -1
Fields == PathFields \cup OtherFields
Readers == {"preface", "reading", "handling", "decoding", "flushing", "ended"}

TypeOK ==
  /\ reader \in Readers /\ running \in BOOLEAN /\ fault \in BOOLEAN /\ woken \in BOOLEAN
  /\ draining \in BOOLEAN /\ idle \in BOOLEAN /\ skipped \in BOOLEAN /\ progress \in BOOLEAN
  /\ active \subseteq Streams
  /\ lastClient \in Streams \cup {0} /\ lastAccepted \in Streams \cup {0}
  /\ assembling \in Streams \cup {NoStream} /\ endStream \in BOOLEAN
  /\ continuations \in 0..(MaxContinuation + 1) /\ Len(block) <= MaxBlock + 1
  /\ pending \subseteq Streams
  /\ ToSet(outbound) \subseteq Streams /\ left \in [Streams -> Nat] /\ files \subseteq Streams
  /\ DOMAIN windows \subseteq Streams /\ peerWindow \in 0..MaxWindow
  /\ \A s \in DOMAIN windows : windows[s] \in -MaxWindow..MaxWindow
  /\ connWindow \in 0..MaxWindow
  /\ rstCount \in 0..(MaxRst + 1) /\ controlCount \in 0..(MaxControl + 1)
  /\ drainer \in {"off", "goaway", "wake", "done", "failed"} /\ told \in Streams \cup {0, NotTold}
  /\ wire \in [Streams -> {"idle", "open", "done", "reset", "broken"}]

Init ==
  /\ reader = "preface" /\ running = TRUE
  /\ active = {} /\ lastClient = 0 /\ lastAccepted = 0
  /\ assembling = NoStream /\ block = <<>> /\ endStream = FALSE /\ continuations = 0
  /\ pending = {}
  /\ table = NewTable /\ peerTable = NewTable /\ asked = <<>> /\ skipped = FALSE
  /\ outbound = <<>> /\ left = [s \in Streams |-> 0] /\ files = {}
  /\ windows = <<>> /\ peerWindow = InitialWindow /\ connWindow = InitialWindow
  /\ credit = [s \in Streams |-> 0]
  /\ rstCount = 0 /\ controlCount = 0
  /\ round = <<>> /\ progress = FALSE
  /\ drainer = "off" /\ draining = FALSE /\ idle = FALSE /\ told = NotTold /\ woken = FALSE
  /\ fault = FALSE
  /\ wire = [s \in Streams |-> "idle"]

-----------------------------------------------------------------------------
(* What several handlers do                                                *)

StreamWindow(s) == IF s \in DOMAIN windows THEN windows[s] ELSE peerWindow

\* What a client sees of a stream: one header block, then data, then an end.
HeadersSeen(seen) == IF seen = "idle" THEN "open" ELSE "broken"
DataSeen(seen, last) == IF seen = "open" THEN (IF last THEN "done" ELSE "open") ELSE "broken"
ResetSeen(seen) == IF seen = "done" THEN seen ELSE "reset"

\* The reader gives up: a GOAWAY with an error code, and no further frame.
Goaway == running' = FALSE /\ fault' = TRUE

\* Mutant: the last stream of a drained connection does not end it.
DrainedNever(remaining) == FALSE

Drained(remaining) == draining /\ remaining = {}

\* The bodies in their order, without the one of s.
Without(q, s) ==
  IF s \in ToSet(q) THEN RemoveAt(q, CHOOSE i \in DOMAIN q : q[i] = s) ELSE q

\* What _drop_stream and _complete_stream leave of a stream.
Forget(s) ==
  /\ active' = active \ {s}
  /\ outbound' = Without(outbound, s)
  /\ left' = [left EXCEPT ![s] = 0]
  /\ files' = files \ {s}
  /\ windows' = Restrict(windows, DOMAIN windows \ {s})
  /\ credit' = [credit EXCEPT ![s] = 0]
  /\ pending' = pending \ {s}

Complete(s) == Forget(s) /\ running' = (running /\ ~Drained(active'))

\* Frames that are handled leave the rest of the connection alone.
Untouched == UNCHANGED <<flushing, drain>>

Handling == reader = "handling" /\ running

\* A header block must not be interrupted.
Interrupted == assembling /= NoStream

\* _control_allowed
Allowed == controlCount < MaxControl
Budgeted == controlCount' = controlCount + 1

-----------------------------------------------------------------------------
(* The reader's loop                                                       *)

\* The preface is right, SETTINGS are sent, the drain hook is registered.
Preface ==
  /\ reader = "preface"
  /\ reader' = "reading"
  /\ UNCHANGED <<running, admission, assembly, pending, flow, bodies, budgets, flushing, drain,
                 fault, codec, wire>>

Read ==
  /\ reader = "reading"
  /\ reader' = "handling"
  /\ UNCHANGED <<running, admission, assembly, pending, flow, bodies, budgets, flushing, drain,
                 fault, codec, wire>>

\* End of file, a malformed frame, a failed send or read: bodies are closed.
\* (A client that waits with its socket shut down sees the end of file.)
End ==
  /\ reader' = "ended"
  /\ files' = {}
  /\ UNCHANGED <<admission, assembly, pending, flow, outbound, left, budgets, flushing, drain,
                 codec, wire>>

EndOfFile ==
  /\ reader \in {"preface", "reading"}
  /\ fault' = (fault \/ ~woken)
  /\ running' = running
  /\ End

Fail ==
  /\ reader \in {"reading", "handling", "decoding", "flushing"}
  /\ Goaway
  /\ End

\* No frame is left in the chunk, or none is wanted.
EndOfChunk ==
  /\ reader = "handling"
  /\ reader' = "flushing"
  /\ round' = outbound /\ progress' = FALSE
  /\ UNCHANGED <<running, admission, assembly, pending, flow, bodies, budgets, drain, fault,
                 codec, wire>>

\* Any other frame in the middle of a header block is an error.
Unexpected ==
  /\ Handling /\ Interrupted
  /\ Goaway
  /\ reader' = "handling"
  /\ UNCHANGED <<admission, assembly, pending, flow, bodies, budgets, codec, wire>> /\ Untouched

\* The client's own GOAWAY ends the connection.
ClientGoaway ==
  /\ Handling /\ ~Interrupted
  /\ Goaway
  /\ reader' = "handling"
  /\ UNCHANGED <<admission, assembly, pending, flow, bodies, budgets, codec, wire>> /\ Untouched

-----------------------------------------------------------------------------
(* SETTINGS, PING, WINDOW_UPDATE, RST_STREAM                               *)

\* Mutant: what was sent already is forgotten.
ShiftedAnew(w, delta) == [s \in DOMAIN w |-> peerWindow + delta]

Shifted(w, delta) == [s \in DOMAIN w |-> w[s] + delta]

\* A SETTINGS frame with a new initial window (-1: with others), or a PING.
\* On overflow the windows may be left half done; the connection is over.
Settings(value) ==
  /\ Handling /\ ~Interrupted
  /\ Budgeted
  /\ LET delta == value - peerWindow
         fits == \A s \in DOMAIN windows : windows[s] + delta <= MaxWindow
     IN IF ~Allowed \/ (value >= 0 /\ (value > MaxWindow \/ ~fits))
          THEN Goaway /\ UNCHANGED flow
          ELSE /\ UNCHANGED <<running, fault, connWindow>>
               /\ IF value < 0 THEN UNCHANGED <<windows, peerWindow, credit>>
                  ELSE /\ windows' = Shifted(windows, delta)
                       /\ peerWindow' = value
                       /\ credit' = [s \in Streams |->
                                       IF s \in active THEN credit[s] + delta ELSE credit[s]]
  /\ reader' = reader
  /\ UNCHANGED <<admission, assembly, pending, bodies, rstCount, codec, wire>> /\ Untouched

\* A frame that grants more than a window can hold is an error; one for a
\* closed stream is not, one for a stream that was never opened is.
WindowUpdate(s, increment) ==
  /\ Handling /\ ~Interrupted
  /\ IF s = 0
       THEN IF connWindow + increment > MaxWindow THEN Goaway /\ UNCHANGED flow
            ELSE /\ connWindow' = connWindow + increment
                 /\ UNCHANGED <<running, fault, windows, peerWindow, credit>>
     ELSE IF s \notin active
       THEN /\ IF s > lastClient THEN Goaway ELSE UNCHANGED <<running, fault>>
            /\ UNCHANGED flow
     ELSE IF StreamWindow(s) + increment > MaxWindow THEN Goaway /\ UNCHANGED flow
       ELSE /\ windows' = [o \in DOMAIN windows \cup {s} |->
                             IF o = s THEN StreamWindow(s) + increment ELSE windows[o]]
            /\ credit' = [credit EXCEPT ![s] = @ + increment]
            /\ UNCHANGED <<running, fault, peerWindow, connWindow>>
  /\ reader' = reader
  /\ UNCHANGED <<admission, assembly, pending, bodies, budgets, codec, wire>> /\ Untouched

\* The stream is dropped before the budget of resets is looked at.
RstStream(s) ==
  /\ Handling /\ ~Interrupted
  /\ reader' = reader
  /\ IF s > lastClient
       THEN Goaway /\ UNCHANGED <<admission, pending, flow, bodies, budgets, wire>>
     ELSE /\ rstCount' = rstCount + 1
          /\ wire' = [wire EXCEPT ![s] = ResetSeen(@)]
          /\ IF rstCount' > MaxRst THEN Forget(s) /\ Goaway ELSE Complete(s) /\ fault' = fault
          /\ UNCHANGED <<lastClient, lastAccepted, peerWindow, connWindow, controlCount>>
  /\ UNCHANGED <<assembly, codec>> /\ Untouched

-----------------------------------------------------------------------------
(* HEADERS, CONTINUATION, DATA                                             *)

\* How a client may encode a field, and what that does to its own table: as
\* an index if the table has it, or as a literal, to be kept or not.
Encodings(field) ==
  {Indexed(Len(StaticTable) + i) : i \in {j \in DOMAIN peerTable.entries : peerTable.entries[j] = field}}
    \cup {Literal(0, field, TRUE), Literal(0, field, FALSE)}

Remembered(r, field) ==
  IF r.rep = "literal" /\ r.incremental THEN Add(peerTable, field) ELSE peerTable

\* What a frame brings to the block: a field, no field, or nonsense.
Fragment(fragment, fields, remembered) ==
  \/ fragment = <<>> /\ fields = <<>> /\ remembered = peerTable
  \/ \E f \in Fields : \E r \in Encodings(f) :
       fragment = <<r>> /\ fields = <<f>> /\ remembered = Remembered(r, f)
  \/ fragment = <<Indexed(0)>> /\ fields = <<>> /\ remembered = peerTable

Fragments == {<<>>, <<Indexed(0)>>} \cup UNION {{<<r>> : r \in Encodings(f)} : f \in Fields}
FieldLists == {<<>>} \cup {<<f>> : f \in Fields}
Memories == {peerTable} \cup {Add(peerTable, f) : f \in Fields}

\* The block grows; the last frame of it goes on to be decoded.
Extend(s, b, endHeaders) ==
  IF Len(b) > MaxBlock
    THEN Goaway /\ reader' = reader /\ assembling' = s /\ block' = b
  ELSE /\ UNCHANGED <<running, fault>>
       /\ reader' = IF endHeaders THEN "decoding" ELSE reader
       /\ assembling' = s /\ block' = b

\* Mutant: the drain is looked at before the lock is taken.
RefusedIfFull == Cardinality(active) >= MaxStreams

\* Mutant: one stream too many.
RefusedLate == draining \/ Cardinality(active) > MaxStreams

\* A stream is refused in a drain and when there are too many.
Refused == draining \/ Cardinality(active) >= MaxStreams

Headers(s, end, endHeaders) ==
  /\ Handling /\ ~Interrupted
  /\ \E fragment \in Fragments, fields \in FieldLists, remembered \in Memories :
       /\ Fragment(fragment, fields, remembered)
       /\ peerTable' = remembered
       /\ IF s % 2 = 0 \/ s <= lastClient
            THEN /\ Goaway
                 /\ UNCHANGED <<reader, admission, assembly, asked, skipped, bodies, windows,
                                credit, pending, wire>>
          ELSE IF Refused
            THEN /\ lastClient' = s /\ lastAccepted' = lastAccepted
                 /\ Complete(s)
                 /\ wire' = [wire EXCEPT ![s] = ResetSeen(@)]
                 /\ skipped' = TRUE
                 /\ UNCHANGED <<reader, fault, assembly, asked>>
          ELSE /\ lastClient' = s /\ lastAccepted' = s
               /\ active' = active \cup {s}
               /\ credit' = [credit EXCEPT ![s] = peerWindow]
               /\ endStream' = end /\ continuations' = 0 /\ asked' = fields
               /\ Extend(s, fragment, endHeaders)
               /\ UNCHANGED <<skipped, bodies, windows, pending, wire>>
  /\ UNCHANGED <<peerWindow, connWindow, budgets, table>> /\ Untouched

\* A CONTINUATION of a stream whose block is not kept is an error, also when
\* the stream was refused in the frame before.
ContinuationFrame(s, endHeaders) ==
  /\ Handling
  /\ \E fragment \in Fragments, fields \in FieldLists, remembered \in Memories :
       /\ Fragment(fragment, fields, remembered)
       /\ peerTable' = remembered
       /\ continuations' = continuations + 1
       /\ IF s /= assembling \/ continuations' > MaxContinuation
            THEN Goaway /\ UNCHANGED <<reader, assembling, block, asked>>
            ELSE Extend(s, block \o fragment, endHeaders) /\ asked' = asked \o fields
  /\ UNCHANGED <<admission, endStream, pending, flow, bodies, budgets, table, skipped, wire>>
  /\ Untouched

\* _respond: the headers go out, and a body waits for its windows.
Respond(s, size) ==
  /\ wire' = [wire EXCEPT ![s] = IF size = 0 THEN DataSeen(HeadersSeen(@), TRUE) ELSE HeadersSeen(@)]
  /\ IF size = 0 THEN Complete(s)
     ELSE /\ windows' = [o \in DOMAIN windows \cup {s} |-> StreamWindow(o)]
          /\ outbound' = Append(outbound, s)
          /\ left' = [left EXCEPT ![s] = size]
          /\ files' \in {files, files \cup {s}}
          /\ UNCHANGED <<active, credit, running>>
          /\ pending' = pending \ {s}

Reset(s) == wire' = [wire EXCEPT ![s] = ResetSeen(@)] /\ Complete(s)

\* _dispatch: a request without a path is reset; a page, a file, an error or
\* nothing is answered to the others.
Dispatch(s, wellformed) ==
  IF wellformed THEN \E size \in Sizes : Respond(s, size) ELSE Reset(s)

\* Mutant: the decoder is set up anew for each block.
FreshDecoder(b) == Decode(NewTable, b)

Decoded(b) == Decode(table, b)

DecodeBlock ==
  /\ reader = "decoding"
  /\ LET d == Decoded(block)
         s == assembling
     IN /\ ~d.error
        /\ table' = d.table
        /\ IF endStream THEN Dispatch(s, \E i \in DOMAIN d.headers : d.headers[i] \in PathFields)
           ELSE /\ pending' = pending \cup {s}
                /\ UNCHANGED <<running, active, outbound, left, files, windows, credit, wire>>
  /\ assembling' = NoStream /\ block' = <<>> /\ endStream' = FALSE /\ continuations' = 0
  /\ asked' = <<>>
  /\ reader' = "handling"
  /\ UNCHANGED <<fault, lastClient, lastAccepted, peerWindow, connWindow, budgets, peerTable, skipped>>
  /\ Untouched

\* An HpackError ends the connection, as any other exception does.
DecodeError ==
  /\ reader = "decoding"
  /\ Decoded(block).error
  /\ Goaway
  /\ End

\* What arrives for a stream is credited and thrown away; its end releases
\* the request.
Data(s, end) ==
  /\ Handling /\ ~Interrupted
  /\ reader' = reader
  /\ IF s \notin active
       THEN IF s > lastClient
              THEN Goaway /\ UNCHANGED <<active, outbound, left, files, windows, credit, pending, wire>>
              ELSE Reset(s) /\ fault' = fault
     ELSE /\ fault' = fault
          /\ IF end /\ s \in pending
               THEN \E wellformed \in BOOLEAN : Dispatch(s, wellformed)
               ELSE UNCHANGED <<running, active, outbound, left, files, windows, credit, pending, wire>>
  /\ UNCHANGED <<lastClient, lastAccepted, assembly, peerWindow, connWindow, budgets, codec>>
  /\ Untouched

-----------------------------------------------------------------------------
(* _flush_outbound                                                         *)

Budget(s) == Min({FrameLimit, left[s], connWindow, Max({StreamWindow(s), 0})})

\* One frame of the next stream in this pass, or the reset of a stream whose
\* file fails or has shrunk.
SendData ==
  /\ reader = "flushing" /\ round /= <<>>
  /\ LET s == Head(round)
         n == Budget(s)
     IN IF n = 0
          THEN UNCHANGED <<running, active, outbound, left, files, windows, connWindow, credit,
                           pending, wire, progress>>
        ELSE \/ /\ wire' = [wire EXCEPT ![s] = DataSeen(@, n = left[s])]
                /\ connWindow' = connWindow - n
                /\ progress' = TRUE
                /\ IF n = left[s] THEN Complete(s)
                   ELSE /\ left' = [left EXCEPT ![s] = @ - n]
                        /\ windows' = [windows EXCEPT ![s] = @ - n]
                        /\ credit' = [credit EXCEPT ![s] = @ - n]
                        /\ UNCHANGED <<running, active, outbound, files, pending>>
             \/ /\ s \in files
                /\ Reset(s)
                /\ UNCHANGED <<connWindow, progress>>
  /\ round' = Tail(round)
  /\ UNCHANGED <<reader, fault, lastClient, lastAccepted, assembly, peerWindow, budgets, drain, codec>>

\* The pass is over: another, if it sent something; else the next read, unless
\* the loop is to end.
EndOfPass ==
  /\ reader = "flushing" /\ round = <<>>
  /\ progress' = FALSE
  /\ IF progress /\ connWindow > 0
       THEN round' = outbound /\ UNCHANGED <<reader, files>>
       ELSE /\ round' = <<>>
            /\ reader' = IF running THEN "reading" ELSE "ended"
            /\ files' = IF running THEN files ELSE {}
  /\ UNCHANGED <<running, admission, assembly, pending, flow, outbound, left, budgets, drain, fault,
                 codec, wire>>

-----------------------------------------------------------------------------
(* _begin_draining                                                         *)

\* One section under _drain_lock, also taken by admission and completion.
BeginDraining ==
  /\ reader /= "preface" /\ drainer = "off"
  /\ drainer' = "goaway" /\ draining' = TRUE
  /\ told' = lastAccepted
  /\ idle' = (active = {})
  /\ UNCHANGED <<reader, running, admission, assembly, pending, flow, bodies, budgets, flushing,
                 woken, fault, codec, wire>>

\* The GOAWAY is sent; an idle connection has no more to do.  If it cannot be
\* sent, the server's deadline remains.
SendGoaway ==
  /\ drainer = "goaway"
  /\ \/ drainer' = (IF idle THEN "wake" ELSE "done") /\ running' = (running /\ ~idle)
     \/ drainer' = "failed" /\ running' = running
  /\ UNCHANGED <<reader, admission, assembly, pending, flow, bodies, budgets, flushing, draining,
                 idle, told, woken, fault, codec, wire>>

\* SHUT_RDWR ends a blocked read1.
Wake ==
  /\ drainer = "wake"
  /\ drainer' = "done" /\ woken' = TRUE
  /\ UNCHANGED <<reader, running, admission, assembly, pending, flow, bodies, budgets, flushing,
                 draining, idle, told, fault, codec, wire>>

Terminated == reader = "ended" /\ drainer \notin {"goaway", "wake"} /\ UNCHANGED vars

HandleFrame ==
  \/ Unexpected \/ ClientGoaway
  \/ \E value \in -1..(MaxWindow + 1) : Settings(value)
  \/ \E s \in Streams \cup {0}, n \in 1..MaxWindow : WindowUpdate(s, n)
  \/ \E s \in Streams : RstStream(s) \/ \E end \in BOOLEAN : Data(s, end)
  \/ \E s \in Streams, endHeaders \in BOOLEAN :
       ContinuationFrame(s, endHeaders) \/ \E end \in BOOLEAN : Headers(s, end, endHeaders)

Reader == Preface \/ EndOfChunk \/ DecodeBlock \/ DecodeError \/ SendData \/ EndOfPass
Drainer == BeginDraining \/ SendGoaway \/ Wake

Next == Reader \/ Read \/ EndOfFile \/ Fail \/ HandleFrame \/ Drainer \/ Terminated

Spec == Init /\ [][Next]_vars

\* The reader goes on with what it has; a read ends when the socket is shut
\* down; the drain thread goes on once it has begun.
FairSpec == Spec /\ WF_vars(Reader) /\ WF_vars(woken /\ EndOfFile) /\ WF_vars(SendGoaway \/ Wake)

-----------------------------------------------------------------------------
(* Properties                                                              *)

\* Flow control: as long as the connection is in order, the next frame of each
\* body carries all that the client has granted, and no more, however its
\* SETTINGS, window updates and our data are interleaved, before or after
\* the stream had a window of its own (connection.py:241-257, 411-442).
SendsWhatIsGranted ==
  ~fault => \A s \in ToSet(outbound) :
    Budget(s) = Min({FrameLimit, left[s], connWindow, Max({credit[s], 0})})

\* What is kept for a stream belongs to a stream that counts against
\* max_h2_streams: neither refusals, resets and errors nor the end of the
\* connection leave a window, a request, a body or an open file behind; and
\* a client gets on each stream one response, from start to end.
StreamsAccounted ==
  /\ TypeOK
  /\ Cardinality(active) <= MaxStreams
  /\ pending \cup DOMAIN windows \cup ToSet(outbound) \subseteq active
  /\ assembling \in active \cup {NoStream}
  /\ files \subseteq ToSet(outbound) /\ (reader = "ended" => files = {})
  /\ \A s \in Streams : wire[s] /= "broken" /\ (s \in ToSet(outbound) => wire[s] \in {"open", "reset"})

\* "Advertise graceful shutdown while allowing already accepted streams"
\* (connection.py:142): no stream beyond the announced one is ever accepted,
\* and a drain stops the reader only when none is left.
PromisesKept ==
  /\ told /= NotTold => lastAccepted = told
  /\ ~running /\ ~fault => active = {}

\* The decoder's table follows the client's through every interleaving of
\* HEADERS and CONTINUATION, insertions and evictions, so each request is read
\* as it was written - unless a header block was refused: those are not read,
\* and what they would have put into the table is missing from then on.
HeadersAsSent ==
  ~skipped /\ ~fault /\ ~Contains(block, Indexed(0)) =>
    LET d == Decoded(block)
    IN ~d.error /\ d.headers = asked /\ d.table = peerTable

\* A drained connection ends: once the GOAWAY is out and no accepted stream is
\* left, the reader does not wait for the client any more.
DrainEnds == drainer = "done" /\ active = {} ~> reader = "ended"
=============================================================================
