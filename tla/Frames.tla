-------------------------------- MODULE Frames --------------------------------
(***************************************************************************)
(* The frame layer of HTTP/2 (http2/frames.py): what FrameReader and       *)
(* parse_frame make of a frame that a peer may send.                       *)
(*                                                                         *)
(* A raw frame has a type, a stream, the length of its payload, the flags  *)
(* that change its layout (padded, priority, ack) with the length of the   *)
(* padding, and the value a WINDOW_UPDATE carries.  The header of a frame, *)
(* which is read from fragments of the stream, is modelled by its octets.  *)
(***************************************************************************)
EXTENDS Integers, Sequences, SequencesExt

CONSTANT MaxFrame        \* max_frame_size of the reader

FrameTypes == {"DATA", "HEADERS", "PRIORITY", "RST_STREAM", "SETTINGS", "PUSH_PROMISE", "PING",
               "GOAWAY", "WINDOW_UPDATE", "CONTINUATION", "unknown"}

\* Where a type is at home: on a stream, on the connection, or on either.
StreamTypes == {"DATA", "HEADERS", "PRIORITY", "RST_STREAM", "PUSH_PROMISE", "CONTINUATION"}
ConnectionTypes == {"SETTINGS", "PING", "GOAWAY"}

StreamAllowed(f) ==
  /\ f.type \in StreamTypes => f.stream /= 0
  /\ f.type \in ConnectionTypes => f.stream = 0

\* The pad length octet and the padding are part of the payload.
PaddingFits(f) == f.length >= 1 /\ f.padding < f.length

Padded(f) == f.type \in {"DATA", "HEADERS", "PUSH_PROMISE"} /\ f.padded

\* The payload without its padding.
BodyLength(f) == IF Padded(f) THEN f.length - 1 - f.padding ELSE f.length

LengthAllowed(f) ==
  CASE f.type = "PRIORITY" -> f.length = 5
    [] f.type \in {"RST_STREAM", "WINDOW_UPDATE"} -> f.length = 4
    [] f.type = "PING" -> f.length = 8
    [] f.type = "GOAWAY" -> f.length >= 8
    [] f.type = "SETTINGS" -> IF f.ack THEN f.length = 0 ELSE f.length % 6 = 0
    [] f.type = "HEADERS" -> f.priority => BodyLength(f) >= 5
    [] f.type = "PUSH_PROMISE" -> BodyLength(f) >= 4
    [] OTHER -> TRUE

\* A frame that is not accepted ends the connection; the length is looked at
\* before the payload has arrived.
Accepted(f) ==
  /\ f.length <= MaxFrame
  /\ StreamAllowed(f)
  /\ Padded(f) => PaddingFits(f)
  /\ LengthAllowed(f)
  /\ f.type = "WINDOW_UPDATE" => f.increment > 0

\* Octets of the payload that reach the handler of the frame: no pad length,
\* padding or priority block.
Delivered(f) ==
  IF f.type = "HEADERS" /\ f.priority THEN BodyLength(f) - 5 ELSE BodyLength(f)

-----------------------------------------------------------------------------
(* What the server sends: payload counts the octets of data, of a header   *)
(* block or of debug data, and the settings.                               *)

SerializedLength(f) ==
  CASE f.type = "DATA" -> f.payload
    [] f.type = "HEADERS" -> f.payload + (IF f.priority THEN 5 ELSE 0)
    [] f.type = "SETTINGS" -> IF f.ack THEN 0 ELSE 6 * f.payload
    [] f.type \in {"WINDOW_UPDATE", "RST_STREAM"} -> 4
    [] f.type = "GOAWAY" -> 8 + f.payload
    [] f.type = "PING" -> 8

\* The frame on the wire; HEADERS are never padded.
Serialize(f) ==
  [type |-> f.type, stream |-> f.stream, length |-> SerializedLength(f),
   padded |-> f.padded /\ f.type # "HEADERS", padding |-> 0,
   priority |-> f.type = "HEADERS" /\ f.priority, ack |-> f.ack, increment |-> f.increment]

-----------------------------------------------------------------------------
(* The nine octets of a header, and FrameReader                            *)

HeaderSize == 9
Octets(n, count) == [i \in 1..count |-> (n \div 256 ^ (count - i)) % 256]
FromOctets(first, octets) == FoldLeft(LAMBDA n, o : 256 * n + o, first, octets)

NoHeader == <<>>   \* the length does not fit
BuildHeader(length, type, flags, stream) ==
  IF length \notin 0..16777215 THEN NoHeader
  ELSE Octets(length, 3) \o <<type % 256, flags % 256>> \o Octets(stream, 4)

\* The reserved bit before the stream is ignored.
ParseHeader(h) ==
  [length |-> FromOctets(0, SubSeq(h, 1, 3)), type |-> h[4], flags |-> h[5],
   stream |-> FromOctets(h[6] % 128, SubSeq(h, 7, 9))]

\* r is [buffer, frames, error]: what was not read yet, the frames handed out.
\* One frame more, if its header and all of its payload are there.
NextFrame(r, limit) ==
  LET header == ParseHeader(r.buffer)
      total == HeaderSize + header.length
      frame == [header |-> header, payload |-> SubSeq(r.buffer, HeaderSize + 1, total)]
  IN IF Len(r.buffer) < HeaderSize THEN r
     ELSE IF header.length > limit THEN [r EXCEPT !.error = TRUE]
     ELSE IF Len(r.buffer) < total THEN r
     ELSE [r EXCEPT !.buffer = SubSeq(@, total + 1, Len(@)), !.frames = Append(@, frame)]

\* As often as the buffer can hold a header.
NextFrames(r, limit) ==
  LET attempts == [i \in 1..(Len(r.buffer) \div HeaderSize) |-> i]
  IN FoldLeft(LAMBDA q, i : NextFrame(q, limit), r, attempts)

\* Once in error the connection is over: nothing more is fed.
Feed(r, data, limit) ==
  IF r.error THEN r ELSE NextFrames([r EXCEPT !.buffer = @ \o data], limit)
=============================================================================
