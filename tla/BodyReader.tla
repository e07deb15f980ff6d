------------------------------ MODULE BodyReader ------------------------------
(***************************************************************************)
(* The readers of a request body (_body.py): LimitedReader, which never    *)
(* reads beyond the declared length, over DeadlineReader, which bounds the *)
(* whole by one deadline and therefore reads what one system call gives,   *)
(* keeping in a buffer of its own what lies behind a line it returned.     *)
(* The reader of a chunked body, which the ASGI server has (asgi.py).  And *)
(* multipart uploads and the expansion of archives (upload.py,             *)
(* _extract.py): the stream that looks for a marker in a body that comes   *)
(* in chunks, the parts that are stored one after the other, each under    *)
(* its target's lock and by a rename, and the entries of an archive.       *)
(*                                                                         *)
(* A reader is [source, buffer, remaining]: the octets of the connection,  *)
(* those that DeadlineReader holds, and those of the body still to read.   *)
(***************************************************************************)
EXTENDS Integers, Sequences, SequencesExt

CONSTANTS
  EOL,          \* the line feed
  MaxTrailers,  \* _MAX_TRAILERS
  NoFile,       \* what a name has that has no file
  MaxEntries,   \* _MAX_ENTRIES
  MaxTotal,     \* MAX_TOTAL, the ceiling of what an archive may expand to
  MaxUpload,    \* max_upload_size, the floor of that
  Ratio         \* and how often its size it may expand to

Least(S) == CHOOSE n \in S : \A m \in S : n <= m
First(data, n) == SubSeq(data, 1, n)
Rest(data, n) == SubSeq(data, n + 1, Len(data))

All == -1   \* a negative size: no limit of its own

-----------------------------------------------------------------------------
(* DeadlineReader; grain is what one read of the socket gives at most      *)

Given(source, size, grain) == Least({size, grain, Len(source)})

RECURSIVE Fill(_, _, _)
Fill(r, size, grain) ==   \* read until size octets are there, or the end
  LET n == Given(r.source, size, grain)
      more == Fill([r EXCEPT !.source = Rest(@, n)], size - n, grain)
  IN IF n = 0 THEN [reader |-> r, data |-> <<>>]
     ELSE [more EXCEPT !.data = First(r.source, n) \o @]

DeadlineRead(r, size, grain) ==
  LET held == Least({size, Len(r.buffer)})
      more == Fill([r EXCEPT !.buffer = Rest(@, held)], size - held, grain)
  IN [more EXCEPT !.data = First(r.buffer, held) \o @]

\* What is read to find the end of a line: no more than the line may have.
Wanted(size) == size

\* The buffer, up to the end of the line or the limit; then another read.
RECURSIVE DeadlineLine(_, _, _)
DeadlineLine(r, size, grain) ==
  LET newline == SelectInSeq(r.buffer, LAMBDA o : o = EOL)
      take == Least({size, IF newline = 0 THEN Len(r.buffer) ELSE newline})
      data == First(r.buffer, take)
      left == [r EXCEPT !.buffer = Rest(@, take)]
      n == Given(r.source, Wanted(size - take), grain)
      filled == [left EXCEPT !.buffer = @ \o First(r.source, n), !.source = Rest(@, n)]
      more == DeadlineLine(filled, size - take, grain)
  IN IF take = size \/ (take > 0 /\ Last(data) = EOL) \/ n = 0
     THEN [reader |-> left, data |-> data]
     ELSE [more EXCEPT !.data = data \o @]

-----------------------------------------------------------------------------
(* Without a deadline: the buffered stream of the connection               *)

PlainRead(r, size) ==
  LET n == Least({size, Len(r.source)})
  IN [reader |-> [r EXCEPT !.source = Rest(@, n)], data |-> First(r.source, n)]
PlainLine(r, size) ==
  LET newline == SelectInSeq(r.source, LAMBDA o : o = EOL)
  IN PlainRead(r, IF newline = 0 THEN size ELSE Least({size, newline}))

-----------------------------------------------------------------------------
(* LimitedReader, over either: grain is 0 without a deadline               *)

Want(r, size) == IF size = All THEN r.remaining ELSE Least({size, r.remaining})
Counted(result) ==
  [result EXCEPT !.reader = [@ EXCEPT !.remaining = @ - Len(result.data)]]

Read(r, size, grain) ==
  IF r.remaining = 0 THEN [reader |-> r, data |-> <<>>]
  ELSE Counted(IF grain = 0 THEN PlainRead(r, Want(r, size))
               ELSE DeadlineRead(r, Want(r, size), grain))
ReadLine(r, size, grain) ==
  IF r.remaining = 0 THEN [reader |-> r, data |-> <<>>]
  ELSE Counted(IF grain = 0 THEN PlainLine(r, Want(r, size))
               ELSE DeadlineLine(r, Want(r, size), grain))

\* drain(limit): nothing if more is left than the limit; else all of it.
Drain(r, limit, grain) ==
  IF limit # All /\ r.remaining > limit THEN [reader |-> r, data |-> <<>>]
  ELSE Read(r, All, grain)

\* A call is <<method, argument>>; what a sequence of them returns.
Call(r, call, grain) ==
  CASE call[1] = "read" -> Read(r, call[2], grain)
    [] call[1] = "readline" -> ReadLine(r, call[2], grain)
    [] call[1] = "drain" -> Drain(r, call[2], grain)

RECURSIVE Calls(_, _, _)
Calls(r, calls, grain) ==
  IF calls = <<>> THEN [reader |-> r, data |-> <<>>]
  ELSE LET first == Call(r, Head(calls), grain)
           rest == Calls(first.reader, Tail(calls), grain)
       IN [reader |-> rest.reader, data |-> <<first.data>> \o rest.data]

-----------------------------------------------------------------------------
(* asgi.py, _AsyncBody: a chunked body, which receive() delivers in pieces.*)
(* c is [source, body, chunk, total, outcome]: what is still to come, what *)
(* was delivered, the octets left of a chunk, those that were announced.   *)

HexDigits == <<"0", "1", "2">>   \* as many of them as the inputs have
DigitOf(d) == (CHOOSE i \in DOMAIN HexDigits : HexDigits[i] = d) - 1
IsSize(token) == token # <<>> /\ ToSet(token) \subseteq ToSet(HexDigits)
SizeOf(token) == FoldLeft(LAMBDA n, d : 16 * n + DigitOf(d), 0, token)

Ending == <<"CR", EOL>>
\* readuntil: how much it returns, or 0 if the ending does not come.
UpToEnding(data) ==
  LET ends == {i \in 2..Len(data) : SubSeq(data, i - 1, i) = Ending}
  IN IF ends = {} THEN 0 ELSE Least(ends)

\* What stands before the extensions, without the blanks around it.
SizeToken(line) ==
  LET mark == SelectInSeq(line, LAMBDA o : o = ";")
      text == First(line, IF mark = 0 THEN Len(line) - 2 ELSE mark - 1)
      inner == {i \in DOMAIN text : text[i] \notin {" ", "CR", EOL}}
  IN IF inner = {} THEN <<>> ELSE SubSeq(text, Least(inner), CHOOSE i \in inner : \A j \in inner : j <= i)

ChunkedStart(data) == [source |-> data, body |-> <<>>, chunk |-> 0, total |-> 0, outcome |-> "more"]
StopsWith(c, outcome) == [c EXCEPT !.outcome = outcome]

RECURSIVE ConsumeTrailers(_, _)
ConsumeTrailers(c, read) ==
  LET n == UpToEnding(c.source)
      behind == [c EXCEPT !.source = Rest(@, n)]
  IN CASE n = 0 -> StopsWith(c, "disconnect")
       [] read + n > MaxTrailers -> StopsWith(c, "trailers")
       [] n = 2 /\ read + n <= MaxTrailers -> StopsWith(behind, "whole")
       [] OTHER -> ConsumeTrailers(behind, read + n)

ChunkSize(c, max) ==
  LET n == UpToEnding(c.source)
      token == SizeToken(First(c.source, n))
      behind == [c EXCEPT !.source = Rest(@, n)]
  IN IF n = 0 THEN StopsWith(c, "disconnect")
     ELSE IF ~IsSize(token) THEN StopsWith(c, "invalid")
     ELSE IF SizeOf(token) = 0 THEN ConsumeTrailers(behind, 0)
     ELSE IF c.total + SizeOf(token) > max THEN StopsWith(c, "large")
     ELSE [behind EXCEPT !.chunk = SizeOf(token), !.total = @ + SizeOf(token)]

\* The last piece of a chunk is delivered when its ending is there.
ChunkPiece(c, piece) ==
  LET size == Least({piece, c.chunk})
      over == IF size = c.chunk THEN 2 ELSE 0
  IN CASE Len(c.source) < size + over -> StopsWith(c, "disconnect")
       [] Len(c.source) >= size + over /\ over = 2 /\ SubSeq(c.source, size + 1, size + 2) # Ending ->
            StopsWith(c, "invalid")
       [] OTHER -> [c EXCEPT !.source = Rest(@, size + over), !.body = @ \o First(c.source, size),
                             !.chunk = @ - size]

ReceiveChunked(c, piece, max) ==
  LET sized == IF c.chunk = 0 THEN ChunkSize(c, max) ELSE c
  IN IF sized.outcome = "more" THEN ChunkPiece(sized, piece) ELSE sized

RECURSIVE ReceiveAll(_, _, _)
ReceiveAll(c, piece, max) ==
  IF c.outcome = "more" THEN ReceiveAll(ReceiveChunked(c, piece, max), piece, max) ELSE c

-----------------------------------------------------------------------------
(* upload.py, _Stream: a buffer in front of a body that comes by chunks.   *)
(* A directory is a function from names to contents.  busy holds the names *)
(* whose lock another writer has.  A content is [octets], or an archive    *)
(* [zip, size, entries].                                                   *)

\* The first place of marker in data, or 0.
Find(data, marker) ==
  LET places == {i \in 1..(Len(data) - Len(marker) + 1) :
                   SubSeq(data, i, i + Len(marker) - 1) = marker}
  IN IF places = {} THEN 0 ELSE CHOOSE i \in places : \A j \in places : i <= j

FillStream(s, chunk) ==
  LET n == Least({chunk, Len(s.source)})
  IN [s EXCEPT !.buffer = @ \o First(s.source, n), !.source = Rest(@, n)]

RECURSIVE StreamLine(_, _)
StreamLine(s, chunk) ==
  LET n == SelectInSeq(s.buffer, LAMBDA o : o = EOL)
  IN CASE n > 0 -> [line |-> First(s.buffer, n), left |-> [s EXCEPT !.buffer = Rest(@, n)]]
       [] n = 0 /\ s.source = <<>> -> [line |-> s.buffer, left |-> [s EXCEPT !.buffer = <<>>]]
       [] OTHER -> StreamLine(FillStream(s, chunk), chunk)

\* What may be the beginning of a marker stays in the buffer.
Kept(marker) == Len(marker) - 1

RECURSIVE ReadUntil(_, _, _)
ReadUntil(s, marker, chunk) ==
  LET at == Find(s.buffer, marker)
      cut == IF Len(s.buffer) > Kept(marker) THEN Len(s.buffer) - Kept(marker) ELSE 0
      more == ReadUntil(FillStream([s EXCEPT !.buffer = Rest(@, cut)], chunk), marker, chunk)
  IN CASE at > 0 -> [written |-> First(s.buffer, at - 1),
                     left |-> [s EXCEPT !.buffer = Rest(@, at - 1 + Len(marker))]]
       [] at = 0 /\ s.source = <<>> -> [unterminated |-> TRUE]
       [] OTHER -> IF "unterminated" \in DOMAIN more THEN more
                   ELSE [more EXCEPT !.written = First(s.buffer, cut) \o @]

-----------------------------------------------------------------------------
(* _extract.py: the entries of an archive                                  *)

\* An entry: name, kind ("file", "dir", "link", or "broken" for a file whose data
\* cannot be read to its end), whether it leads outside, and its content.
\* state: files, total, names, error once there is one, and whether it is an
\* error of the archive module or of the disk, not one of extract's own.
Written(state, entry, overwrite, cap, busy) ==
  LET total == state.total + Len(entry.content.octets)
  IN IF \/ entry.name \in busy
        \/ ~overwrite /\ state.files[entry.name] # NoFile
        \/ total > cap
     THEN [state EXCEPT !.error = TRUE]
     ELSE IF entry.kind = "broken" THEN [state EXCEPT !.error = TRUE, !.broken = TRUE]
     ELSE [state EXCEPT !.files[entry.name] = entry.content, !.total = total,
                        !.names = Append(@, entry.name)]

\* tar knows links and skips them; in a zip a link is a file.
Skipped(zip, entry) == ~zip /\ entry.kind = "link"

ExtractEntry(state, zip, entry, overwrite, cap, busy) ==
  CASE state.error \/ Skipped(zip, entry) -> state
    [] ~state.error /\ ~Skipped(zip, entry) /\ entry.outside -> [state EXCEPT !.error = TRUE]
    [] OTHER -> IF entry.kind = "dir" THEN state ELSE Written(state, entry, overwrite, cap, busy)

Extract(files, archive, overwrite, cap, busy) ==
  LET start == [files |-> files, total |-> 0, names |-> <<>>, broken |-> FALSE,
                error |-> Len(archive.entries) > MaxEntries]
  IN FoldLeft(LAMBDA state, entry :
                ExtractEntry(state, archive.zip, entry, overwrite, cap, busy),
              start, archive.entries)

-----------------------------------------------------------------------------
(* upload.py: the parts of one request                                     *)

\* A part: its name or NoFile for a field, whether the name is safe, whether it
\* ends, and its content, which is an archive or octets.
\* _save_part: conflict, or the whole part under its name.
Saved(files, part, overwrite, busy) ==
  IF part.name \in busy \/ (files[part.name] # NoFile /\ ~overwrite) \/ ~part.ends
  THEN [files |-> files, error |-> TRUE]
  ELSE [files |-> [files EXCEPT ![part.name] = part.content], error |-> FALSE]

IsArchive(content) == "entries" \in DOMAIN content
CapOf(written) ==
  Least({MaxTotal, IF MaxUpload > Ratio * written THEN MaxUpload ELSE Ratio * written})

\* _maybe_extract: the archive itself is removed when all of it, or an entry of it,
\* is judged; any other error leaves it beside what was extracted.
Expanded(files, part, overwrite, busy) ==
  LET state == Extract(files, part.content, overwrite, CapOf(part.content.size), busy)
  IN [files |-> IF state.broken THEN state.files ELSE [state.files EXCEPT ![part.name] = NoFile],
      error |-> state.error]

SavePart(state, part, overwrite, extract, busy) ==
  LET stored == Saved(state.files, part, overwrite, busy)
  IN CASE state.error \/ (part.name = NoFile /\ part.ends) -> state
       [] ~state.error /\ part.name = NoFile /\ ~part.ends -> [state EXCEPT !.error = TRUE]
       [] OTHER -> IF ~part.safe THEN [state EXCEPT !.error = TRUE]
                   ELSE IF stored.error \/ ~extract \/ ~IsArchive(part.content) THEN stored
                   ELSE Expanded(stored.files, part, overwrite, busy)

Save(files, parts, overwrite, extract, busy) ==
  FoldLeft(LAMBDA state, part : SavePart(state, part, overwrite, extract, busy),
           [files |-> files, error |-> FALSE], parts)
=============================================================================
