------------------------------ MODULE HeadReader ------------------------------
(***************************************************************************)
(* How a request head is read (_request.py): the blocking reader of the    *)
(* threaded server, the incremental parser of the ASGI server, and the     *)
(* reader of a head under a deadline, which must not read past the blank   *)
(* line.  RequestHead has the rules for what was read.                     *)
(*                                                                         *)
(* An octet is one of a few letters: "x" may stand in a field's name,      *)
(* " " and ":" in its value only, "!" in neither.                          *)
(***************************************************************************)
EXTENDS RequestHead

CONSTANTS MaxLine, MaxCount   \* MAX_HEADER_LINE and MAX_HEADER_COUNT

ASSUME LimitsAssumption == MaxLine \in Nat \ {0} /\ MaxCount \in Nat \ {0}

NameOctets == {"x"}
ValueOctets == {"x", " ", ":"}
CRLF == <<"CR", "LF">>
Blank == {CRLF, <<"LF">>}

\* The position of the first line feed, and the octets up to it.
FirstLF(data) == SelectInSeq(data, LAMBDA o : o = "LF")
Take(data, n) == SubSeq(data, 1, n)
Drop(data, n) == SubSeq(data, n + 1, Len(data))
LesserOf(a, b) == IF a < b THEN a ELSE b

-----------------------------------------------------------------------------
(* Field lines                                                             *)

WithoutEnd(line) ==
  LET bare == IF IsSuffix(<<"LF">>, line) THEN Front(line) ELSE line
  IN IF IsSuffix(<<"CR">>, bare) THEN Front(bare) ELSE bare

WellFormed(line) ==
  LET bare == WithoutEnd(line)
      colon == SelectInSeq(bare, LAMBDA o : o = ":")
  IN /\ colon > 1
     /\ \A i \in DOMAIN bare : bare[i] \in IF i < colon THEN NameOctets ELSE ValueOctets
Folded(line) == line # <<>> /\ Head(line) = " "
WellFolded(line) == \A i \in DOMAIN WithoutEnd(line) : line[i] \in ValueOctets

Stripped(value) ==
  LET kept == {i \in DOMAIN value : value[i] # " "}
  IN IF kept = {} THEN <<>>
     ELSE SubSeq(value, CHOOSE i \in kept : \A j \in kept : i <= j,
                        CHOOSE i \in kept : \A j \in kept : j <= i)

\* A field's value ends before CR LF or LF, then loses its blanks: at the end
\* of the stream a lone CR stays.
FieldOf(line) ==
  LET bare == IF IsSuffix(<<"LF">>, line) THEN WithoutEnd(line) ELSE line
      colon == SelectInSeq(line, LAMBDA o : o = ":")
  IN [name |-> Take(line, colon - 1), value |-> Stripped(Drop(bare, colon))]

\* What one line adds to the fields before it; a fold with none before it is
\* dropped.
AppendLine(pairs, line) ==
  CASE Folded(line) /\ ~WellFolded(line) -> Error(400)
    [] Folded(line) /\ WellFolded(line) /\ pairs = <<>> -> [pairs |-> <<>>]
    [] Folded(line) /\ WellFolded(line) /\ pairs # <<>> ->
         [pairs |-> Append(Front(pairs),
            [Last(pairs) EXCEPT !.value = @ \o <<" ">> \o Stripped(WithoutEnd(line))])]
    [] ~Folded(line) /\ Len(pairs) >= MaxCount -> Error(431)
    [] ~Folded(line) /\ Len(pairs) < MaxCount /\ ~WellFormed(line) -> Error(400)
    [] OTHER -> [pairs |-> Append(pairs, FieldOf(line))]

-----------------------------------------------------------------------------
(* read_headers: line by line from a buffered stream                       *)

\* The line that readline(MaxLine + 1) gives.
LineOf(source) ==
  LET n == FirstLF(source)
  IN Take(source, LesserOf(MaxLine + 1, IF n = 0 THEN Len(source) ELSE n))

RECURSIVE ReadFields(_, _)
ReadFields(pairs, source) ==
  LET line == LineOf(source)
      rest == Drop(source, Len(line))
      next == AppendLine(pairs, line)
  IN CASE Len(line) > MaxLine -> Error(431)
       [] Len(line) <= MaxLine /\ line \in Blank \union {<<>>} -> [pairs |-> pairs, rest |-> rest]
       [] OTHER -> IF IsError(next) THEN next ELSE ReadFields(next.pairs, rest)
ReadHeaders(source) == ReadFields(<<>>, source)

-----------------------------------------------------------------------------
(* HeaderBlockParser: as the octets come                                   *)

Start == [buffer |-> <<>>, pairs |-> <<>>]

RECURSIVE Feed(_, _)
Feed(parser, data) ==
  LET buffer == parser.buffer \o data
      n == FirstLF(buffer)
      line == Take(buffer, n)
      next == AppendLine(parser.pairs, line)
  IN CASE n = 0 /\ Len(buffer) > MaxLine -> Error(431)
       [] n = 0 /\ Len(buffer) <= MaxLine -> [parser EXCEPT !.buffer = buffer]
       [] n > MaxLine -> Error(431)
       [] n \in 1..MaxLine /\ line \in Blank -> [pairs |-> parser.pairs, rest |-> Drop(buffer, n)]
       [] OTHER -> IF IsError(next) THEN next
                   ELSE Feed([buffer |-> Drop(buffer, n), pairs |-> next.pairs], <<>>)

Complete(result) == "rest" \in DOMAIN result

\* The end of the stream ends the block, and the line that has no end.
Finish(parser) ==
  LET last == AppendLine(parser.pairs, parser.buffer)
  IN CASE Len(parser.buffer) > MaxLine -> Error(431)
       [] Len(parser.buffer) <= MaxLine /\ parser.buffer = <<>> ->
            [pairs |-> parser.pairs, rest |-> <<>>]
       [] OTHER -> IF IsError(last) THEN last ELSE [pairs |-> last.pairs, rest |-> <<>>]

FeedOrStop(result, data) ==
  CASE IsError(result) -> result
    [] ~IsError(result) /\ Complete(result) -> [result EXCEPT !.rest = @ \o data]
    [] OTHER -> Feed(result, data)
Parse(fragments) ==
  LET result == FoldLeft(FeedOrStop, Start, fragments)
  IN IF IsError(result) \/ Complete(result) THEN result ELSE Finish(result)

-----------------------------------------------------------------------------
(* HeadDeadlineReader: the head, and nothing behind it                     *)

\* A stream is what is known to be buffered, and the fragments still to come.
Everything(s) == s.buffered \o FlattenSeq(s.coming)
Peeked(s) ==
  IF s.buffered # <<>> \/ s.coming = <<>> THEN s
  ELSE [buffered |-> Head(s.coming), coming |-> Tail(s.coming)]

\* Mutant: the blank line that ends a head may only be a bare line feed.
BareEnds(data) == {i + 1 : i \in {j \in 1..(Len(data) - 1) : SubSeq(data, j, j + 1) = <<"LF", "LF">>}}

\* Where a head that is buffered whole ends.
HeadEnds(data) ==
  BareEnds(data) \union
  {i + 2 : i \in {j \in 1..(Len(data) - 2) : SubSeq(data, j, j + 2) = <<"LF">> \o CRLF}}
BufferedHead(s) ==
  LET ends == HeadEnds(s.buffered)
  IN IF ends = {} THEN <<>> ELSE Take(s.buffered, CHOOSE e \in ends : \A f \in ends : e <= f)

\* readline(limit): what is buffered up to the line feed, then the next peek.
RECURSIVE HeadLine(_, _)
HeadLine(s, limit) ==
  LET at == Peeked(s)
      n == FirstLF(at.buffered)
      take == LesserOf(limit, IF n = 0 THEN Len(at.buffered) ELSE n)
      read == Take(at.buffered, take)
      left == [at EXCEPT !.buffered = Drop(@, take)]
      more == HeadLine(left, limit - take)
  IN IF limit = 0 \/ at.buffered = <<>> THEN [line |-> <<>>, left |-> s]
     ELSE IF n # 0 /\ take = n THEN [line |-> read, left |-> left]
     ELSE [line |-> read \o more.line, left |-> more.left]

RECURSIVE HeadLines(_)
HeadLines(s) ==
  LET first == HeadLine(s, MaxLine + 1)
  IN IF first.line = <<>> \/ first.line \in Blank THEN [head |-> first.line, left |-> first.left]
     ELSE LET rest == HeadLines(first.left)
          IN [head |-> first.line \o rest.head, left |-> rest.left]
=============================================================================
