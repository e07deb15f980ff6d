------------------------------ MODULE StaticFile ------------------------------
(***************************************************************************)
(* What a GET of a file answers (_static.py, ranges.py, _conditional.py,   *)
(* _compress.py, _digest.py, _serve_file of handler.py and build_static of *)
(* _response.py): the validators, the range and the coding of one opened   *)
(* file.                                                                   *)
(*                                                                         *)
(* A file is [size, mtime, type]; mtime is seconds and a fraction.  Header *)
(* fields are parsed forms; Missing stands for a field that is not there.  *)
(***************************************************************************)
EXTENDS Integers, Sequences, SequencesExt

CONSTANTS SmallestCoded, LargestCoded, Buffered, HaveZstd

ASSUME CodingAssumption == {SmallestCoded, LargestCoded, Buffered} \subseteq Nat /\ HaveZstd \in BOOLEAN

Missing == [missing |-> TRUE]
IsMissing(field) == "missing" \in DOMAIN field
LesserSize(a, b) == IF a < b THEN a ELSE b

-----------------------------------------------------------------------------
(* ranges.py; a number is a natural, NoDigits (no text) or BadDigits       *)

NoDigits == -1
BadDigits == -2

Ignored == [ignored |-> TRUE]
Unsatisfiable == [unsatisfiable |-> TRUE]
ByteRange(start, length) == [start |-> start, length |-> length]
IsByteRange(range) == "start" \in DOMAIN range

\* The inclusive end, which may be asked beyond the end of the file.
EndWithin(last, size) == LesserSize(last, size - 1)

SuffixRange(last, size) ==
  CASE last <= 0 -> Ignored
    [] last > 0 /\ size = 0 -> Unsatisfiable
    [] OTHER -> ByteRange(size - LesserSize(last, size), LesserSize(last, size))

FromRange(first, last, size) ==
  CASE first = BadDigits -> Ignored
    [] first # BadDigits /\ first >= size -> Unsatisfiable
    [] OTHER -> CASE last = NoDigits -> ByteRange(first, size - first)
                  [] last = BadDigits \/ last \in 0..(first - 1) -> Ignored
                  [] OTHER -> ByteRange(first, EndWithin(last, size) - first + 1)

\* A Range field: whether it is one "bytes=" range with a dash, and its numbers.
ParseRange(field, size) ==
  IF IsMissing(field) \/ ~field.single THEN Ignored
  ELSE IF field.first = NoDigits THEN SuffixRange(field.last, size)
  ELSE FromRange(field.first, field.last, size)

-----------------------------------------------------------------------------
(* _conditional.py                                                         *)

Identity == "identity"

\* make_etag and coding_variant.
Tag(file, coding) == [size |-> file.size, mtime |-> file.mtime, coding |-> coding]

\* A list of tags, each weak or not; "*" is [any |-> TRUE].
EtagMatches(field, tag) ==
  "any" \in DOMAIN field \/ \E i \in DOMAIN field.tags : field.tags[i].tag = tag

\* A date is a number of seconds; BadDigits is none.
NotModifiedSince(date, file) == date # BadDigits /\ file.mtime[1] <= date

IsNotModified(tag, file, ifNoneMatch, ifModifiedSince) ==
  IF ~IsMissing(ifNoneMatch) THEN EtagMatches(ifNoneMatch, tag)
  ELSE ~IsMissing(ifModifiedSince) /\ NotModifiedSince(ifModifiedSince.date, file)

\* A strong tag, or a date; a weak tag is equal to none.
IfRangeMatches(field, tag, file) ==
  CASE IsMissing(field) -> TRUE
    [] ~IsMissing(field) /\ "tag" \in DOMAIN field -> ~field.weak /\ field.tag = tag
    [] OTHER -> NotModifiedSince(field.date, file)

-----------------------------------------------------------------------------
(* _compress.py; Accept-Encoding is a sequence of [name, quality]          *)

Accepts(accepted, names) ==
  LET named == {i \in DOMAIN accepted : accepted[i].name \in names}
      stars == {i \in DOMAIN accepted : accepted[i].name = "*"}
  IN IF named # {} THEN \E i \in named : accepted[i].quality > 0
     ELSE stars # {} /\ accepted[CHOOSE i \in stars : \A j \in stars : j <= i].quality > 0

Negotiate(accepted) ==
  CASE HaveZstd /\ Accepts(accepted, {"zstd"}) -> "zstd"
    [] Accepts(accepted, {"gzip", "x-gzip"}) /\ ~(HaveZstd /\ Accepts(accepted, {"zstd"})) -> "gzip"
    [] OTHER -> Identity

ChooseEncoding(file, accepted, largest) ==
  IF file.type = "text" /\ file.size \in SmallestCoded..largest THEN Negotiate(accepted)
  ELSE Identity

-----------------------------------------------------------------------------
(* _digest.py: the algorithm that Want-Repr-Digest asks for                *)

Supported == <<"sha-256", "sha-512">>

\* _parse_preferences: the last member of a name counts.
Preference(members, name) ==
  LET given == {i \in DOMAIN members : members[i].name = name}
  IN IF given = {} THEN 0 ELSE members[CHOOSE i \in given : \A j \in given : j <= i].preference
ChooseAlgorithm(want) ==
  LET liked == {i \in DOMAIN Supported : Preference(want.members, Supported[i]) > 0}
      best == {i \in liked : \A j \in liked :
                 Preference(want.members, Supported[j]) <= Preference(want.members, Supported[i])}
  IN IF IsMissing(want) \/ liked = {} THEN "none"
     ELSE Supported[CHOOSE i \in best : \A j \in best : i <= j]

-----------------------------------------------------------------------------
(* The two ways to answer                                                  *)

Decided(status, offset, count, coding, tag) ==
  [status |-> status, offset |-> offset, count |-> count, coding |-> coding, tag |-> tag]

\* select_identity, over the tag of the representation that was chosen.
SelectIdentity(file, tag, request) ==
  LET usable == IfRangeMatches(request.ifRange, tag, file)
      range == ParseRange(IF usable THEN request.range ELSE Missing, file.size)
  IN CASE IsNotModified(tag, file, request.ifNoneMatch, request.ifModifiedSince) ->
            Decided(304, 0, 0, tag.coding, tag)
       [] OTHER -> CASE IsByteRange(range) -> Decided(206, range.start, range.length, Identity, tag)
                     [] "unsatisfiable" \in DOMAIN range -> Decided(416, 0, 0, Identity, tag)
                     [] OTHER -> Decided(200, 0, file.size, Identity, tag)

\* open_file for _serve_file: a range is a range of the file itself.
ChosenCoding(file, request) ==
  IF IsMissing(request.range) THEN ChooseEncoding(file, request.accepted, LargestCoded)
  ELSE Identity

\* _serve_file: 304, then the coded whole, then 416, 206 and 200; the digest is
\* computed before the head of the last two is written and may fail.
ServeFileAnswer(file, request, shrunk) ==
  LET coding == ChosenCoding(file, request)
      selection == SelectIdentity(file, Tag(file, coding), request)
  IN IF selection.status = 304 THEN selection
     ELSE IF coding # Identity THEN Decided(200, 0, file.size, coding, Tag(file, coding))
     ELSE IF selection.status # 416 /\ ChooseAlgorithm(request.want) # "none" /\ shrunk
          THEN Decided(500, 0, 0, Identity, Tag(file, Identity))
     ELSE selection

\* build_static, for HTTP/2 and HTTP/3: no ranges; large files are streamed.
BuildStatic(file, request) ==
  LET coding == ChooseEncoding(file, request.accepted, LesserSize(LargestCoded, Buffered))
      tag == Tag(file, coding)
  IN IF IsNotModified(tag, file, request.ifNoneMatch, request.ifModifiedSince)
     THEN Decided(304, 0, 0, coding, tag)
     ELSE Decided(200, 0, file.size, coding, tag)

-----------------------------------------------------------------------------
(* What the answers promise                                                *)

Asking(range, ifRange, ifNoneMatch, ifModifiedSince, accepted) ==
  [range |-> range, ifRange |-> ifRange, ifNoneMatch |-> ifNoneMatch,
   ifModifiedSince |-> ifModifiedSince, accepted |-> accepted, want |-> Missing]
Plainly(accepted) == Asking(Missing, Missing, Missing, Missing, accepted)
ServedFile(file, request) == ServeFileAnswer(file, request, FALSE)

\* The positions of a file that a field asks for, when it is a range at all.
AsksRange(field) ==
  /\ ~IsMissing(field) /\ field.single
  /\ IF field.first = NoDigits THEN field.last > 0
     ELSE field.first >= 0 /\ (field.last = NoDigits \/ field.last >= field.first)
Asked(field, size) ==
  {i \in 0..(size - 1) :
     IF field.first = NoDigits THEN i >= size - field.last
     ELSE i >= field.first /\ (field.last = NoDigits \/ i <= field.last)}

\* A range is served exactly; a field that is none is ignored, unless its
\* first position is already behind the end.
RangeServed(field, file, accepted) ==
  LET got == ServedFile(file, Asking(field, Missing, Missing, Missing, accepted))
  IN CASE AsksRange(field) /\ Asked(field, file.size) # {} ->
            /\ got.status = 206 /\ got.coding = Identity
            /\ got.offset..(got.offset + got.count - 1) = Asked(field, file.size)
       [] AsksRange(field) /\ Asked(field, file.size) = {} -> got.status = 416
       [] OTHER -> got.status = 200 \/ (got.status = 416 /\ field.first >= file.size)

\* A download that goes on with what it has of an old answer gets the rest of
\* the same octets, or the whole; a date tells versions apart by the second.
ResumesSame(old, new, accepted, validator, have) ==
  LET first == ServedFile(old, Plainly(accepted))
      ifRange == IF validator = "tag" THEN [tag |-> first.tag, weak |-> FALSE]
                 ELSE [date |-> old.mtime[1]]
      then == ServedFile(new, Asking([single |-> TRUE, first |-> have, last |-> NoDigits],
                                ifRange, Missing, Missing, accepted))
  IN then.status \in {206, 416} =>
       CASE validator = "tag" -> new.mtime = old.mtime /\ new.size = old.size /\ first.coding = then.coding
         [] OTHER -> new.mtime[1] <= old.mtime[1]

NamesOf(coding) == IF coding = "gzip" THEN {"gzip", "x-gzip"} ELSE {coding}

\* A cache that revalidates is told 304 only of the answer it would get now,
\* by either transport, and the coding is one that the client accepts.
Revalidates(old, new, accepted, other) ==
  LET cached == {ServedFile(old, Plainly(accepted)), BuildStatic(old, Plainly(accepted))}
      fresh(tag) == Asking(Missing, Missing, [tags |-> <<[tag |-> tag, weak |-> TRUE]>>],
                           [date |-> 3], other)
      now == ServedFile(new, Plainly(other))
      buffered == BuildStatic(new, Plainly(other))
  IN /\ \A c \in cached :
          /\ ServedFile(new, fresh(c.tag)).status = 304 <=> c.tag = now.tag
          /\ BuildStatic(new, fresh(c.tag)).status = 304 <=> c.tag = buffered.tag
     /\ new.size <= Buffered => buffered = now
     /\ \A a \in {now, buffered} :
          a.coding # Identity =>
            \E i \in DOMAIN other : other[i].quality > 0 /\ other[i].name \in NamesOf(a.coding) \union {"*"}

\* The digest is one that the client ranks highest of those the server has.
RanksHighest(want) ==
  LET chosen == ChooseAlgorithm(want)
  IN IF chosen = "none" THEN IsMissing(want) \/ \A n \in ToSet(Supported) : Preference(want.members, n) = 0
     ELSE \A n \in ToSet(Supported) : Preference(want.members, n) <= Preference(want.members, chosen)
=============================================================================
