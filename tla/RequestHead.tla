----------------------------- MODULE RequestHead -----------------------------
(***************************************************************************)
(* How a request head is judged (_request.py, _body.py): the rules for the *)
(* version, the Host field, the framing of the body and the persistence of *)
(* the connection.                                                         *)
(***************************************************************************)
EXTENDS Integers, Sequences, SequencesExt, FiniteSets

Error(status) == [error |-> status]
IsError(result) == "error" \in DOMAIN result

-----------------------------------------------------------------------------
(* The request line and what it says of the connection                     *)

\* A version is two numbers, or a word that is none.
AtLeast(version, other) ==
  version[1] > other[1] \/ (version[1] = other[1] /\ version[2] >= other[2])
Implicit == <<0, 9>>   \* default_request_version, of a line of two words
NoNumber == <<>>

\* _version_policy: whether the connection closes, or the error.
VersionPolicy(version) ==
  CASE version = NoNumber -> [error |-> 400, close |-> TRUE]
    [] version # NoNumber /\ AtLeast(version, <<2, 0>>) -> [error |-> 505, close |-> FALSE]
    [] OTHER -> [close |-> ~AtLeast(version, <<1, 1>>)]

\* A request line by its words: parse_request_line.
RequestLine(words) ==
  LET policy == VersionPolicy(Last(words))
  IN CASE words = <<>> -> [empty |-> TRUE]
       [] Len(words) >= 3 /\ IsError(policy) -> policy
       [] Len(words) > 3 /\ ~IsError(policy) -> [error |-> 400, close |-> policy.close]
       [] Len(words) = 3 /\ ~IsError(policy) ->
            [version |-> Last(words), close |-> policy.close, fields |-> TRUE]
       [] Len(words) = 2 /\ words[1] = "GET" ->
            [version |-> Implicit, close |-> TRUE, fields |-> FALSE]
       [] OTHER -> [error |-> 400, close |-> TRUE]

\* Host must be there once from HTTP/1.1 on; a host is "good" or not.
HostAllowed(version, hosts) == version \in {<<0, 9>>, <<1, 0>>} \/ hosts = <<"good">>

ClosePolicy(line, connection) ==
  CASE connection = "close" -> TRUE
    [] connection = "keep-alive" -> FALSE
    [] OTHER -> line.close
ContinuePolicy(line, expect) == expect = "100-continue" /\ AtLeast(line.version, <<1, 1>>)

-----------------------------------------------------------------------------
(* The framing of the body                                                 *)

\* A field line is a sequence of items, each a text and the number it spells.
Empty == [text |-> "", value |-> -1]
NotANumber == [text |-> "x", value |-> -1]

Unlimited == -1
TooLong(length, maxSize) == maxSize # Unlimited /\ length > maxSize

SameLength(lengths) == IF Cardinality(ToSet(lengths)) = 1 THEN lengths[1] ELSE NotANumber

ParseFraming(contentLengths, transferEncodings, maxSize, allowChunked) ==
  LET lengths == FlattenSeq(contentLengths)
      encodings == FlattenSeq(transferEncodings)
      length == SameLength(lengths).value
  IN CASE Empty \in ToSet(lengths) \/ "" \in ToSet(encodings) -> Error(400)
       [] OTHER ->
            CASE encodings # <<>> /\ lengths # <<>> -> Error(400)
              [] encodings # <<>> /\ lengths = <<>> ->
                   IF encodings # <<"chunked">> \/ ~allowChunked THEN Error(501)
                   ELSE [length |-> 0, chunked |-> TRUE]
              [] encodings = <<>> /\ lengths = <<>> -> [length |-> 0, chunked |-> FALSE]
              [] OTHER -> CASE length < 0 -> Error(400)
                            [] length >= 0 /\ TooLong(length, maxSize) -> Error(413)
                            [] OTHER -> [length |-> length, chunked |-> FALSE]

-----------------------------------------------------------------------------
(* The whole head: finalize_request_head                                   *)

\* fields: hosts, lengths, encodings, connection, expect.
Finalize(line, fields, maxSize, allowChunked) ==
  LET body == ParseFraming(fields.lengths, fields.encodings, maxSize, allowChunked)
  IN CASE ~HostAllowed(line.version, fields.hosts) -> Error(400)
       [] HostAllowed(line.version, fields.hosts) /\ IsError(body) -> body
       [] OTHER -> [length |-> body.length, chunked |-> body.chunked,
                    close |-> ClosePolicy(line, fields.connection),
                    continue |-> ContinuePolicy(line, fields.expect)]
=============================================================================
