--------------------------------- MODULE MCH2 ---------------------------------
(* An instance of H2 for TLC, and the codecs on bounded inputs.              *)
EXTENDS H2, TLC

MCStatic == <<<<":method", "GET">>, <<"accept", "">>>>
MCPaths == {<<":path", "a">>}
MCOthers == {<<"x", "y">>}
\* An entry fills the table.
MCFieldSize(f) == 2

\* Symbols 1 to 3, and EOS, which is longer than any padding.
MCHuffman == <<<<0>>, <<1, 0>>, <<1, 1, 0>>, <<1, 1, 1, 1, 1, 1, 1, 1, 1>>>>

-----------------------------------------------------------------------------
\* Every integer is read as it was written, from 1 to 4 octets and wherever a
\* prefix, an octet or the next one overflows (hpack.py:414-484).
Boundaries == UNION {(m - 2)..(m + 2) : m \in {2, 127, 128, 159, 255, 16384, 16511, 2097152}}
IntegersExact ==
  \A v \in Boundaries, bits \in 1..8, tail \in {<<>>, <<0>>, <<200>>} :
    LET octets == EncodeInteger(v, bits)
    IN DecodeInteger(octets \o tail, bits) =
         [error |-> FALSE, value |-> v, octets |-> Len(octets)]

\* Huffman-coded text is read as it was written; no two texts share a coding,
\* and what is no coding of a text is refused (hpack.py:492-563).
Bits(n) == [1..n -> {0, 1}]
HuffmanExact ==
  /\ \A text \in BoundedSeq(1..3, 4) :
       HuffmanDecode(HuffmanEncode(text)) = [error |-> FALSE, value |-> text]
  /\ \A bits \in Bits(8) :
       LET d == HuffmanDecode(bits) IN d.error \/ HuffmanEncode(d.value) = bits

\* What the encoder writes, a peer whose table holds anything reads.
Tables == {[entries |-> e, max |-> 4] : e \in BoundedSeq(Fields, 2)}
EncoderReadable ==
  \A headers \in BoundedSeq(Fields \cup ToSet(StaticTable), 2), t \in Tables :
    Decode(t, Encode(headers)).headers = headers

\* Whatever a block does to it, a table stays within its size, and that within
\* ours; a size is only changed before the first field (hpack.py:728-781).
Representations ==
  {SizeUpdate(n) : n \in 0..3} \cup {Indexed(1), Indexed(3)}
    \cup {Literal(0, <<"x", "y">>, TRUE)}
UpdatesInTime ==
  \A reps \in BoundedSeq(Representations, 4) :
    LET d == Decode(NewTable, reps)
        late == \E i, j \in DOMAIN reps :
                  i < j /\ reps[i].rep /= "update" /\ reps[j].rep = "update"
    IN /\ TableSize(d.table.entries) <= d.table.max
       /\ d.table.max <= SizeLimit
       /\ late => d.error

\* The payload a handler gets is a part of the frame.
RawFrames ==
  [type : FrameTypes, stream : {0, 1}, length : 0..9, padded : BOOLEAN, padding : 0..9,
   priority : {FALSE}, ack : BOOLEAN, increment : {0, 1}]
BodiesWithinFrames ==
  \A f \in RawFrames : Accepted(f) => Delivered(f) \in 0..f.length

\* What the server sends, a peer with the same limit accepts and reads whole.
Sent == [type : {"DATA", "HEADERS", "SETTINGS", "WINDOW_UPDATE", "RST_STREAM", "GOAWAY", "PING"},
         stream : {0, 1}, payload : 0..MaxFrame, padded : {FALSE}, priority : BOOLEAN,
         ack : BOOLEAN, increment : {1}]
SerializedReadable ==
  \A f \in Sent :
    LET raw == Serialize(f)
    IN (StreamAllowed(raw) /\ raw.length <= MaxFrame) =>
         /\ Accepted(raw)
         /\ f.type \in {"DATA", "HEADERS"} => Delivered(raw) = f.payload

\* A header is read as it was built, up to the widest length and stream, with
\* the reserved bit set or not (frames.py:331-367).
Widest(bits) == {0, 1, 255, 256, 65535, 65536, 2 ^ (bits - 1) - 1, 2 ^ (bits - 1) + (2 ^ (bits - 1) - 1)}
HeadersRead ==
  /\ \A length \in Widest(24), stream \in Widest(31), type \in {0, 255}, reserved \in {0, 128} :
       LET h == BuildHeader(length, type, 255 - type, stream)
       IN ParseHeader([h EXCEPT ![6] = @ + reserved])
            = [length |-> length, type |-> type, flags |-> 255 - type, stream |-> stream]
  /\ BuildHeader(16777216, 0, 0, 0) = NoHeader

\* However a stream of frames is cut, the reader hands out the same frames, and
\* a frame that is too long ends it when its header is there.
OctetsOf(lengths) ==
  FlattenSeq([i \in DOMAIN lengths |-> BuildHeader(lengths[i], i, 0, 1) \o [k \in 1..lengths[i] |-> i]])
ReassembledExactly ==
  \A lengths \in BoundedSeq(0..3, 2) :
    LET octets == OctetsOf(lengths)
        start == [buffer |-> <<>>, frames |-> <<>>, error |-> FALSE]
        whole == Feed(start, octets, 2)
        good == SelectInSeq(Append(lengths, 3), LAMBDA n : n = 3) - 1
    IN /\ Len(whole.frames) = good /\ (whole.error <=> good < Len(lengths))
       /\ \A i \in 1..good : whole.frames[i].payload = [k \in 1..lengths[i] |-> i]
       /\ \A n, m \in 0..Len(octets) : n <= m =>
            LET cut == Feed(Feed(Feed(start, SubSeq(octets, 1, n), 2), SubSeq(octets, n + 1, m), 2),
                            SubSeq(octets, m + 1, Len(octets)), 2)
            IN cut.frames = whole.frames /\ cut.error = whole.error

\* All of them depend on no variable: the initial state is enough.
CodecsExact ==
  reader = "preface" =>
    /\ IntegersExact /\ HuffmanExact /\ EncoderReadable /\ UpdatesInTime
    /\ BodiesWithinFrames /\ SerializedReadable /\ HeadersRead /\ ReassembledExactly

\* A client's fields, in whatever frames and codings they come, are read as it
\* wrote them, by a decoder whose table follows the client's; integers, strings
\* and payloads are exact at every boundary (connection.py:285, hpack.py:414).
FieldsExact == HeadersAsSent /\ CodecsExact
=============================================================================
