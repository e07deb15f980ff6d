--------------------------------- MODULE Hpack --------------------------------
(***************************************************************************)
(* Header compression of HTTP/2 (http2/hpack.py): the integer and Huffman  *)
(* codecs, the dynamic table, the decoder the server keeps for a           *)
(* connection, and its encoder, which never refers to a dynamic table.     *)
(*                                                                         *)
(* A field is <<name, value>>.  A header block is a sequence of            *)
(* representations; octets are modelled where a codec is about them.       *)
(***************************************************************************)
EXTENDS Integers, Sequences, SequencesExt

CONSTANTS StaticTable,       \* STATIC_TABLE, a sequence of fields
          FieldSize(_),      \* _entry_size of a field
          SizeLimit,         \* max_dynamic_size, 4096 in the code
          MaxHeaderList,     \* max_header_list_size
          HuffmanCode,       \* _HUFFMAN_CODES: a sequence of bits for each symbol
          EOS                \* the symbol that ends padding and is never sent

ASSUME HpackAssumption ==
  /\ SizeLimit \in Nat /\ MaxHeaderList \in Nat
  /\ EOS \in DOMAIN HuffmanCode

-----------------------------------------------------------------------------
(* Integers (RFC 7541, 5.1)                                                *)

MaxIntegerOctets == 6

Continuation[n \in Nat] ==
  IF n < 128 THEN <<n>> ELSE <<(n % 128) + 128>> \o Continuation[n \div 128]

EncodeInteger(value, bits) ==
  LET maxPrefix == 2^bits - 1
  IN IF value < maxPrefix THEN <<value>> ELSE <<maxPrefix>> \o Continuation[value - maxPrefix]

Malformed == [error |-> TRUE]

\* The value at the head of data, whose prefix shares its octet with flags,
\* and how many octets it takes.
DecodeInteger(data, bits) ==
  LET maxPrefix == 2^bits - 1
      ends == {i \in 2..Len(data) : data[i] < 128}
      last == CHOOSE i \in ends : \A j \in ends : i <= j
      value[i \in 1..Len(data)] ==
        IF i = 1 THEN maxPrefix ELSE value[i - 1] + (data[i] % 128) * 128^(i - 2)
  IN CASE data = <<>> -> Malformed
       [] data /= <<>> /\ data[1] % 2^bits < maxPrefix ->
            [error |-> FALSE, value |-> data[1] % 2^bits, octets |-> 1]
       [] OTHER -> IF ends = {} \/ last - 1 > MaxIntegerOctets THEN Malformed
                   ELSE [error |-> FALSE, value |-> value[last], octets |-> last]

-----------------------------------------------------------------------------
(* Huffman coding (RFC 7541, 5.2).  Octets are counted in bits: a string   *)
(* of bits on the wire is a multiple of eight long.                        *)

HuffmanEncode(symbols) ==
  LET bits == FlattenSeq([i \in DOMAIN symbols |-> HuffmanCode[symbols[i]]])
  IN bits \o [i \in 1..((8 - (Len(bits) % 8)) % 8) |-> 1]

\* The walk down the code tree, one bit at a time: the symbols so far and the
\* bits of the code under way.
HuffmanStep(walk, bit) ==
  LET path == Append(walk.path, bit)
      leaf == {s \in DOMAIN HuffmanCode : HuffmanCode[s] = path}
  IN IF leaf = {} THEN [walk EXCEPT !.path = path]
     ELSE LET s == CHOOSE s \in leaf : TRUE
          IN [out |-> Append(walk.out, s), path |-> <<>>, error |-> walk.error \/ s = EOS]

\* At most seven bits, and the first of those of EOS.
PaddingValid(path) == Len(path) <= 7 /\ IsPrefix(path, HuffmanCode[EOS])

HuffmanDecode(bits) ==
  LET walk == FoldLeft(HuffmanStep, [out |-> <<>>, path |-> <<>>, error |-> FALSE], bits)
  IN IF walk.error \/ (walk.path /= <<>> /\ ~PaddingValid(walk.path)) THEN Malformed
     ELSE [error |-> FALSE, value |-> walk.out]

-----------------------------------------------------------------------------
(* The dynamic table: its entries, newest first, and its maximum size      *)

NewTable == [entries |-> <<>>, max |-> SizeLimit]

TableSize(entries) == FoldLeft(LAMBDA sum, f : sum + FieldSize(f), 0, entries)

\* What is left when the oldest entries are evicted until the rest fits.
Fitting(entries, room) ==
  LET fits == {n \in 0..Len(entries) : TableSize(SubSeq(entries, 1, n)) <= room}
  IN SubSeq(entries, 1, CHOOSE n \in fits : \A m \in fits : m <= n)

\* DynamicTable.add: an entry that is larger than the table empties it.
Add(table, field) ==
  [table EXCEPT !.entries =
     IF FieldSize(field) > table.max THEN <<>>
     ELSE <<field>> \o Fitting(@, table.max - FieldSize(field))]

SetMaxSize(table, max) == [entries |-> Fitting(table.entries, max), max |-> max]

\* Indices run over the static table, then the dynamic one.
ValidIndex(index, table) == index \in 1..(Len(StaticTable) + Len(table.entries))
Resolve(index, table) == (StaticTable \o table.entries)[index]

-----------------------------------------------------------------------------
(* Decoder.decode: one representation at a time; an error ends the block   *)

Indexed(index) == [rep |-> "indexed", index |-> index]
\* A literal whose name is at an index (0: in the literal itself).
Literal(index, field, incremental) ==
  [rep |-> "literal", index |-> index, field |-> field, incremental |-> incremental]
SizeUpdate(size) == [rep |-> "update", size |-> size]

DecodeField(state, field, table) ==
  LET total == state.total + FieldSize(field)
  IN [table |-> table, headers |-> Append(state.headers, field), total |-> total,
      error |-> total > MaxHeaderList]

DecodeStep(state, r) ==
  LET failed == [state EXCEPT !.error = TRUE]
      field == <<IF r.index = 0 THEN r.field[1] ELSE Resolve(r.index, state.table)[1], r.field[2]>>
  IN CASE state.error -> state
       [] ~state.error /\ r.rep = "indexed" ->
            IF ValidIndex(r.index, state.table)
              THEN DecodeField(state, Resolve(r.index, state.table), state.table)
              ELSE failed
       [] ~state.error /\ r.rep = "literal" ->
            IF r.index = 0 \/ ValidIndex(r.index, state.table)
              THEN DecodeField(state, field,
                               IF r.incremental THEN Add(state.table, field) ELSE state.table)
              ELSE failed
       [] OTHER ->
            IF state.headers = <<>> /\ r.size <= SizeLimit
              THEN [state EXCEPT !.table = SetMaxSize(@, r.size)]
              ELSE failed

Decode(table, block) ==
  FoldLeft(DecodeStep, [table |-> table, headers |-> <<>>, total |-> 0, error |-> FALSE], block)

-----------------------------------------------------------------------------
(* Encoder.encode                                                          *)

StaticIndexes(field) == {i \in DOMAIN StaticTable : StaticTable[i] = field}
NameIndexes(name) == {i \in DOMAIN StaticTable : StaticTable[i][1] = name}
FirstIndex(indexes) == CHOOSE i \in indexes : \A j \in indexes : i <= j

EncodeField(field) ==
  IF StaticIndexes(field) /= {} THEN Indexed(FirstIndex(StaticIndexes(field)))
  ELSE LET names == NameIndexes(field[1])
       IN Literal(IF names = {} THEN 0 ELSE FirstIndex(names), field, TRUE)

Encode(headers) == [i \in DOMAIN headers |-> EncodeField(headers[i])]

=============================================================================
