-------------------------------- MODULE MCTftp --------------------------------
(* An instance of Tftp for TLC, and netascii on all short texts.             *)
EXTENDS Tftp, TLC

\* All texts of up to four octets, cut in two.
Texts == BoundedSeq({CR, LF, NUL, 65}, 4)
Cuts(text) == {<<SubSeq(text, 1, i), SubSeq(text, i + 1, Len(text))>> : i \in 1..(Len(text) - 1)}

\* What a client decodes: the text, but for a line end that was CR LF already.
Normal(text) ==
  FlattenSeq([i \in DOMAIN text |->
    IF text[i] = CR /\ OctetAt(text, i + 1) = <<LF>> THEN <<>> ELSE <<text[i]>>])

\* A text is sent in chunks as in one piece, is received as its client sent it,
\* line end for line end and with none bare, and goes out in the blocks whose
\* size tsize announces, wherever the chunks are cut (_tftp.py:98-246).
\* It depends on no variable: one state is enough.
NetasciiExact ==
  /\ ~stopped /\ Holding = {} /\ permits = MaxTransfers /\ file = Absent /\ HeldByNone
  /\ \A t \in Transfers : client[t] = "asking" /\ stage[t] = "none"
  => \A text \in Texts :
      /\ FromNetascii(ToNetascii(text)) = Normal(text)
      /\ EncodeAll(<<text>>) = ToNetascii(text) /\ DecodeAll(<<text>>) = FromNetascii(text)
      /\ \A chunks \in Cuts(text) :
           EncodeAll(chunks) = ToNetascii(text) /\ DecodeAll(chunks) = FromNetascii(text)
      /\ LET blocks == [n \in 1..(WireSize(<<text>>) \div 2 + 1) |-> Block(<<text>>, 2, n)]
         IN FlattenSeq(blocks) = ToNetascii(text) /\ Len(Last(blocks)) < 2
=============================================================================
