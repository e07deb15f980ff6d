--------------------------------- MODULE Tftp ---------------------------------
(***************************************************************************)
(* The TFTP server (_tftp.py): the loop that takes requests, the thread of *)
(* each transfer, the client of each, and the network between them, which  *)
(* loses, duplicates and reorders packets.  What was once sent may arrive  *)
(* at any later time, or never, until the block numbers have come round    *)
(* once (Fresh); so no packet is kept, only how far each side has come.    *)
(*                                                                         *)
(* A transfer is one request datagram; one that is duplicated makes two.   *)
(* Of a transfer:                                                          *)
(*   stage    none, dispatch, reading, locking, writing, committing, over; *)
(*            lost: it has a slot and no thread                            *)
(*   block    reading: the block that is sent (0: the OACK); writing: the  *)
(*            one expected (-1: neither was begun)                         *)
(*   acked    the last acknowledgement sent (-1: none was)                 *)
(*   client   asking, moving, done or failed; next: the block it expects,  *)
(*            or the last one it sent                                      *)
(* Writers share the locks of their targets with the requests of the HTTP  *)
(* server (WriteLocks).                                                    *)
(***************************************************************************)
EXTENDS WriteLocks, Integers, FiniteSets, SequencesExt

CONSTANTS Transfers,     \* bound: the request datagrams; the other Requests are PUTs
          MaxTransfers,  \* config.tftp_max_transfers
          Retries,       \* _RETRIES
          Wrap,          \* 2^16
          MinBlock, MaxBlock, DefaultBlock,
          Options,       \* bound: the block sizes that clients ask for
          Size,          \* bound: octets of the file read, and of the one written
          WriteLimit,    \* max_write_size
          Path,          \* the file that is written
          Absent,
          CR, LF, NUL    \* octets; every other one stands for itself

ASSUME OctetsAssumption == CR # LF /\ LF # NUL /\ CR # NUL

ASSUME TftpAssumption ==
  /\ Transfers \subseteq Requests /\ Path \in Targets
  /\ {MaxTransfers, Wrap, MinBlock} \subseteq Nat \ {0}
  /\ Retries \in Nat /\ Size \in Nat /\ WriteLimit \in Nat /\ Options \subseteq Int
  /\ MaxBlock \in Int /\ MinBlock <= MaxBlock /\ DefaultBlock \in MinBlock..MaxBlock
  /\ Absent \notin Requests \cup Int

-----------------------------------------------------------------------------
(* The netascii conversions: of a whole text, and of one that comes in     *)
(* chunks, which may end between the two octets of a line end.             *)

OctetAt(data, i) == IF i \in DOMAIN data THEN <<data[i]>> ELSE <<>>
FollowsCR(data, i) == OctetAt(data, i - 1) = <<CR>>

\* A line feed alone becomes CR LF, a carriage return alone CR NUL.
ToNetascii(data) ==
  FlattenSeq([i \in DOMAIN data |->
    CASE data[i] = CR -> <<CR>> \o IF OctetAt(data, i + 1) = <<LF>> THEN <<LF>> ELSE <<NUL>>
      [] data[i] = LF -> IF FollowsCR(data, i) THEN <<>> ELSE <<CR, LF>>
      [] OTHER -> <<data[i]>>])

FromNetascii(data) ==
  FlattenSeq([i \in DOMAIN data |->
    CASE data[i] = CR -> IF OctetAt(data, i + 1) = <<LF>> THEN <<LF>> ELSE <<CR>>
      [] data[i] \in {LF, NUL} -> IF FollowsCR(data, i) THEN <<>> ELSE <<data[i]>>
      [] OTHER -> <<data[i]>>])

-----------------------------------------------------------------------------
(* The same in chunks: a carriage return at the end of one is pending      *)

Idle == [pending |-> FALSE, out |-> <<>>]

EncodeOctet(s, octet) ==
  LET kept == IF s.pending /\ octet # LF THEN s.out \o <<CR, NUL>> ELSE s.out
  IN CASE octet = CR -> [pending |-> TRUE, out |-> kept]
       [] octet = LF -> [pending |-> FALSE, out |-> kept \o <<CR, LF>>]
       [] OTHER -> [pending |-> FALSE, out |-> Append(kept, octet)]

\* Mutant: what is pending at the end of a chunk is forgotten.
EncodeAlone(s, chunk) == FoldLeft(EncodeOctet, [Idle EXCEPT !.out = s.out], chunk)

\* An empty chunk, which only the end is, resolves what is pending.
EncodeChunk(s, chunk) ==
  IF chunk = <<>> /\ s.pending THEN [pending |-> FALSE, out |-> s.out \o <<CR, NUL>>]
  ELSE FoldLeft(EncodeOctet, s, chunk)
EncodeAll(chunks) == FoldLeft(EncodeChunk, Idle, Append(chunks, <<>>)).out

DecodeOctet(s, octet) ==
  CASE s.pending /\ octet = LF -> [pending |-> FALSE, out |-> Append(s.out, LF)]
    [] s.pending /\ octet = NUL -> [pending |-> FALSE, out |-> Append(s.out, CR)]
    [] OTHER -> LET kept == IF s.pending THEN Append(s.out, CR) ELSE s.out
                IN IF octet = CR THEN [pending |-> TRUE, out |-> kept]
                   ELSE [pending |-> FALSE, out |-> Append(kept, octet)]

DecodeChunk(s, chunk) == FoldLeft(DecodeOctet, s, chunk)
DecodeAll(chunks) ==
  LET s == FoldLeft(DecodeChunk, Idle, chunks)
  IN IF s.pending THEN Append(s.out, CR) ELSE s.out

\* wire_size and read: what is sent is the encoding, cut into blocks.
WireSize(chunks) == Len(EncodeAll(chunks))
Block(chunks, size, n) ==
  LET out == EncodeAll(chunks)
      last == IF n * size < Len(out) THEN n * size ELSE Len(out)
  IN SubSeq(out, (n - 1) * size + 1, last)

-----------------------------------------------------------------------------
(* Transfers                                                               *)

VARIABLES permits, stopped,               \* stopped: the loop that takes requests is over
          stage, kind, option, blksize, block, tries, acked, temp,
          client, size, next, received,   \* received: the octets that a client read
          file, committed

netVars == <<permits, stopped, file, committed, held>>
askVars == <<kind, option, blksize>>
clientVars == <<client, size, next, received>>
tftpVars == <<netVars, askVars, stage, block, tries, acked, temp, clientVars>>

NoFile == <<-1>>   \* of temp: there is none

TftpInit ==
  /\ permits = MaxTransfers /\ stopped = FALSE /\ file \in {Absent, Path} /\ committed = {}
  /\ HeldByNone
  /\ stage = [t \in Transfers |-> "none"] /\ kind = [t \in Transfers |-> "read"]
  /\ option = [t \in Transfers |-> Absent] /\ blksize = [t \in Transfers |-> DefaultBlock]
  /\ block = [t \in Transfers |-> -1] /\ tries = [t \in Transfers |-> 0]
  /\ acked = [t \in Transfers |-> -1] /\ temp = [t \in Transfers |-> NoFile]
  /\ client = [t \in Transfers |-> "asking"] /\ size = [t \in Transfers |-> DefaultBlock]
  /\ next = [t \in Transfers |-> 1] /\ received = [t \in Transfers |-> <<>>]

Content == [i \in 1..Size |-> i]
Part(n, b) == SubSeq(Content, (n - 1) * b + 1, IF n * b < Size THEN n * b ELSE Size)

\* _negotiate: a block size is clamped.
Negotiated(o) ==
  IF o = Absent THEN DefaultBlock
  ELSE IF o < MinBlock THEN MinBlock ELSE IF o > MaxBlock THEN MaxBlock ELSE o

\* A packet numbered i answers one numbered n, and is not older than the numbers.
SameNumber(i, n) == i % Wrap = n % Wrap
Fresh(i, n) == i > n - Wrap

Answers(i, n) == Fresh(i, n) /\ SameNumber(i, n)

-----------------------------------------------------------------------------
(* Requests (_serve, _dispatch)                                            *)

\* The slot is taken before the thread is started.  The loop has no clause for
\* a thread that cannot be: it ends, and the slot is lost with it.
Arrive(t) ==
  /\ stage[t] = "none" /\ ~stopped /\ permits > 0 /\ permits' = permits - 1
  /\ \E k \in {"read", "write"}, o \in Options \cup {Absent} :
       /\ kind' = [kind EXCEPT ![t] = k] /\ option' = [option EXCEPT ![t] = o]
       /\ blksize' = [blksize EXCEPT ![t] = Negotiated(o)]
  /\ \/ stage' = [stage EXCEPT ![t] = "dispatch"] /\ UNCHANGED stopped
     \/ stage' = [stage EXCEPT ![t] = "lost"] /\ stopped' = TRUE
  /\ UNCHANGED <<file, committed, held, block, tries, acked, temp, clientVars>>

\* "server busy"; the loop ends when there is no socket to say so.
Busy(t) ==
  /\ stage[t] = "none" /\ ~stopped /\ permits = 0 /\ stage' = [stage EXCEPT ![t] = "over"]
  /\ stopped' \in BOOLEAN
  /\ UNCHANGED <<permits, file, committed, held, askVars, block, tries, acked, temp, clientVars>>

Stop == /\ ~stopped /\ stopped' = TRUE
        /\ UNCHANGED <<permits, file, committed, held, askVars, stage, block, tries, acked, temp, clientVars>>

\* The thread ends: its temporary file goes, its lock and its slot come back.
End(t) ==
  /\ stage' = [stage EXCEPT ![t] = "over"] /\ permits' = permits + 1
  /\ temp' = [temp EXCEPT ![t] = NoFile]
  /\ held' = [held EXCEPT ![t] = {}]
  /\ UNCHANGED <<stopped, askVars, block, tries, clientVars>>

Fail(t) == End(t) /\ UNCHANGED <<file, committed, acked>>

\* Malformed, an unknown mode, no such file, outside the root, writes disabled.
Refuse(t) == stage[t] = "dispatch" /\ Fail(t)

Read(t) ==
  /\ stage[t] = "dispatch" /\ kind[t] = "read"
  /\ stage' = [stage EXCEPT ![t] = "reading"]
  /\ block' = [block EXCEPT ![t] = IF option[t] = Absent THEN 1 ELSE 0]
  /\ UNCHANGED <<netVars, askVars, tries, acked, temp, clientVars>>

Write(t) ==
  /\ stage[t] = "dispatch" /\ kind[t] = "write" /\ stage' = [stage EXCEPT ![t] = "locking"]
  /\ UNCHANGED <<netVars, askVars, block, tries, acked, temp, clientVars>>

-----------------------------------------------------------------------------
(* A transfer                                                              *)

\* Mutant: a packet that is not the one does not count.
AgainForever(t) ==
  /\ stage[t] \in {"reading", "writing"} /\ tries' = [tries EXCEPT ![t] = 1 - @]
  /\ UNCHANGED <<netVars, askVars, stage, block, acked, temp, clientVars>>

\* A timeout, a packet that is not the one, or one of a stranger: it is sent
\* again, or given up.
Again(t) ==
  /\ stage[t] \in {"reading", "writing"}
  /\ IF tries[t] = Retries THEN Fail(t)
     ELSE /\ tries' = [tries EXCEPT ![t] = @ + 1]
          /\ UNCHANGED <<netVars, askVars, stage, block, acked, temp, clientVars>>

\* An ERROR of the client, or an error of the disk or the socket.
Abandon(t) == stage[t] \in {"reading", "writing", "committing"} /\ Fail(t)

Advance(t) == block' = [block EXCEPT ![t] = @ + 1] /\ tries' = [tries EXCEPT ![t] = 0]

\* What a client has acknowledged: a reader what it has taken, a writer nothing.
Acknowledged(t) ==
  IF client[t] = "asking" THEN {}
  ELSE 1..(next[t] - 1) \cup (IF option[t] = Absent THEN {} ELSE {0})

SendBlocks(t) ==
  /\ stage[t] = "reading" /\ \E i \in Acknowledged(t) : Answers(i, block[t])
  /\ IF block[t] > 0 /\ Len(Part(block[t], blksize[t])) < blksize[t] THEN Fail(t)
     ELSE /\ Advance(t) /\ UNCHANGED <<netVars, askVars, stage, acked, temp, clientVars>>

\* Nobody gave the lock back in time, or the file is there: "already exists".
LockTimeout(t) == stage[t] = "locking" /\ ~Free(Path) /\ Fail(t)
AlreadyThere(t) == stage[t] = "locking" /\ Free(Path) /\ file # Absent /\ Fail(t)

\* Mutant: the target is looked at, and its lock given back before the transfer.
Unlocked(t) ==
  /\ stage[t] = "locking" /\ Free(Path) /\ file = Absent
  /\ stage' = [stage EXCEPT ![t] = "writing"] /\ block' = [block EXCEPT ![t] = 1]
  /\ acked' = [acked EXCEPT ![t] = 0] /\ temp' = [temp EXCEPT ![t] = <<>>]
  /\ UNCHANGED <<netVars, askVars, tries, clientVars>>

LockTarget(t) ==
  /\ stage[t] = "locking" /\ Take(t, Path) /\ file = Absent
  /\ stage' = [stage EXCEPT ![t] = "writing"] /\ block' = [block EXCEPT ![t] = 1]
  /\ acked' = [acked EXCEPT ![t] = 0] /\ temp' = [temp EXCEPT ![t] = <<>>]
  /\ UNCHANGED <<permits, stopped, file, committed, askVars, tries, clientVars>>

\* Mutant: the last block is acknowledged when it has come.
AckedAtOnce(t, last) == block[t]

\* The acknowledgement of the last block waits for the rename.
AckedNow(t, last) == IF last THEN acked[t] ELSE block[t]

\* The block came; what is longer than allowed ends the transfer.
ReceiveBlock(t) ==
  /\ stage[t] = "writing" /\ client[t] # "asking"
  /\ \E i \in 1..next[t] :
       /\ Answers(i, block[t])
       /\ LET payload == Part(i, size[t])
              last == Len(payload) < blksize[t]
          IN IF Len(temp[t]) + Len(payload) > WriteLimit THEN Fail(t)
             ELSE /\ temp' = [temp EXCEPT ![t] = @ \o payload]
                  /\ acked' = [acked EXCEPT ![t] = AckedNow(t, last)]
                  /\ IF last THEN stage' = [stage EXCEPT ![t] = "committing"] /\ UNCHANGED <<block, tries>>
                     ELSE Advance(t) /\ UNCHANGED stage
                  /\ UNCHANGED <<netVars, askVars, clientVars>>

\* Renamed, then acknowledged.
CommitFile(t) ==
  /\ stage[t] = "committing" /\ file' = t /\ committed' = committed \cup {t}
  /\ acked' = [acked EXCEPT ![t] = block[t]] /\ End(t)

\* A PUT to the same path, from its lock to its rename.
PutStarts(r) ==
  /\ r \in Requests \ Transfers /\ Take(r, Path)
  /\ UNCHANGED <<permits, stopped, file, committed, askVars, stage, block, tries, acked, temp, clientVars>>
PutEnds(r) ==
  /\ r \in Requests \ Transfers /\ GiveBack(r, Path) /\ file' \in {file, r}
  /\ UNCHANGED <<permits, stopped, committed, askVars, stage, block, tries, acked, temp, clientVars>>

-----------------------------------------------------------------------------
(* Its client                                                              *)

Started(t) == stage[t] \notin {"none", "dispatch", "locking"}

\* The OACK, the first block or the first ACK.
ClientStarts(t) ==
  /\ client[t] = "asking" /\ Started(t)
  /\ IF kind[t] = "write" THEN acked[t] >= 0 ELSE block[t] >= 0 /\ option[t] # Absent
  /\ client' = [client EXCEPT ![t] = "moving"] /\ size' = [size EXCEPT ![t] = blksize[t]]
  /\ UNCHANGED <<netVars, askVars, stage, block, tries, acked, temp, next, received>>

Move(t, last) ==
  /\ client' = [client EXCEPT ![t] = IF last THEN "done" ELSE "moving"]
  /\ UNCHANGED <<netVars, askVars, stage, block, tries, acked, temp, size>>

ClientReads(t) ==
  /\ kind[t] = "read" /\ Started(t)
  /\ client[t] = "moving" \/ (client[t] = "asking" /\ option[t] = Absent)
  /\ \E i \in 1..block[t] :
       /\ Answers(i, next[t])
       /\ LET payload == Part(i, blksize[t])
          IN /\ received' = [received EXCEPT ![t] = @ \o payload]
             /\ Move(t, Len(payload) < size[t])
  /\ next' = [next EXCEPT ![t] = @ + 1]

ClientWrites(t) ==
  /\ kind[t] = "write" /\ client[t] = "moving"
  /\ \E i \in 0..acked[t] : Answers(i, next[t])
  /\ LET last == Len(Part(next[t], size[t])) < size[t]
     IN Move(t, last) /\ next' = [next EXCEPT ![t] = IF last THEN @ ELSE @ + 1]
  /\ UNCHANGED received

\* One that fails before it has had an answer is one that asks for ever.
ClientFails(t) ==
  /\ client[t] = "moving" /\ client' = [client EXCEPT ![t] = "failed"]
  /\ UNCHANGED <<netVars, askVars, stage, block, tries, acked, temp, size, next, received>>

TransferStep(t) == Again(t) \/ SendBlocks(t) \/ ReceiveBlock(t) \/ CommitFile(t)
LockStep(t) == LockTimeout(t) \/ AlreadyThere(t) \/ LockTarget(t)
Dispatch(t) == Refuse(t) \/ Read(t) \/ Write(t)

TftpNext ==
  \/ Stop
  \/ \E t \in Transfers :
       \/ Arrive(t) \/ Busy(t) \/ Dispatch(t) \/ LockStep(t) \/ TransferStep(t) \/ Abandon(t)
       \/ ClientStarts(t) \/ ClientReads(t) \/ ClientWrites(t) \/ ClientFails(t)
  \/ \E r \in Requests : PutStarts(r) \/ PutEnds(r)

\* The thread of a transfer runs: a wait for the network or for a lock ends.
Fairness ==
  \A t \in Transfers : WF_tftpVars(Dispatch(t)) /\ WF_tftpVars(LockStep(t)) /\ WF_tftpVars(TransferStep(t))
TftpSpec == TftpInit /\ [][TftpNext]_tftpVars
TftpFairSpec == TftpSpec /\ Fairness

-----------------------------------------------------------------------------
(* Properties                                                              *)

TftpTypeOK ==
  /\ permits \in 0..MaxTransfers /\ stopped \in BOOLEAN
  /\ stage \in [Transfers -> {"none", "dispatch", "reading", "locking", "writing", "committing", "over", "lost"}]
  /\ kind \in [Transfers -> {"read", "write"}] /\ option \in [Transfers -> Options \cup {Absent}]
  /\ blksize \in [Transfers -> MinBlock..MaxBlock] /\ size \in [Transfers -> MinBlock..MaxBlock]
  /\ block \in [Transfers -> Nat \cup {-1}] /\ tries \in [Transfers -> 0..Retries]
  /\ acked \in [Transfers -> Nat \cup {-1}] /\ next \in [Transfers -> Nat]
  /\ client \in [Transfers -> {"asking", "moving", "done", "failed"}]
  /\ temp \in [Transfers -> Seq(Int)] /\ received \in [Transfers -> Seq(Int)]
  /\ file \in Requests \cup {Absent, Path} /\ committed \subseteq Transfers

Holding == {t \in Transfers : stage[t] \notin {"none", "over"}}
Lost == {t \in Transfers : stage[t] = "lost"}

\* However a transfer ends, its slot, its lock and its temporary file do: they
\* are those of the threads that run.  One slot at most is lost, and only with
\* the loop that gives them out.
Accounted ==
  /\ TftpTypeOK
  /\ permits + Cardinality(Holding) = MaxTransfers
  /\ \A t \in Lost : stopped /\ Lost = {t}
  /\ \A t \in Transfers :
       LET writes == stage[t] \in {"writing", "committing"}
       IN (temp[t] # NoFile <=> writes) /\ (held[t] # {} <=> writes)

\* A client that reads has at any time the beginning of the file, and the whole
\* of it when it is done, whatever the network did and as often as the block
\* numbers came round.  What is written so far is the beginning of what the
\* client sends; a file appears only when it is whole, and a client is told so
\* only then.
TransfersExact ==
  \A t \in Transfers :
    IF kind[t] = "read"
    THEN IsPrefix(received[t], Content) /\ (client[t] = "done" => received[t] = Content)
    ELSE /\ temp[t] # NoFile => IsPrefix(temp[t], Content)
         /\ stage[t] = "committing" => temp[t] = Content
         /\ client[t] = "done" => t \in committed

\* Whatever the network does, a transfer moves the octets of its file, tells its
\* client the truth and keeps nothing behind (_tftp.py:331, :334, :428, :500).
TransfersSound == Accounted /\ TransfersExact

\* A transfer never takes the place of a file, though one was not there when it
\* began and PUTs go on meanwhile.
NeverReplaces == [][committed' # committed => file = Absent]_tftpVars

\* Every transfer gives its slot back, whatever its client does.
TransfersEnd == \A t \in Transfers : stage[t] = "dispatch" ~> stage[t] = "over"
=============================================================================
