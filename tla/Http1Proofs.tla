----------------------------- MODULE Http1Proofs -----------------------------
(***************************************************************************)
(* What Http1 promises, for every set of requests and every limit: the     *)
(* loop reads the next head where it begins (InStep), each request has one *)
(* response before the next is read (OneAnswerEach), and nothing follows a *)
(* response that announced the end (LastIsLast).  Behind it, what Http3    *)
(* and the cache that it shares with Http1 promise, for every number of    *)
(* threads, keys, sizes, connections and streams: CacheExact and           *)
(* RepliesWhole.  At the end, what the answers for a file promise.         *)
(***************************************************************************)
EXTENDS Http1, Http3, StaticFile, FiniteSetTheorems, FunctionTheorems, SequenceTheorems, WellFoundedInduction, TLAPS

Units == Judgements \union {Octet}

\* Behind the unit at i (or at the front, if i is 0) come n octets of a body,
\* those that the client owes included, and then a head or nothing.
Between(s, o, i, n) ==
  \/ i + n < Len(s) /\ s[i + n + 1] # Octet /\ \A j \in (i + 1)..(i + n) : s[j] = Octet
  \/ i + n = Len(s) + o /\ \A j \in (i + 1)..Len(s) : s[j] = Octet

\* Each head is followed by the body that it declares.
FramedStream(s, o) == \A i \in Heads(s) : Between(s, o, i, s[i].follows)
Framed == FramedStream(stream, owed)

\* Where the thread is in the stream.
Placed ==
  /\ pc \in {"begin", "wait", "line"} => Between(stream, owed, 0, 0)
  /\ pc = "line" => stream # <<>>
  /\ pc = "dispatch" => Between(stream, owed, 0, length)
  /\ pc \in {"handle", "read", "answer", "drain", "rejected"} => Between(stream, owed, 0, remaining)
  /\ pc = "after" => closing \/ Between(stream, owed, 0, 0)

\* Who leaves octets unread, WSGI apart, has marked the connection.
Marked ==
  /\ pc = "dispatch" => ~forced
  /\ pc \in {"handle", "read", "answer"} /\ kind # "app" /\ remaining > 0 => closing
  /\ pc = "rejected" /\ remaining > 0 => closing

\* Responses and requests, by the place of the thread.
Good == last.state \in {"whole", "short", "extra"}
Accounts ==
  /\ answers <= Begun
  /\ pc \in {"begin", "wait", "line", "drain", "rejected"} => answers = Begun /\ Good
  /\ pc \in {"dispatch", "handle", "read", "answer"} => answers + 1 = Begun
  /\ pc = "after" => closing \/ (answers = Begun /\ Good)

\* The request limit: the close it asks for is not taken back.
LimitKept ==
  /\ MaxRequests > 0 => served <= MaxRequests /\ (served = MaxRequests => limited)
  /\ pc \in {"begin", "wait", "line"} => ~limited
  /\ limited => closing /\ (forced => original)

\* The drain and the last response, in the loops of servery.
FinalKept ==
  loop # "cgi" =>
    /\ late <= 1 /\ (late > 0 => draining)
    /\ pc \in {"begin", "wait", "line"} => late = 0
    /\ last.final => /\ last.announced /\ (limited \/ draining)
                     /\ pc \in {"drain", "rejected", "after", "closed"}

IInv == TypeOK /\ Framed /\ Placed /\ Marked /\ Accounts /\ LimitKept /\ FinalKept

-----------------------------------------------------------------------------
(* The heads of a stream                                                   *)

LEMMA HeadsFinite ==
  ASSUME NEW s \in Seq(Units)
  PROVE  IsFiniteSet(Heads(s)) /\ Cardinality(Heads(s)) \in Nat /\ Heads(s) \subseteq 1 .. Len(s)
<1>1. Len(s) \in Nat /\ DOMAIN s = 1 .. Len(s)
  OBVIOUS
<1>2. IsFiniteSet(1 .. Len(s))
  BY <1>1, FS_Interval
<1> QED BY <1>1, <1>2, FS_Subset, FS_CardinalityType DEF Heads

\* A head at the end is one more.
LEMMA OneMoreHead ==
  ASSUME NEW s \in Seq(Units), NEW u \in Units
  PROVE  Cardinality(Heads(Append(s, u))) = Cardinality(Heads(s)) + (IF u = Octet THEN 0 ELSE 1)
<1>1. Len(s) \in Nat /\ DOMAIN s = 1 .. Len(s) /\ Len(s) + 1 \notin Heads(s)
  BY DEF Heads
<1>2. /\ DOMAIN Append(s, u) = 1 .. (Len(s) + 1) /\ Append(s, u)[Len(s) + 1] = u
      /\ \A i \in 1 .. Len(s) : Append(s, u)[i] = s[i]
  OBVIOUS
<1>3. CASE u = Octet
  <2>1. Heads(Append(s, u)) = Heads(s)
    BY <1>1, <1>2, <1>3 DEF Heads
  <2> QED BY <2>1, <1>3, HeadsFinite
<1>4. CASE u # Octet
  <2>1. Heads(Append(s, u)) = Heads(s) \union {Len(s) + 1}
    BY <1>1, <1>2, <1>4 DEF Heads
  <2> QED BY <2>1, <1>1, <1>4, HeadsFinite, FS_AddElement
<1> QED BY <1>3, <1>4

\* A head at the front that is read is one less.
LEMMA OneHeadLess ==
  ASSUME NEW s \in Seq(Units), s # <<>>
  PROVE  Cardinality(Heads(s)) = Cardinality(Heads(Tail(s))) + (IF s[1] = Octet THEN 0 ELSE 1)
<1> DEFINE moved == [i \in Heads(Tail(s)) |-> i + 1]
           behind == Heads(s) \ {1}
<1>1. /\ Len(s) \in Nat \ {0} /\ DOMAIN s = 1 .. Len(s) /\ Tail(s) \in Seq(Units)
      /\ DOMAIN Tail(s) = 1 .. (Len(s) - 1) /\ \A i \in 1 .. (Len(s) - 1) : Tail(s)[i] = s[i + 1]
  OBVIOUS
<1>2. moved \in Bijection(Heads(Tail(s)), behind)
  <2>1. \A i \in Heads(Tail(s)) : i \in 1 .. (Len(s) - 1) /\ i + 1 \in behind
    BY <1>1 DEF Heads
  <2>2. \A i \in behind : i - 1 \in Heads(Tail(s)) /\ i = (i - 1) + 1
    BY <1>1 DEF Heads
  <2>3. moved \in [Heads(Tail(s)) -> behind]
    BY <2>1
  <2>4. \A a, b \in Heads(Tail(s)) : moved[a] = moved[b] => a = b
    BY <2>1
  <2>5. \A i \in behind : \E a \in Heads(Tail(s)) : moved[a] = i
    BY <2>2
  <2> HIDE DEF moved, behind
  <2> QED BY <2>3, <2>4, <2>5, Fun_IsBij
<1>3. Cardinality(Heads(Tail(s))) = Cardinality(behind)
  <2> HIDE DEF moved, behind
  <2> QED BY <1>1, <1>2, HeadsFinite, FS_Bijection DEF ExistsBijection
<1>4. 1 \in Heads(s) <=> s[1] # Octet
  BY <1>1 DEF Heads
<1>5. Cardinality(Heads(s)) \in Nat
  BY HeadsFinite
<1> HIDE DEF moved
<1>6. CASE s[1] = Octet
  <2>1. behind = Heads(s)
    BY <1>4, <1>6
  <2> HIDE DEF behind
  <2> QED BY <2>1, <1>3, <1>5, <1>6
<1>7. CASE s[1] # Octet
  <2>1. Cardinality(behind) = Cardinality(Heads(s)) - 1
    BY <1>4, <1>7, HeadsFinite, FS_RemoveElement
  <2> HIDE DEF behind
  <2> QED BY <2>1, <1>3, <1>5, <1>7
<1> QED BY <1>6, <1>7

-----------------------------------------------------------------------------
(* The frames of a stream                                                  *)

\* A head that the client appends keeps what is framed, and frames its body.
LEMMA FramedByHead ==
  ASSUME NEW s \in Seq(Units), NEW u \in Judgements, FramedStream(s, 0)
  PROVE  /\ FramedStream(Append(s, u), u.follows)
         /\ \A n \in Nat : Between(s, 0, 0, n) => Between(Append(s, u), u.follows, 0, n)
<1>1. /\ Len(s) \in Nat /\ DOMAIN s = 1 .. Len(s) /\ Len(Append(s, u)) = Len(s) + 1
      /\ DOMAIN Append(s, u) = 1 .. (Len(s) + 1) /\ Append(s, u)[Len(s) + 1] = u
      /\ \A i \in 1 .. Len(s) : Append(s, u)[i] = s[i]
  BY DEF Units
<1>2. u # Octet /\ u.follows \in Nat /\ \A i \in Heads(s) : s[i].follows \in Nat /\ i \in 1 .. Len(s)
  BY <1>1 DEF Judgements, Octet, Heads, Units
<1>3. ASSUME NEW i \in 0 .. Len(s), NEW n \in Nat, Between(s, 0, i, n)
      PROVE  Between(Append(s, u), u.follows, i, n)
  <2>1. CASE i + n < Len(s) /\ s[i + n + 1] # Octet /\ \A j \in (i + 1)..(i + n) : s[j] = Octet
    <3>1. i + n + 1 \in 1 .. Len(s) /\ \A j \in (i + 1)..(i + n) : j \in 1 .. Len(s)
      BY <1>1, <2>1
    <3> QED BY <1>1, <2>1, <3>1 DEF Between
  <2>2. CASE i + n = Len(s) + 0 /\ \A j \in (i + 1)..Len(s) : s[j] = Octet
    <3>1. i + n + 1 = Len(s) + 1 /\ \A j \in (i + 1)..(i + n) : j \in 1 .. Len(s)
      BY <1>1, <2>2
    <3> QED BY <1>1, <1>2, <2>2, <3>1 DEF Between
  <2> QED BY <1>3, <2>1, <2>2 DEF Between
<1>4. Between(Append(s, u), u.follows, Len(s) + 1, u.follows)
  BY <1>1, <1>2 DEF Between
<1>5. \A i \in Heads(Append(s, u)) : i = Len(s) + 1 \/ (i \in Heads(s) /\ Append(s, u)[i] = s[i])
  BY <1>1 DEF Heads
<1> QED BY <1>1, <1>2, <1>3, <1>4, <1>5 DEF FramedStream

\* An octet that it owes is there instead of owed.
LEMMA FramedByOctet ==
  ASSUME NEW s \in Seq(Units), NEW o \in Nat, o > 0, FramedStream(s, o)
  PROVE  /\ FramedStream(Append(s, Octet), o - 1)
         /\ \A n \in Nat : Between(s, o, 0, n) => Between(Append(s, Octet), o - 1, 0, n)
<1>1. /\ Len(s) \in Nat /\ DOMAIN s = 1 .. Len(s) /\ Len(Append(s, Octet)) = Len(s) + 1
      /\ DOMAIN Append(s, Octet) = 1 .. (Len(s) + 1) /\ Append(s, Octet)[Len(s) + 1] = Octet
      /\ \A i \in 1 .. Len(s) : Append(s, Octet)[i] = s[i]
  BY DEF Units
<1>2. \A i \in Heads(s) : s[i].follows \in Nat /\ i \in 1 .. Len(s)
  BY <1>1 DEF Judgements, Octet, Heads, Units
<1>3. \A i \in 0 .. Len(s), n \in Nat : Between(s, o, i, n) => Between(Append(s, Octet), o - 1, i, n)
  BY <1>1 DEF Between
<1>4. \A i \in Heads(Append(s, Octet)) : i \in Heads(s) /\ Append(s, Octet)[i] = s[i]
  BY <1>1 DEF Heads
<1> QED BY <1>1, <1>2, <1>3, <1>4 DEF FramedStream

\* The first unit is read: what is behind a head is its body, and what is
\* behind an octet one less of it.
LEMMA FramedByTail ==
  ASSUME NEW s \in Seq(Units), NEW o \in Nat, s # <<>>, FramedStream(s, o)
  PROVE  /\ FramedStream(Tail(s), o)
         /\ s[1] # Octet => Between(Tail(s), o, 0, s[1].follows)
         /\ \A n \in Nat : Between(s, o, 0, n) /\ n > 0 => s[1] = Octet /\ Between(Tail(s), o, 0, n - 1)
<1>1. /\ Len(s) \in Nat \ {0} /\ DOMAIN s = 1 .. Len(s) /\ Len(Tail(s)) = Len(s) - 1
      /\ DOMAIN Tail(s) = 1 .. (Len(s) - 1) /\ \A i \in 1 .. (Len(s) - 1) : Tail(s)[i] = s[i + 1]
  OBVIOUS
<1>2. \A i \in Heads(s) : s[i].follows \in Nat /\ i \in 1 .. Len(s)
  BY <1>1 DEF Judgements, Octet, Heads, Units
<1>3. \A i \in 1 .. Len(s), n \in Nat : Between(s, o, i, n) => Between(Tail(s), o, i - 1, n)
  BY <1>1 DEF Between
<1>4. \A i \in Heads(Tail(s)) : i \in 1 .. (Len(s) - 1) /\ i + 1 \in Heads(s) /\ Tail(s)[i] = s[i + 1]
  BY <1>1 DEF Heads
<1>5. FramedStream(Tail(s), o)
  <2> SUFFICES ASSUME NEW i \in Heads(Tail(s))
               PROVE  Between(Tail(s), o, i, Tail(s)[i].follows)
    BY DEF FramedStream
  <2>1. i + 1 \in 1 .. Len(s) /\ Between(s, o, i + 1, s[i + 1].follows) /\ s[i + 1].follows \in Nat /\ (i + 1) - 1 = i
    BY <1>1, <1>2, <1>4 DEF FramedStream
  <2> QED BY <2>1, <1>3, <1>4
<1>6. s[1] # Octet => Between(Tail(s), o, 0, s[1].follows)
  BY <1>1, <1>2, <1>3 DEF FramedStream, Heads
<1>7. \A n \in Nat : Between(s, o, 0, n) /\ n > 0 => s[1] = Octet /\ Between(Tail(s), o, 0, n - 1)
  BY <1>1 DEF Between
<1> QED BY <1>5, <1>6, <1>7

\* A thread that waits for a head finds one.
LEMMA HeadInFront ==
  ASSUME NEW s \in Seq(Units), NEW o \in Nat, s # <<>>, Between(s, o, 0, 0)
  PROVE  s[1] \in Judgements /\ s[1] # Octet
<1>1. Len(s) \in Nat \ {0} /\ s[1] \in Units
  OBVIOUS
<1>2. s[1] # Octet
  BY <1>1 DEF Between
<1> QED BY <1>1, <1>2 DEF Units

\* What Between says of the front is what Ahead computes.
LEMMA AheadIs ==
  ASSUME stream \in Seq(Units), owed \in Nat, NEW n \in Nat, Between(stream, owed, 0, n)
  PROVE  Ahead = n
<1> DEFINE I == {i \in 1 .. Len(stream) : stream[i] # Octet}
<1>1. Len(stream) \in Nat /\ \A i \in I : i > n
  BY DEF Between
<1>2. CASE n < Len(stream) /\ stream[n + 1] # Octet
  <2>1. n + 1 \in I /\ \A i \in I : n + 1 <= i
    BY <1>1, <1>2
  <2>2. I \subseteq Nat /\ Min(I) \in I /\ \A j \in I : Min(I) <= j
    BY <2>1, <1>1 DEF Min
  <2>3. Min(I) = n + 1 /\ I # {}
    BY <2>1, <2>2, <1>1
  <2>4. SelectInSeq(stream, LAMBDA u : u # Octet) = n + 1
    BY <2>3 DEF SelectInSeq
  <2> QED BY <2>4 DEF Ahead
<1>3. CASE n = Len(stream) + owed
  <2>1. I = {}
    BY <1>1, <1>3
  <2> QED BY <2>1, <1>3 DEF Ahead, SelectInSeq
<1> QED BY <1>2, <1>3 DEF Between

-----------------------------------------------------------------------------
(* What the server makes of a head                                         *)

LEMMA FramingIsNumber ==
  ASSUME NEW r \in Requests,
         NEW body, body = ParseFraming(r.fields.lengths, r.fields.encodings, Unlimited, FALSE)
  PROVE  IsError(body) \/ (~IsError(body) /\ body.length \in Nat)
<1> DEFINE lengths == FlattenSeq(r.fields.lengths)
           encodings == FlattenSeq(r.fields.encodings)
           length0 == SameLength(lengths).value
<1>1. length0 \in Int
  BY Http1Assumption
<1>2. length0 < 0 \/ length0 \in Nat
  BY <1>1
<1> HIDE DEF lengths, encodings, length0
<1>3. body = CASE Empty \in ToSet(lengths) \/ "" \in ToSet(encodings) -> Error(400)
     [] OTHER ->
          CASE encodings # <<>> /\ lengths # <<>> -> Error(400)
            [] encodings # <<>> /\ lengths = <<>> ->
                 IF encodings # <<"chunked">> \/ ~FALSE THEN Error(501)
                 ELSE [length |-> 0, chunked |-> TRUE]
            [] encodings = <<>> /\ lengths = <<>> -> [length |-> 0, chunked |-> FALSE]
            [] OTHER -> CASE length0 < 0 -> Error(400)
                          [] length0 >= 0 /\ TooLong(length0, Unlimited) -> Error(413)
                          [] OTHER -> [length |-> length0, chunked |-> FALSE]
  BY DEF ParseFraming, lengths, encodings, length0
<1>4. \/ body = Error(400) \/ body = Error(413) \/ body = Error(501)
      \/ body = [length |-> 0, chunked |-> FALSE]
      \/ body = [length |-> length0, chunked |-> FALSE] /\ length0 \in Nat
  BY <1>2, <1>3
<1>5. body = Error(400) \/ body = Error(413) \/ body = Error(501) => IsError(body)
  BY DEF IsError, Error
<1>6. ASSUME NEW n \in Nat, body = [length |-> n, chunked |-> FALSE]
      PROVE  ~IsError(body) /\ body.length \in Nat
  <2>1. DOMAIN [length |-> n, chunked |-> FALSE] = {"length", "chunked"}
    OBVIOUS
  <2>2. [length |-> n, chunked |-> FALSE].length = n
    OBVIOUS
  <2> QED BY <1>6, <2>1, <2>2 DEF IsError
<1> QED BY <1>4, <1>5, <1>6

LEMMA Judged ==
  ASSUME NEW r \in Requests
  PROVE  Judge(r) \in Judgements /\ Judge(r) # Octet /\ Judge(r) \in Units
<1> DEFINE line == RequestLine(r.words)
           head == Finalize(line, r.fields, Unlimited, FALSE)
           body == ParseFraming(r.fields.lengths, r.fields.encodings, Unlimited, FALSE)
           refused == [verdict |-> Refused, follows |-> IF IsError(body) THEN 0 ELSE body.length, close |-> TRUE]
<1>1. IsError(body) \/ (~IsError(body) /\ body.length \in Nat)
  BY FramingIsNumber
<1>2. refused \in Judgements
  BY <1>1 DEF Judgements, Refused
<1>3. "empty" \in DOMAIN line \/ IsError(line) \/ line.close \in BOOLEAN
  <2> DEFINE said == VersionPolicy(Last(r.words))
  <2>1. IsError(said) \/ said.close \in BOOLEAN
    BY DEF VersionPolicy, IsError
  <2> HIDE DEF said
  <2>2. \/ line = [empty |-> TRUE]
        \/ line = said /\ IsError(said)
        \/ line = [error |-> 400, close |-> said.close]
        \/ line = [version |-> Last(r.words), close |-> said.close, fields |-> TRUE] /\ ~IsError(said)
        \/ line = [version |-> Implicit, close |-> TRUE, fields |-> FALSE]
        \/ line = [error |-> 400, close |-> TRUE]
    BY DEF RequestLine, said
  <2> HIDE DEF line
  <2>3. line = [empty |-> TRUE] => DOMAIN line = {"empty"}
    OBVIOUS
  <2>4. line = [error |-> 400, close |-> said.close] \/ line = [error |-> 400, close |-> TRUE] =>
          DOMAIN line = {"error", "close"}
    OBVIOUS
  <2>5. /\ line = [version |-> Last(r.words), close |-> said.close, fields |-> TRUE] => line.close = said.close
        /\ line = [version |-> Implicit, close |-> TRUE, fields |-> FALSE] => line.close = TRUE
    OBVIOUS
  <2> QED BY <2>1, <2>2, <2>3, <2>4, <2>5 DEF IsError
<1>4. ~IsError(head) /\ line.close \in BOOLEAN => head.length \in Nat /\ head.close \in BOOLEAN
  <2> HIDE DEF line, body
  <2>1. /\ ~HostAllowed(line.version, r.fields.hosts) => head = Error(400)
        /\ HostAllowed(line.version, r.fields.hosts) /\ IsError(body) => head = body
        /\ HostAllowed(line.version, r.fields.hosts) /\ ~IsError(body) =>
             head = [length |-> body.length, chunked |-> body.chunked,
                     close |-> ClosePolicy(line, r.fields.connection),
                     continue |-> ContinuePolicy(line, r.fields.expect)]
    BY DEF Finalize, body
  <2>2. line.close \in BOOLEAN => ClosePolicy(line, r.fields.connection) \in BOOLEAN
    BY DEF ClosePolicy
  <2> HIDE DEF head
  <2> QED BY <1>1, <2>1, <2>2 DEF IsError, Error
<1> HIDE DEF head, body, refused, line
<1>5. Judge(r) =
        CASE "empty" \in DOMAIN line -> [verdict |-> "empty", follows |-> 0, close |-> TRUE]
          [] IsError(line) -> refused
          [] "fields" \in DOMAIN line /\ ~line.fields -> [verdict |-> "old", follows |-> 0, close |-> TRUE]
          [] OTHER -> IF IsError(head) THEN refused
                      ELSE [verdict |-> "accepted", follows |-> head.length, close |-> head.close]
  BY DEF Judge, head, body, refused, line
<1>6. \/ Judge(r) \in {[verdict |-> "empty", follows |-> 0, close |-> TRUE],
                       [verdict |-> "old", follows |-> 0, close |-> TRUE], refused}
      \/ /\ Judge(r) = [verdict |-> "accepted", follows |-> head.length, close |-> head.close]
         /\ head.length \in Nat /\ head.close \in BOOLEAN
  BY <1>3, <1>4, <1>5
<1>7. /\ [verdict |-> "empty", follows |-> 0, close |-> TRUE] \in Judgements
      /\ [verdict |-> "old", follows |-> 0, close |-> TRUE] \in Judgements
      /\ \A n \in Nat, c \in BOOLEAN : [verdict |-> "accepted", follows |-> n, close |-> c] \in Judgements
  BY DEF Judgements
<1>8. Judge(r) \in Judgements
  BY <1>2, <1>6, <1>7
<1> QED BY <1>8 DEF Judgements, Octet, Units

-----------------------------------------------------------------------------
(* The steps of the client and of the server around the connection         *)

LEMMA InitHolds == Init => IInv
<1> SUFFICES ASSUME Init PROVE IInv
  OBVIOUS
<1>1. Heads(stream) = {} /\ Len(stream) = 0 /\ stream \in Seq(Units)
  BY DEF Init, Heads
<1>2. Begun = 0
  <2>1. Cardinality(Heads(stream)) = 0
    BY <1>1, FS_EmptySet
  <2> QED BY <2>1 DEF Init, Begun
<1>3. Framed
  BY <1>1 DEF Init, Framed, FramedStream
<1>4. Between(stream, owed, 0, 0)
  <2>1. 0 + 0 = Len(stream) + owed /\ \A j \in (0 + 1)..Len(stream) : stream[j] = Octet
    BY <1>1 DEF Init
  <2> QED BY <2>1 DEF Between
<1>5. TypeOK
  <2>1. last \in [announced : BOOLEAN, state : States, final : BOOLEAN]
    BY DEF Init, None, States
  <2>2. 0 \in 0 .. MaxSent /\ kind \in Kinds(loop) \union {"none"}
    BY Http1Assumption DEF Init
  <2> QED BY <1>1, <2>1, <2>2 DEF Init, TypeOK, Units
<1>7. Placed /\ Marked /\ LimitKept
  BY <1>4, Http1Assumption DEF Init, Placed, Marked, LimitKept
<1>6. Accounts /\ FinalKept
  BY <1>2 DEF Init, Accounts, Good, None, FinalKept
<1> QED BY <1>3, <1>5, <1>6, <1>7 DEF IInv

LEMMA BegunCounts == ASSUME TypeOK PROVE Begun \in Int
<1> QED BY HeadsFinite DEF TypeOK, Begun, Units

LEMMA SendHolds == ASSUME IInv, NEW r \in Requests, Send(r) PROVE IInv'
<1> DEFINE u == Judge(r)
<1>1. u \in Judgements /\ u # Octet /\ u \in Units /\ u.follows \in Nat
  BY Judged DEF Judgements
<1> HIDE DEF u
<1>2. /\ stream' = Append(stream, u) /\ owed' = u.follows /\ owed = 0 /\ sent < MaxSent /\ sent' = sent + 1
      /\ pc \in {"wait", "read", "drain", "rejected"}
      /\ UNCHANGED <<loop, peer, pc, kind, policy, plan, counts, draining, out>>
  BY DEF Send, MaySend, u
<1> USE DEF policy, plan, counts, out
<1>3. stream \in Seq(Units) /\ stream' \in Seq(Units) /\ sent \in Nat /\ length \in Nat /\ remaining \in Nat
  BY <1>1, <1>2 DEF IInv, TypeOK, Units
<1>4. /\ Framed'
      /\ \A n \in Nat : Between(stream, owed, 0, n) => Between(stream', owed', 0, n)
  BY <1>1, <1>2, <1>3, FramedByHead DEF IInv, Framed
<1>5. Cardinality(Heads(stream')) = Cardinality(Heads(stream)) + 1 /\ Cardinality(Heads(stream)) \in Nat
  BY <1>1, <1>2, <1>3, OneMoreHead, HeadsFinite
<1>6. Begun' = Begun
  BY <1>2, <1>3, <1>5 DEF Begun
<1>7. TypeOK'
  BY <1>1, <1>2, <1>3, Http1Assumption DEF IInv, TypeOK, Units
<1>8. Placed'
  BY <1>2, <1>3, <1>4 DEF IInv, Placed
<1>9. Marked' /\ Accounts' /\ LimitKept' /\ FinalKept'
  BY <1>2, <1>6 DEF IInv, Marked, Accounts, Good, LimitKept, FinalKept
<1> QED BY <1>4, <1>7, <1>8, <1>9 DEF IInv

LEMMA SendOctetHolds == ASSUME IInv, SendOctet PROVE IInv'
<1>1. /\ stream' = Append(stream, Octet) /\ owed' = owed - 1 /\ owed > 0 /\ UNCHANGED sent
      /\ pc \in {"wait", "read", "drain", "rejected"}
      /\ UNCHANGED <<loop, peer, pc, kind, policy, plan, counts, draining, out>>
  BY DEF SendOctet, MaySend
<1> USE DEF policy, plan, counts, out
<1>2. /\ stream \in Seq(Units) /\ owed \in Nat /\ owed - 1 \in Nat /\ Octet \in Units
      /\ length \in Nat /\ remaining \in Nat
  BY <1>1 DEF IInv, TypeOK, Units
<1>3. stream' \in Seq(Units)
  BY <1>1, <1>2
<1>4. /\ Framed'
      /\ \A n \in Nat : Between(stream, owed, 0, n) => Between(stream', owed', 0, n)
  BY <1>1, <1>2, FramedByOctet DEF IInv, Framed
<1>5. Cardinality(Heads(stream')) = Cardinality(Heads(stream))
  BY <1>1, <1>2, OneMoreHead, HeadsFinite
<1>6. Begun' = Begun
  BY <1>1, <1>5 DEF Begun
<1>7. TypeOK'
  BY <1>1, <1>2, <1>3 DEF IInv, TypeOK, Units
<1>8. Placed'
  BY <1>1, <1>2, <1>3, <1>4 DEF IInv, Placed
<1>9. Marked' /\ Accounts' /\ LimitKept' /\ FinalKept'
  BY <1>1, <1>6 DEF IInv, Marked, Accounts, Good, LimitKept, FinalKept
<1> QED BY <1>4, <1>7, <1>8, <1>9 DEF IInv

\* The end of what a client sends, and the beginning of a drain.
LEMMA AroundHolds == ASSUME IInv, SendNoMore \/ BeginDraining \/ UNCHANGED vars PROVE IInv'
<1> USE DEF policy, plan, counts, out, client, vars
<1>1. /\ UNCHANGED <<loop, stream, owed, sent, pc, kind, closing, forced, original, limited, length, remaining,
                     served, late, answers, last>>
      /\ peer' \in {"open", "done"} /\ draining' \in BOOLEAN /\ (draining => draining')
  BY DEF SendNoMore, BeginDraining, IInv, TypeOK
<1>2. TypeOK' /\ Framed' /\ Placed' /\ Marked'
  BY <1>1 DEF IInv, TypeOK, Framed, Placed, Marked
<1>3. Accounts' /\ LimitKept' /\ FinalKept'
  BY <1>1 DEF IInv, Begun, Accounts, Good, LimitKept, FinalKept
<1> QED BY <1>2, <1>3 DEF IInv

-----------------------------------------------------------------------------
(* The thread's steps that answer                                          *)

\* What every response does, whatever handler sends it.
Replies ==
  /\ pc \in {"handle", "read", "answer"}
  /\ answers' = answers + 1
  /\ last' \in [announced : BOOLEAN, state : States, final : BOOLEAN]
  /\ last'.final => last'.announced /\ (limited \/ draining)
  /\ closing' \in BOOLEAN /\ (closing => closing')
  /\ \/ pc' = "closed"
     \/ pc' = "after" /\ (closing' \/ (remaining = 0 /\ Good'))
     \/ pc' \in {"drain", "rejected"} /\ Good' /\ (pc' = "rejected" /\ remaining > 0 => closing')
  /\ UNCHANGED <<loop, stream, owed, sent, peer, kind, forced, original, limited, length, remaining,
                 served, late, draining>>

LEMMA RepliesHolds == ASSUME IInv, Replies PROVE IInv'
<1>1. Begun' = Begun /\ Begun \in Int /\ Begun <= MaxSent /\ Framed'
  <2>1. Cardinality(Heads(stream)) \in Nat
    BY HeadsFinite DEF IInv, TypeOK, Units
  <2> QED BY <2>1, Http1Assumption DEF Replies, Begun, IInv, TypeOK, Framed
<1>2. answers + 1 = Begun /\ answers' = Begun /\ answers' \in 0 .. MaxSent
  BY <1>1, Http1Assumption DEF IInv, Replies, Accounts, TypeOK
<1>3. TypeOK'
  BY <1>2 DEF IInv, Replies, TypeOK
<1>4. Placed'
  BY DEF IInv, Replies, Placed
<1>5. Marked' /\ LimitKept'
  BY DEF IInv, Replies, Marked, LimitKept
<1>6. Accounts'
  BY <1>1, <1>2 DEF Replies, Accounts
<1>7. FinalKept'
  BY DEF IInv, Replies, FinalKept
<1> QED BY <1>1, <1>3, <1>4, <1>5, <1>6, <1>7 DEF IInv

\* A response of end_headers, as the handlers send it.
LEMMA AnswerReplies ==
  ASSUME IInv, NEW error \in BOOLEAN, NEW state \in States,
         NEW where \in {"after", "rejected"}, Answer(error, state, where),
         pc \in {"handle", "read", "answer"},
         error \/ closing \/ (remaining = 0 /\ state \in {"whole", "short", "extra"}),
         where = "rejected" => state = "whole",
         UNCHANGED <<loop, client, kind, forced, original, limited, plan, counts, draining>>
  PROVE  Replies
<1>1. /\ last' = [announced |-> error \/ limited \/ draining, state |-> state, final |-> limited \/ draining]
      /\ answers' = answers + 1 /\ closing' = (closing \/ error \/ draining) /\ pc' = where
  BY DEF Answer, Answered, Announced, Goto
<1>2. closing \in BOOLEAN /\ limited \in BOOLEAN /\ draining \in BOOLEAN /\ remaining \in Nat
  BY DEF IInv, TypeOK
<1>3. last' \in [announced : BOOLEAN, state : States, final : BOOLEAN]
  BY <1>1, <1>2
<1>4. last'.final = (limited \/ draining) /\ last'.announced = (error \/ limited \/ draining) /\ last'.state = state
  BY <1>1
<1>5. closing' \in BOOLEAN /\ (closing => closing') /\ (error => closing')
  BY <1>1, <1>2
<1> QED BY <1>1, <1>2, <1>3, <1>4, <1>5 DEF Replies, Good, client, plan, counts

\* One that says more, or less, than it declared; the connection may close.
LEMMA BuiltReplies ==
  ASSUME IInv, NEW error \in BOOLEAN, NEW built \in BOOLEAN, NEW state \in States,
         Answered(error, built, state), pc \in {"handle", "read", "answer"},
         closing' \in BOOLEAN, closing => closing',
         \/ pc' = "closed"
         \/ pc' = "after" /\ (closing' \/ (remaining = 0 /\ state \in {"whole", "short", "extra"}))
         \/ pc' = "drain" /\ state \in {"whole", "short", "extra"},
         UNCHANGED <<loop, client, kind, forced, original, limited, plan, counts, draining>>
  PROVE  Replies
<1>1. /\ last' = [announced |-> Announced(error, built), state |-> state, final |-> limited \/ (draining /\ ~built)]
      /\ answers' = answers + 1
  BY DEF Answered
<1>2. /\ closing \in BOOLEAN /\ limited \in BOOLEAN /\ draining \in BOOLEAN /\ remaining \in Nat
      /\ limited => closing
  BY DEF IInv, TypeOK, LimitKept
<1>3. /\ Announced(error, built) \in BOOLEAN
      /\ limited \/ (draining /\ ~built) => Announced(error, built)
  BY <1>2 DEF Announced
<1>4. last' \in [announced : BOOLEAN, state : States, final : BOOLEAN]
  BY <1>1, <1>2, <1>3
<1>5. /\ last'.final = (limited \/ (draining /\ ~built)) /\ last'.announced = Announced(error, built)
      /\ last'.state = state
  BY <1>1
<1> QED BY <1>1, <1>2, <1>3, <1>4, <1>5 DEF Replies, Good, client, plan, counts

\* What is left of a body is 0, or the connection is marked.
LEMMA LeftIsMarked ==
  ASSUME IInv, pc \in {"handle", "read", "answer"}, kind # "app"
  PROVE  closing \/ remaining = 0
<1> QED BY DEF IInv, Marked, TypeOK

LEMMA AnswersHold ==
  ASSUME IInv,
         \/ Unauthorized \/ ServeFile \/ WriteFails \/ TooLarge \/ RejectPut \/ HandlerFails
         \/ AnswerStored \/ AnswerScript \/ RelayShort \/ FailsAfterHead \/ FailsBeforeHead
         \/ \E declared, isHead, bodiless \in BOOLEAN : AnswerBuilt(declared, isHead, bodiless)
  PROVE  Replies
<1> USE DEF States
<1>0. closing \in BOOLEAN /\ draining \in BOOLEAN /\ limited \in BOOLEAN /\ length \in Nat /\ remaining \in Nat
  BY DEF IInv, TypeOK
<1>1. CASE Unauthorized
  BY <1>1, AnswerReplies DEF Unauthorized, Refuse
<1>2. CASE ServeFile
  <2>1. closing \/ remaining = 0
    BY <1>2, LeftIsMarked DEF ServeFile, AnswersUnread
  <2>2. CASE Answer(FALSE, "whole", "after")
    BY <1>2, <2>1, <2>2, AnswerReplies DEF ServeFile
  <2>3. CASE Answer(FALSE, "short", "after")
    BY <1>2, <2>1, <2>3, AnswerReplies DEF ServeFile
  <2>4. CASE Answered(FALSE, FALSE, "cut") /\ closing' = TRUE /\ Goto("after")
    BY <1>2, <2>4, BuiltReplies DEF ServeFile, Goto
  <2> QED BY <1>2, <2>2, <2>3, <2>4 DEF ServeFile
<1>3. CASE WriteFails
  BY <1>3, BuiltReplies DEF WriteFails, Close, Goto
<1>4. CASE TooLarge
  BY <1>4, AnswerReplies DEF TooLarge, Refuse, RejectedNext
<1>5. CASE RejectPut
  <2>1. closing \/ remaining = 0
    BY <1>5, LeftIsMarked DEF RejectPut
  <2>2. RejectedNext \in {"after", "rejected"}
    BY DEF RejectedNext
  <2>3. CASE Refuse(RejectedNext)
    BY <1>5, <2>1, <2>2, <2>3, AnswerReplies DEF RejectPut, Refuse
  <2>4. CASE Answer(FALSE, "whole", RejectedNext)
    BY <1>5, <2>1, <2>2, <2>4, AnswerReplies DEF RejectPut
  <2>5. CASE Answer(FALSE, "whole", "after")
    BY <1>5, <2>1, <2>5, AnswerReplies DEF RejectPut
  <2> QED BY <1>5, <2>3, <2>4, <2>5 DEF RejectPut
<1>6. CASE HandlerFails
  BY <1>6, AnswerReplies DEF HandlerFails, Refuse, Reading
<1>7. CASE AnswerStored
  <2>1. closing \/ remaining = 0
    BY <1>7, LeftIsMarked DEF AnswerStored
  <2> QED BY <1>7, <2>1, AnswerReplies DEF AnswerStored, Refuse
<1>8. CASE AnswerScript
  <2>1. closing \/ remaining = 0
    BY <1>8, LeftIsMarked DEF AnswerScript
  <2>2. CASE Refuse("after")
    BY <1>8, <2>2, AnswerReplies DEF AnswerScript, Refuse
  <2>3. CASE Answered(FALSE, TRUE, "whole") /\ Goto("after") /\ UNCHANGED closing
    BY <1>0, <1>8, <2>1, <2>3, BuiltReplies DEF AnswerScript, Goto
  <2> QED BY <1>8, <2>2, <2>3 DEF AnswerScript
<1>9. CASE RelayShort
  <2>1. closing \/ remaining = 0
    BY <1>9, LeftIsMarked DEF RelayShort
  <2>2. kind = "proxy" /\ pc' = "after" /\ closing' \in BOOLEAN /\ (closing => closing') /\ Answered(FALSE, TRUE, "short")
    BY <1>0, <1>9 DEF RelayShort, AfterBuilt, Goto
  <2> QED BY <1>9, <2>1, <2>2, BuiltReplies DEF RelayShort
<1>10. CASE FailsAfterHead
  <2>1. (kind = "proxy") \in BOOLEAN /\ (IF kind = "proxy" THEN "second" ELSE "cut") \in States
    OBVIOUS
  <2> QED BY <1>10, <2>1, BuiltReplies DEF FailsAfterHead, Goto
<1>11. CASE FailsBeforeHead
  BY <1>11, AnswerReplies DEF FailsBeforeHead, Refuse
<1>12. ASSUME NEW declared \in BOOLEAN, NEW isHead \in BOOLEAN, NEW bodiless \in BOOLEAN,
              AnswerBuilt(declared, isHead, bodiless)
       PROVE  Replies
  <2> DEFINE framing == Framing(declared, isHead)
             state == Relayed(framing, bodiless)
             left == kind = "app" /\ remaining > 0
  <2>1. state \in {"whole", "extra"}
    BY DEF Relayed
  <2>2. /\ pc = "answer" /\ answers' = answers + 1 /\ kind \in {"proxy", "app"}
        /\ last' = [announced |-> closing \/ framing = "close", state |-> state, final |-> limited]
        /\ AfterBuilt(framing)
        /\ UNCHANGED <<loop, client, kind, forced, original, limited, plan, counts, draining>>
    BY <1>12 DEF AnswerBuilt
  <2> HIDE DEF framing, state
  <2>3. /\ last'.announced = (closing \/ framing = "close") /\ last'.state = state /\ last'.final = limited
        /\ last' \in [announced : BOOLEAN, state : States, final : BOOLEAN]
    BY <1>0, <2>1, <2>2
  <2>4. limited => closing
    BY DEF IInv, LimitKept
  <2>5. closing' \in BOOLEAN /\ (closing => closing')
    BY <1>0, <2>2 DEF AfterBuilt
  <2>6. \/ pc' = "drain"
        \/ pc' = "after" /\ (closing' \/ remaining = 0)
    BY <1>0, <2>2, Http1Assumption DEF AfterBuilt, Goto, LeftTooMuch
  <2> QED BY <1>0, <2>1, <2>2, <2>3, <2>4, <2>5, <2>6 DEF Replies, Good, client, plan, counts
<1> QED BY <1>1, <1>2, <1>3, <1>4, <1>5, <1>6, <1>7, <1>8, <1>9, <1>10, <1>11, <1>12

\* A body that ends early, or does not come, and is answered all the same.
LEMMA CutReplies ==
  ASSUME IInv, BodyCut \/ BodyTimeout, ~UNCHANGED out
  PROVE  Replies
<1> USE DEF States, Reading
<1>1. pc = "read" /\ remaining > 0 /\ UNCHANGED <<loop, client, kind, forced, original, limited, plan, counts, draining>>
  BY DEF BodyCut, BodyTimeout
<1>2. Refuse("after") => Replies
  BY <1>1, AnswerReplies DEF Refuse
<1>3. Answer(FALSE, "whole", "after") /\ kind \in {"upload", "put"} => Replies
  BY <1>1, AnswerReplies, LeftIsMarked
<1> QED BY <1>2, <1>3 DEF BodyCut, BodyTimeout

-----------------------------------------------------------------------------
(* The thread's steps that neither read nor answer                         *)

\* The thread gives up the request, and with it the connection.
GivesUp ==
  /\ closing' = TRUE /\ pc' \in {"after", "closed"}
  /\ UNCHANGED <<loop, stream, owed, sent, peer, kind, forced, original, limited, length, remaining,
                 served, late, draining, answers, last>>

LEMMA GivesUpHolds == ASSUME IInv, GivesUp PROVE IInv'
<1>1. TypeOK' /\ Framed' /\ Placed' /\ Marked'
  BY DEF IInv, GivesUp, TypeOK, Framed, Placed, Marked
<1>2. Accounts' /\ LimitKept' /\ FinalKept'
  BY DEF IInv, GivesUp, Begun, Accounts, LimitKept, FinalKept
<1> QED BY <1>1, <1>2 DEF IInv

LEMMA GivingUp ==
  ASSUME IInv,
         \/ WaitEnds \/ HeadTimeout
         \/ (BodyCut \/ BodyTimeout) /\ UNCHANGED out /\ pc' # "answer"
         \/ DrainCut /\ pc = "drain"
  PROVE  GivesUp
<1> USE DEF client, policy, plan, counts, out, Goto, Close
<1>1. CASE WaitEnds \/ HeadTimeout
  BY <1>1 DEF WaitEnds, HeadTimeout, GivesUp
<1>2. CASE DrainCut /\ pc = "drain"
  BY <1>2 DEF DrainCut, GivesUp
<1>3. CASE (BodyCut \/ BodyTimeout) /\ UNCHANGED out /\ pc' # "answer"
  <2>1. answers \in Nat /\ (UNCHANGED out => answers' # answers + 1)
    BY DEF IInv, TypeOK
  <2> QED BY <1>3, <2>1 DEF BodyCut, BodyTimeout, Answer, Answered, Refuse, GivesUp
<1> QED BY <1>1, <1>2, <1>3

\* It goes on to another place, and what it knows of the body may change.
Moves == UNCHANGED <<loop, stream, owed, sent, peer, limited, served, late, draining, answers, last>>

LEMMA MovesHold ==
  ASSUME IInv, Moves, TypeOK', Placed', Marked', LimitKept',
         \/ pc \in {"begin", "wait", "line", "drain", "rejected"} /\ pc' \in {"wait", "line", "after", "closed"}
         \/ pc \in {"dispatch", "handle", "read", "answer"} /\ pc' \in {"handle", "read", "answer"}
         \/ pc = "after" /\ (pc' = "closed" \/ (pc' = "wait" /\ ~closing)),
         loop # "cgi" /\ pc' \in {"wait", "line"} =>
           pc \in {"begin", "wait"} \/ (~draining /\ ~limited)
  PROVE  IInv'
<1>1. Framed' /\ Begun' = Begun
  BY DEF IInv, Moves, Framed, Begun
<1>2. Accounts'
  BY <1>1 DEF IInv, Moves, Accounts, Good
<1>3. late \in Nat
  BY DEF IInv, TypeOK
<1>4. FinalKept'
  BY <1>3 DEF IInv, Moves, FinalKept
<1> QED BY <1>1, <1>2, <1>4 DEF IInv

LEMMA MovingHolds ==
  ASSUME IInv,
         \/ Begin \/ Wait \/ After \/ Require \/ BeginReading \/ Consume \/ AppAnswers
         \/ (BodyCut /\ pc' = "answer") \/ Drained \/ (DrainCut /\ pc = "rejected") \/ RejectedDrained
  PROVE  IInv'
<1> USE DEF client, policy, plan, counts, out, Goto, Close
<1> USE DEF IInv, TypeOK, Placed, Marked, LimitKept, Moves
<1>1. CASE Begin \/ Wait
  <2>1. Moves /\ TypeOK' /\ Placed' /\ Marked' /\ LimitKept'
    BY <1>1 DEF Begin, Wait
  <2> QED BY <1>1, <2>1, MovesHold DEF Begin, Wait
<1>2. CASE After
  <2>1. Moves /\ TypeOK' /\ Placed' /\ Marked' /\ LimitKept'
    BY <1>2 DEF After, GoesOn
  <2> QED BY <1>2, <2>1, MovesHold DEF After, GoesOn
<1>3. CASE Require
  <2>1. Moves /\ TypeOK' /\ Placed' /\ Marked' /\ LimitKept'
    BY <1>3 DEF Require, Required
  <2> QED BY <1>3, <2>1, MovesHold DEF Require
<1>4. CASE BeginReading \/ AppAnswers
  <2>1. Moves /\ TypeOK' /\ Placed' /\ Marked' /\ LimitKept'
    BY <1>4 DEF BeginReading, AppAnswers, Reading
  <2> QED BY <1>4, <2>1, MovesHold DEF BeginReading, AppAnswers, Reading
<1>5. CASE Consume
  <2>1. /\ IF forced THEN closing' = original /\ forced' = FALSE ELSE closing' = closing /\ forced' = forced
        /\ pc = "read" /\ pc' = "answer" /\ remaining = 0 /\ original' = original /\ remaining' = remaining /\ Moves
        /\ kind' = kind /\ length' = length
    BY <1>5 DEF Consume, Consumed, Reading
  <2>2. TypeOK' /\ Placed' /\ Marked'
    <3>1. closing' \in BOOLEAN /\ forced' \in BOOLEAN
      <4>1. CASE forced
        BY <2>1, <4>1
      <4>2. CASE ~forced
        BY <2>1, <4>2
      <4> QED BY <4>1, <4>2
    <3>2. TypeOK'
      BY <2>1, <3>1
    <3>3. Placed' /\ Marked'
      BY <2>1
    <3> QED BY <3>2, <3>3
  <2>3. LimitKept'
    <3>1. served' = served /\ limited' = limited /\ (limited => closing /\ (forced => original))
      BY <2>1
    <3>2. limited => closing' /\ (forced' => original')
      <4>1. CASE forced
        BY <2>1, <3>1, <4>1
      <4>2. CASE ~forced
        BY <2>1, <3>1, <4>2
      <4> QED BY <4>1, <4>2
    <3> QED BY <2>1, <3>1, <3>2
  <2> QED BY <2>1, <2>2, <2>3, MovesHold
<1>6. CASE BodyCut /\ pc' = "answer"
  <2>1. Moves /\ TypeOK' /\ Placed' /\ Marked' /\ LimitKept' /\ pc = "read"
    BY <1>6 DEF BodyCut, Refuse, Answer, Reading
  <2> QED BY <1>6, <2>1, MovesHold
<1>7. CASE Drained \/ (DrainCut /\ pc = "rejected")
  <2>0. /\ UNCHANGED <<loop, stream, owed, sent, peer, kind, closing, forced, original, limited, length, remaining,
                       served, late, draining, answers, last>>
        /\ pc' = "after" /\ (remaining = 0 \/ closing)
        /\ remaining = 0 => Between(stream, owed, 0, 0)
    BY <1>7 DEF Drained, DrainCut
  <2>1. Moves /\ TypeOK' /\ Placed' /\ Marked' /\ LimitKept'
    BY <2>0
  <2> QED BY <1>7, <2>1, MovesHold DEF Drained, DrainCut
<1>8. CASE RejectedDrained
  <2>1. Moves /\ TypeOK' /\ Placed' /\ Marked' /\ LimitKept'
    BY <1>8 DEF RejectedDrained, Consumed
  <2> QED BY <1>8, <2>1, MovesHold DEF RejectedDrained
<1> QED BY <1>1, <1>2, <1>3, <1>4, <1>5, <1>6, <1>7, <1>8

-----------------------------------------------------------------------------
(* The thread's steps that read                                            *)

LEMMA ReadOctetHolds == ASSUME IInv, ReadOctet PROVE IInv'
<1>1. /\ pc \in {"read", "drain", "rejected"} /\ remaining > 0 /\ stream # <<>>
      /\ stream' = Tail(stream) /\ remaining' = remaining - 1
      /\ UNCHANGED <<loop, owed, sent, peer, pc, kind, closing, forced, original, limited, length, served, late,
                     draining, answers, last>>
  BY DEF ReadOctet, policy, counts, out
<1>2. /\ stream \in Seq(Units) /\ stream' \in Seq(Units) /\ owed \in Nat /\ remaining \in Nat /\ remaining' \in Nat
      /\ Between(stream, owed, 0, remaining) /\ FramedStream(stream, owed)
  <2>1. stream \in Seq(Units) /\ owed \in Nat /\ remaining \in Nat /\ Between(stream, owed, 0, remaining)
    BY <1>1 DEF IInv, TypeOK, Units, Placed
  <2> QED BY <1>1, <2>1 DEF IInv, Framed
<1>3. stream[1] = Octet /\ Between(stream', owed', 0, remaining') /\ FramedStream(stream', owed')
  BY <1>1, <1>2, FramedByTail
<1>4. Cardinality(Heads(stream')) = Cardinality(Heads(stream))
  <2>1. Cardinality(Heads(stream)) = Cardinality(Heads(Tail(stream))) + (IF stream[1] = Octet THEN 0 ELSE 1)
    BY <1>1, <1>2, OneHeadLess
  <2>2. Cardinality(Heads(stream')) \in Nat
    BY <1>2, HeadsFinite
  <2> QED BY <1>1, <1>3, <2>1, <2>2
<1>5. Begun' = Begun
  BY <1>1, <1>4 DEF Begun
<1>6. TypeOK'
  BY <1>1, <1>2 DEF IInv, TypeOK, Units
<1>7. Placed' /\ Framed'
  BY <1>1, <1>3 DEF IInv, Placed, Framed
<1>8. Marked' /\ Accounts' /\ LimitKept' /\ FinalKept'
  BY <1>1, <1>2, <1>5 DEF IInv, Marked, Accounts, Good, LimitKept, FinalKept
<1> QED BY <1>6, <1>7, <1>8 DEF IInv

\* What the reading of a head does to the stream and the accounts.
LEMMA HeadIsRead ==
  ASSUME IInv, ReadHead
  PROVE  /\ pc = "line" /\ stream[1] \in Judgements /\ Head(stream) = stream[1]
         /\ stream' \in Seq(Units) /\ Framed' /\ Between(stream', owed', 0, stream[1].follows)
         /\ Begun' = Begun + 1 /\ Begun \in Int
<1>1. pc = "line" /\ stream' = Tail(stream) /\ UNCHANGED <<owed, sent>>
  BY DEF ReadHead
<1>2. /\ stream \in Seq(Units) /\ stream # <<>> /\ owed \in Nat /\ sent \in Int
      /\ Between(stream, owed, 0, 0) /\ FramedStream(stream, owed)
  BY <1>1 DEF IInv, TypeOK, Units, Placed, Framed
<1>3. stream[1] \in Judgements /\ stream[1] # Octet /\ Head(stream) = stream[1]
  BY <1>2, HeadInFront
<1>4. stream' \in Seq(Units)
  BY <1>1, <1>2
<1>5. FramedStream(stream', owed') /\ Between(stream', owed', 0, stream[1].follows)
  BY <1>1, <1>2, <1>3, FramedByTail
<1>6. Cardinality(Heads(stream)) = Cardinality(Heads(stream')) + 1
  BY <1>1, <1>2, <1>3, OneHeadLess
<1>7. Cardinality(Heads(stream)) \in Nat /\ Cardinality(Heads(stream')) \in Nat
  BY <1>2, <1>4, HeadsFinite
<1> QED BY <1>1, <1>2, <1>3, <1>4, <1>5, <1>6, <1>7 DEF Begun, Framed

LEMMA ReadHeadHolds == ASSUME IInv, ReadHead PROVE IInv'
<1> DEFINE head == stream[1]
<1>1. /\ pc = "line" /\ stream' \in Seq(Units) /\ Framed' /\ Between(stream', owed', 0, head.follows)
      /\ Begun' = Begun + 1 /\ Begun \in Int /\ Head(stream) = head
      /\ head.follows \in Nat /\ head.close \in BOOLEAN
  BY HeadIsRead DEF Judgements
<1> HIDE DEF head
<1>2. /\ UNCHANGED <<loop, owed, sent, peer, remaining, draining>>
      /\ late' = IF draining THEN late + 1 ELSE late
      /\ ReadEmpty \/ ReadRefused \/ ReadOld \/ ReadAccepted
  BY DEF ReadHead
<1>3. answers = Begun /\ Good /\ ~limited /\ late \in Nat /\ late' \in Nat
  BY <1>1, <1>2 DEF IInv, Accounts, LimitKept, TypeOK
<1>4. loop # "cgi" => late' <= 1 /\ (late' > 0 => draining') /\ ~last.final
  BY <1>1, <1>2 DEF IInv, FinalKept
<1>5. MaxRequests > 0 => served < MaxRequests
  BY <1>1, Http1Assumption DEF IInv, LimitKept, TypeOK
<1>6. CASE ReadEmpty
  <2>1. /\ closing' = TRUE /\ forced' = FALSE /\ original' = TRUE /\ pc' = "after"
        /\ UNCHANGED <<kind, limited, length, served, answers, last>>
    BY <1>6 DEF ReadEmpty, Goto, out
  <2>2. TypeOK' /\ Placed' /\ Marked'
    BY <1>1, <1>2, <1>3, <2>1 DEF IInv, TypeOK, Placed, Marked, Units
  <2>3. Accounts' /\ LimitKept' /\ FinalKept'
    BY <1>1, <1>2, <1>3, <1>4, <2>1 DEF IInv, Accounts, LimitKept, FinalKept
  <2> QED BY <1>1, <2>2, <2>3 DEF IInv
<1>7. CASE ReadRefused
  <2>1. /\ closing' = TRUE /\ forced' = FALSE /\ original' = TRUE /\ pc' = "after"
        /\ answers' = answers + 1
        /\ last' = [announced |-> TRUE, state |-> "whole", final |-> limited \/ draining]
        /\ UNCHANGED <<kind, limited, length, served>>
    <3>1. closing \in BOOLEAN /\ draining \in BOOLEAN
      BY DEF IInv, TypeOK
    <3> QED BY <1>7, <3>1 DEF ReadRefused, Refuse, Answer, Answered, Announced, Goto
  <2>2. last' \in [announced : BOOLEAN, state : States, final : BOOLEAN] /\ last'.announced
        /\ last'.final = (limited \/ draining)
    BY <2>1 DEF IInv, TypeOK, States
  <2>3. answers' \in 0 .. MaxSent /\ answers' = Begun'
    <3>1. Begun' <= MaxSent
      <4>1. Cardinality(Heads(stream')) \in Nat
        BY <1>1, HeadsFinite
      <4> QED BY <1>2, <4>1, Http1Assumption DEF Begun, IInv, TypeOK
    <3> QED BY <1>1, <1>3, <2>1, <3>1, Http1Assumption DEF IInv, TypeOK
  <2>4. TypeOK' /\ Placed' /\ Marked'
    BY <1>1, <1>2, <1>3, <2>1, <2>2, <2>3 DEF IInv, TypeOK, Placed, Marked, Units
  <2>5. Accounts'
    BY <1>1, <2>1, <2>3 DEF Accounts
  <2>6. LimitKept'
    BY <2>1, <1>3 DEF IInv, LimitKept
  <2>7. FinalKept'
    BY <1>2, <1>3, <1>4, <2>1, <2>2 DEF IInv, FinalKept
  <2> QED BY <1>1, <2>4, <2>5, <2>6, <2>7 DEF IInv
<1>8. CASE ReadOld
  <2>1. /\ closing' = TRUE /\ forced' = FALSE /\ original' = TRUE /\ length' = 0 /\ pc' = "dispatch"
        /\ kind' \in Kinds(loop) /\ UNCHANGED <<limited, served, answers, last>>
        /\ head.verdict = "old"
    BY <1>1, <1>8 DEF ReadOld, Goto, out
  <2>2. head.follows = 0
    BY <2>1, HeadIsRead DEF head, Judgements
  <2>3. Placed' /\ Marked'
    BY <1>1, <2>1, <2>2 DEF Placed, Marked
  <2>4. TypeOK'
    BY <1>1, <1>2, <1>3, <2>1 DEF IInv, TypeOK, Units
  <2>5. Accounts' /\ LimitKept' /\ FinalKept'
    BY <1>1, <1>2, <1>3, <1>4, <1>5, <2>1 DEF IInv, Accounts, LimitKept, FinalKept
  <2> QED BY <1>1, <2>3, <2>4, <2>5 DEF IInv
<1>9. CASE ReadAccepted
  <2> DEFINE reached == LimitReached(served')
  <2>1. /\ served' = IF MaxRequests > 0 THEN served + 1 ELSE served
        /\ limited' = (limited \/ reached) /\ closing' = (head.close \/ reached) /\ original' = closing'
        /\ forced' = FALSE /\ length' = head.follows /\ kind' \in Kinds(loop) /\ pc' = "dispatch"
        /\ UNCHANGED <<answers, last>>
    BY <1>1, <1>9 DEF ReadAccepted, Goto, out
  <2>2. served \in Nat /\ served' \in Nat
    BY <2>1 DEF IInv, TypeOK
  <2>3. reached \in BOOLEAN /\ (reached <=> MaxRequests > 0 /\ served' >= MaxRequests)
    BY DEF LimitReached
  <2> HIDE DEF reached
  <2>4. limited' \in BOOLEAN /\ closing' \in BOOLEAN /\ (limited' <=> reached) /\ (limited' => closing')
    BY <1>1, <1>3, <2>1, <2>3
  <2>5. TypeOK'
    BY <1>1, <1>2, <1>3, <2>1, <2>2, <2>4 DEF IInv, TypeOK, Units
  <2>6. Placed' /\ Marked' /\ Accounts'
    BY <1>1, <1>2, <1>3, <2>1 DEF Placed, Marked, Accounts
  <2>7. LimitKept'
    <3>1. MaxRequests > 0 => served' <= MaxRequests /\ (served' = MaxRequests => reached)
      BY <1>5, <2>1, <2>2, <2>3, Http1Assumption
    <3> QED BY <2>1, <2>4, <3>1 DEF LimitKept
  <2>8. FinalKept'
    BY <1>2, <1>4, <2>1 DEF FinalKept
  <2> QED BY <1>1, <2>5, <2>6, <2>7, <2>8 DEF IInv
<1> QED BY <1>2, <1>6, <1>7, <1>8, <1>9

-----------------------------------------------------------------------------
(* Every step                                                              *)

\* What a thread's step is, if it neither reads nor answers.
LEMMA CutHolds == ASSUME IInv, BodyCut \/ BodyTimeout PROVE IInv'
<1>1. CASE ~UNCHANGED out
  BY <1>1, CutReplies, RepliesHolds
<1>2. CASE UNCHANGED out /\ pc' # "answer"
  BY <1>2, GivingUp, GivesUpHolds
<1>3. CASE BodyCut /\ pc' = "answer"
  BY <1>3, MovingHolds
<1>4. CASE BodyTimeout /\ pc' = "answer"
  BY <1>4 DEF BodyTimeout, Goto, Refuse, Answer
<1> QED BY <1>1, <1>2, <1>3, <1>4

LEMMA ServeHolds == ASSUME IInv, Serve PROVE IInv'
<1>1. CASE Begin \/ Wait \/ After \/ Require \/ BeginReading \/ Consume \/ AppAnswers \/ Drained \/ RejectedDrained
  BY <1>1, MovingHolds
<1>2. CASE WaitEnds \/ HeadTimeout
  BY <1>2, GivingUp, GivesUpHolds
<1>3. CASE \/ Unauthorized \/ ServeFile \/ WriteFails \/ TooLarge \/ RejectPut \/ HandlerFails
           \/ AnswerStored \/ AnswerScript \/ RelayShort \/ FailsAfterHead \/ FailsBeforeHead
           \/ \E declared, isHead, bodiless \in BOOLEAN : AnswerBuilt(declared, isHead, bodiless)
  BY <1>3, AnswersHold, RepliesHolds
<1>4. CASE BodyCut \/ BodyTimeout
  BY <1>4, CutHolds
<1>5. CASE DrainCut
  <2>1. CASE pc = "drain"
    BY <1>5, <2>1, GivingUp, GivesUpHolds
  <2>2. CASE pc = "rejected"
    BY <1>5, <2>2, MovingHolds
  <2> QED BY <1>5, <2>1, <2>2 DEF DrainCut
<1>6. CASE ReadHead
  BY <1>6, ReadHeadHolds
<1>7. CASE ReadOctet
  BY <1>7, ReadOctetHolds
<1> QED BY <1>1, <1>2, <1>3, <1>4, <1>5, <1>6, <1>7 DEF Serve, ServeRequest

LEMMA NextHolds == IInv /\ [Next]_vars => IInv'
<1> SUFFICES ASSUME IInv, [Next]_vars PROVE IInv'
  OBVIOUS
<1>1. CASE Serve
  BY <1>1, ServeHolds
<1>2. ASSUME NEW r \in Requests, Send(r) PROVE IInv'
  BY <1>2, SendHolds
<1>3. CASE SendOctet
  BY <1>3, SendOctetHolds
<1>4. CASE SendNoMore \/ BeginDraining \/ UNCHANGED vars
  BY <1>4, AroundHolds
<1> QED BY <1>1, <1>2, <1>3, <1>4 DEF Next

LEMMA Inductive == Spec => []IInv
<1> QED BY InitHolds, NextHolds, PTL DEF Spec

-----------------------------------------------------------------------------
(* The theorems                                                            *)

\* Whatever a handler does with a body, the next head is read where it begins,
\* and no reader reads into it (handler.py:921, _body.py:95).
THEOREM StaysInStep == Spec => []InStep
<1>1. IInv => InStep
  <2> SUFFICES ASSUME IInv PROVE InStep
    OBVIOUS
  <2>1. stream \in Seq(Units) /\ owed \in Nat /\ remaining \in Nat /\ 0 \in Nat
    BY DEF IInv, TypeOK, Units
  <2>2. ASSUME pc \in {"wait", "line"} PROVE Ahead = 0
    BY <2>1, <2>2, AheadIs DEF IInv, Placed
  <2>3. ASSUME pc \in {"handle", "read", "answer", "drain", "rejected"} PROVE remaining = Ahead
    BY <2>1, <2>3, AheadIs DEF IInv, Placed
  <2> QED BY <2>2, <2>3 DEF InStep, IInv
<1> QED BY <1>1, Inductive, PTL

\* When the next request is read, every one before it has had one response, and
\* none was cut or has another behind it (handler.py:516, _proxy.py:46).
THEOREM EachAnsweredOnce == Spec => []OneAnswerEach
<1>1. IInv => OneAnswerEach
  BY DEF IInv, Accounts, Good, OneAnswerEach
<1> QED BY <1>1, Inductive, PTL

\* Who answers has not announced the end before.
LEMMA AnswersLast ==
  ASSUME IInv, [Next]_vars, loop # "cgi", last.final
  PROVE  answers' = answers
<1>1. pc \in {"drain", "rejected", "after", "closed"}
  BY DEF IInv, FinalKept
<1> USE DEF client, policy, plan, counts, out, vars
<1>2. CASE UNCHANGED vars \/ SendOctet \/ SendNoMore \/ BeginDraining \/ \E r \in Requests : Send(r)
  BY <1>2 DEF SendOctet, SendNoMore, BeginDraining, Send
<1>3. CASE Serve
  <2>1. CASE ReadOctet \/ DrainCut \/ Drained \/ RejectedDrained \/ After
    BY <2>1 DEF ReadOctet, DrainCut, Drained, RejectedDrained, After
  <2>2. CASE Begin \/ Wait \/ WaitEnds \/ ReadHead \/ HeadTimeout \/ Require
    BY <1>1, <2>2 DEF Begin, Wait, WaitEnds, ReadHead, HeadTimeout, Require
  <2>3. CASE Unauthorized \/ ServeFile \/ WriteFails \/ TooLarge \/ RejectPut \/ BeginReading \/ Consume \/ AppAnswers
    BY <1>1, <2>3 DEF Unauthorized, ServeFile, WriteFails, TooLarge, RejectPut, BeginReading, Consume, AppAnswers, Reading
  <2>4. CASE \/ BodyCut \/ BodyTimeout \/ HandlerFails \/ AnswerStored \/ AnswerScript \/ RelayShort
             \/ FailsAfterHead \/ FailsBeforeHead
             \/ \E declared, isHead, bodiless \in BOOLEAN : AnswerBuilt(declared, isHead, bodiless)
    BY <1>1, <2>4 DEF BodyCut, BodyTimeout, HandlerFails, AnswerStored, AnswerScript, AnswerBuilt, RelayShort,
                      FailsAfterHead, FailsBeforeHead, Reading
  <2> QED BY <1>3, <2>1, <2>2, <2>3, <2>4 DEF Serve, ServeRequest
<1> QED BY <1>2, <1>3 DEF Next

\* Nothing follows the response that announces the end, at the request limit or
\* in a drain, and no more requests are read than either allows
\* (handler.py:242, 406, 1316).
THEOREM TheLastIsLast == Spec => LastIsLast
<1>1. IInv' => Bounded'
  BY DEF IInv, LimitKept, FinalKept, Bounded
<1>2. IInv /\ [Next]_vars => [Bounded' /\ (loop # "cgi" /\ last.final => answers' = answers)]_vars
  BY <1>1, NextHolds, AnswersLast
<1> QED BY <1>2, Inductive, PTL DEF Spec, LastIsLast

-----------------------------------------------------------------------------
(* The cache of flights                                                    *)

Rides == {"recheck", "compute", "put", "publish", "wait", "leave"}
Owners == {"recheck", "compute", "put", "publish"}

\* What is retained, each key once, with its count.
ItemsExact ==
  /\ items \in Seq(Keys) /\ IsInjective(items)
  /\ size = Counted(items) /\ size \in 0..MaxSize

FlightType == [references : Nat, outcome : {"none", "value", "error"}]
CallType ==
  [at : {"idle", "look", "join", "recheck", "compute", "put", "publish", "wait", "leave", "returned"},
   key : Keys \union {NoKey}, flight : Flights \union {NoFlight}, outcome : {"none", "value", "error"}]
CallTypes ==
  /\ flights \in [Keys -> Flights \union {NoFlight}]
  /\ flight \in [Flights -> FlightType]
  /\ call \in [Callers -> CallType]

\* A thread between its join and its leaving is aboard the flight of its key.
OnBoard ==
  /\ \A c \in Callers : call[c].at \in Rides <=> call[c].flight # NoFlight
  /\ \A c \in Callers : call[c].at \in Rides => flights[call[c].key] = call[c].flight
  /\ \A c \in Callers : call[c].at \notin {"idle", "returned"} => call[c].key \in Keys

\* A flight that is in the table is that of one key, and carries someone; the
\* others are as new.
Tabled ==
  /\ \A k, j \in Keys : flights[k] # NoFlight /\ flights[k] = flights[j] => k = j
  /\ \A k \in Keys : flights[k] # NoFlight => Aboard(flights[k]) # {}
  /\ \A f \in Flights : flight[f].references = Cardinality(Aboard(f))
  /\ \A f \in Flights : Aboard(f) = {} => flight[f] = NewFlight

\* One aboard is its owner; while the owner works there is no outcome, and who
\* leaves has the outcome of the flight.
OneOwner ==
  /\ \A c, d \in Callers : /\ call[c].at \in Owners /\ call[d].at \in Owners
                           /\ call[c].flight = call[d].flight
                           => c = d
  /\ \A c \in Callers : call[c].at \in Owners => flight[call[c].flight].outcome = "none"
  /\ \A c \in Callers : call[c].at = "leave" =>
       /\ flight[call[c].flight].outcome # "none"
       /\ call[c].outcome = flight[call[c].flight].outcome

CacheInv == ItemsExact /\ CallTypes /\ OnBoard /\ Tabled /\ OneOwner

-----------------------------------------------------------------------------
(* The replies                                                             *)

Admittees == {c \in Conns : conns[c] = "admitted"}

TaskType ==
  [at : {"none", "started", "building", "abandoned", "opening", "answering", "capacity", "reading",
         "closing", "raising", "done", "failed"},
   body : {"none", "bytes", "file", "head"}, left : Nat]
WireType ==
  [heads : Nat, data : Nat, queued : Nat, ended : BOOLEAN, refused : BOOLEAN, reset : BOOLEAN, error : BOOLEAN]
RequestType == [open : BOOLEAN, size : 0..MaxRequestBody, expected : Int]

TypesOfReplies ==
  /\ requests \in [Streams -> RequestType]
  /\ task \in [Streams -> TaskType]
  /\ wire \in [Streams -> WireType]
  /\ listener \in {"starting", "serving", "stopping", "failed", "ended"}
  /\ owner \in {"waiting", "raised", "running", "closing", "closed", "stuck"} /\ stop \in BOOLEAN
  /\ conns \in [Conns -> {"none", "admitted", "refused", "lost"}]
  /\ arrived \in [Streams -> {"none", "open", "trailers", "ended"}]
  /\ rejected \subseteq Streams
  /\ handle \in [Streams -> {"none", "open", "closed", "dropped"}]

\* The places that are taken.
PlacesCounted ==
  /\ active \in 0..MaxConnections
  /\ IsFiniteSet(Admittees) /\ active = Cardinality(Admittees)

\* Who has sent something has a connection that was admitted; who has a task
\* has sent all of the request.
Founded(s) ==
  /\ arrived[s] # "none" => conns[ConnOf[s]] \in {"admitted", "lost"} /\ listener \notin {"starting", "failed"}
  /\ task[s].at # "none" => arrived[s] = "ended"
  /\ task[s].at = "none" => task[s].body = "none" /\ handle[s] = "none"

\* What a stream was given before its reply: nothing, or a refusal.
Silent(s) == wire[s].heads = 0 /\ wire[s].data = 0 /\ ~wire[s].ended /\ ~wire[s].refused /\ ~wire[s].reset
WasRefused(s) == wire[s].heads = 1 /\ wire[s].data = 0 /\ wire[s].ended /\ wire[s].refused /\ ~wire[s].reset
Streaming(s) == /\ wire[s].heads = 1 /\ ~wire[s].ended /\ ~wire[s].refused /\ ~wire[s].reset
                /\ task[s].body = "file"
                /\ task[s].left \in 1..FileSize /\ wire[s].data + task[s].left = FileSize
Replied(s) == /\ wire[s].heads = 1 /\ ~wire[s].refused /\ ~(wire[s].ended /\ wire[s].reset)
              /\ wire[s].ended => task[s].body \in {"bytes", "head"} \/ wire[s].data = FileSize
              /\ task[s].body = "head" => wire[s].data = 0

ReplySound(s) ==
  /\ task[s].at \notin {"capacity", "reading", "closing", "raising", "done", "failed"} =>
       Silent(s) \/ WasRefused(s)
  /\ task[s].at \in {"capacity", "reading"} => Streaming(s)
  /\ task[s].at \in {"closing", "raising", "done", "failed"} => Silent(s) \/ WasRefused(s) \/ Replied(s)
  /\ task[s].at \in {"opening", "closing", "raising"} => task[s].body \in {"file", "head"}
  /\ task[s].at = "answering" => task[s].body # "none"
  /\ task[s].at \in {"opening", "answering"} /\ task[s].body = "file" => task[s].left = FileSize
  /\ handle[s] = "open" => /\ task[s].body \in {"file", "head"}
                           /\ task[s].at \in {"answering", "capacity", "reading", "closing", "raising"}
  /\ handle[s] = "dropped" => ~Live(s)
  /\ handle[s] # "none" => task[s].at # "none"

RepliesInv ==
  /\ TypesOfReplies /\ PlacesCounted
  /\ \A s \in Streams : Founded(s) /\ ReplySound(s)

-----------------------------------------------------------------------------
(* Sequences of keys                                                       *)

LEMMA SetOfSeq ==
    ASSUME NEW S, NEW s \in Seq(S)
    PROVE  /\ ToSet(s) = {s[i] : i \in 1..Len(s)} /\ ToSet(s) \in SUBSET S
           /\ IsFiniteSet(ToSet(s))
  <1>1. ToSet(s) = {s[i] : i \in 1..Len(s)} /\ ToSet(s) \in SUBSET S
    BY DEF ToSet
  <1> DEFINE f == [i \in 1..Len(s) |-> s[i]]
  <1>2. f \in Surjection(1..Len(s), ToSet(s))
    BY <1>1 DEF Surjection
  <1>3. IsFiniteSet(1..Len(s))
    BY FS_Interval
  <1>4. QED
    BY <1>1, <1>2, <1>3, FS_Surjection

LEMMA UnitsFinite ==
    ASSUME NEW k \in Keys
    PROVE  IsFiniteSet(UnitsOf(k))
  <1>1. SizeOf[k] \in Nat
    BY CacheAssumption
  <1>2. IsFiniteSet(1..SizeOf[k])
    BY <1>1, FS_Interval
  <1>3. IsFiniteSet({k})
    BY FS_Singleton
  <1>4. QED
    BY <1>2, <1>3, FS_Product, Zenon DEF UnitsOf

LEMMA CountIsNat ==
    ASSUME NEW s \in Seq(Keys)
    PROVE  Counted(s) \in Nat
  <1> DEFINE K == ToSet(s)
             All == {UnitsOf(k) : k \in K}
  <1>1. IsFiniteSet(K) /\ K \in SUBSET Keys
    BY SetOfSeq
  <1>2. IsFiniteSet(All)
    <2> DEFINE f == [k \in K |-> UnitsOf(k)]
    <2>1. f \in Surjection(K, All)
      BY DEF Surjection
    <2>2. QED
      BY <1>1, <2>1, FS_Surjection
  <1>3. \A B \in All : IsFiniteSet(B)
    BY <1>1, UnitsFinite
  <1>4. IsFiniteSet(UNION All)
    BY <1>2, <1>3, FS_UNION
  <1>5. QED
    BY <1>4, FS_CardinalityType DEF Counted

LEMMA NothingCounted == Counted(<<>>) = 0
  <1>1. UNION {UnitsOf(k) : k \in ToSet(<<>>)} = {}
    BY DEF ToSet
  <1>2. QED
    BY <1>1, FS_EmptySet DEF Counted

LEMMA PieceOf ==
    ASSUME NEW S, NEW s \in Seq(S), NEW a \in Nat, NEW b \in Nat, 1 <= a, a <= b + 1, b <= Len(s)
    PROVE  /\ SubSeq(s, a, b) \in Seq(S) /\ Len(SubSeq(s, a, b)) = b - a + 1
           /\ \A i \in 1..b - a + 1 : SubSeq(s, a, b)[i] = s[a + i - 1]
  OBVIOUS

LEMMA JoinOf ==
    ASSUME NEW S, NEW s \in Seq(S), NEW t \in Seq(S)
    PROVE  /\ s \o t \in Seq(S) /\ Len(s \o t) = Len(s) + Len(t)
           /\ \A i \in 1..Len(s) : (s \o t)[i] = s[i]
           /\ \A i \in 1..Len(t) : (s \o t)[Len(s) + i] = t[i]
  OBVIOUS

LEMMA Taken ==
    ASSUME NEW s \in Seq(Keys), IsInjective(s), NEW n \in 1..Len(s)
    PROVE  LET rest == RemoveAt(s, n) IN
           /\ rest \in Seq(Keys) /\ IsInjective(rest)
           /\ ToSet(rest) = ToSet(s) \ {s[n]}
  <1> DEFINE a == SubSeq(s, 1, n - 1)
             b == SubSeq(s, n + 1, Len(s))
             rest == a \o b
  <1>1. RemoveAt(s, n) = rest /\ Len(s) \in Nat /\ n \in Nat /\ DOMAIN s = 1..Len(s)
    BY DEF RemoveAt
  <1>2. /\ a \in Seq(Keys) /\ Len(a) = n - 1
        /\ \A i \in 1..n - 1 : a[i] = s[i]
    BY <1>1, PieceOf
  <1>3. /\ b \in Seq(Keys) /\ Len(b) = Len(s) - n
        /\ \A i \in 1..Len(s) - n : b[i] = s[n + i]
    <2>1. /\ b \in Seq(Keys) /\ Len(b) = Len(s) - (n + 1) + 1
          /\ \A i \in 1..Len(s) - (n + 1) + 1 : b[i] = s[n + 1 + i - 1]
      <3>1. n + 1 \in Nat /\ 1 <= n + 1 /\ n + 1 <= Len(s) + 1 /\ Len(s) <= Len(s)
        BY <1>1
      <3>2. QED
        BY <1>1, <3>1, PieceOf
    <2>2. Len(s) - (n + 1) + 1 = Len(s) - n /\ \A i \in 1..Len(s) - n : n + 1 + i - 1 = n + i
      BY <1>1
    <2>3. QED
      BY <2>1, <2>2
  <1> HIDE DEF a, b
  <1>4. /\ rest \in Seq(Keys) /\ Len(rest) = Len(a) + Len(b)
        /\ \A i \in 1..Len(a) : rest[i] = a[i]
        /\ \A i \in 1..Len(b) : rest[Len(a) + i] = b[i]
    <2>1. a \in Seq(Keys) /\ b \in Seq(Keys)
      BY <1>2, <1>3
    <2>2. QED
      BY <2>1, JoinOf
  <1> HIDE DEF rest
  <1> DEFINE from == [i \in 1..Len(s) - 1 |-> IF i < n THEN i ELSE i + 1]
  <1>5. Len(rest) = Len(s) - 1 /\ DOMAIN rest = 1..Len(s) - 1
    BY <1>1, <1>2, <1>3, <1>4
  <1>6. ASSUME NEW i \in 1..Len(s) - 1
        PROVE  /\ rest[i] = s[from[i]] /\ from[i] \in 1..Len(s) /\ from[i] # n
    <2>1. CASE i < n
      BY <1>1, <1>2, <1>4, <2>1
    <2>2. CASE ~(i < n)
      <3> DEFINE j == i - (n - 1)
      <3>1. j \in 1..Len(b) /\ Len(a) + j = i /\ n + j = i + 1 /\ j \in 1..Len(s) - n
        BY <1>1, <1>2, <1>3, <2>2
      <3>2. rest[Len(a) + j] = b[j] /\ b[j] = s[n + j]
        BY <1>3, <1>4, <3>1
      <3>3. QED
        BY <1>1, <2>2, <3>1, <3>2
    <2>3. QED
      BY <2>1, <2>2
  <1>7. ASSUME NEW i \in 1..Len(s), i # n
        PROVE  \E j \in 1..Len(s) - 1 : from[j] = i
    <2>1. CASE i < n
      <3>1. i \in 1..Len(s) - 1 /\ from[i] = i
        BY <1>1, <2>1
      <3>2. QED
        BY <3>1
    <2>2. CASE i > n
      <3>1. i - 1 \in 1..Len(s) - 1 /\ from[i - 1] = i
        BY <1>1, <2>2
      <3>2. QED
        BY <3>1
    <2>3. QED
      BY <1>1, <1>7, <2>1, <2>2
  <1>8. \A i, j \in 1..Len(s) - 1 : from[i] = from[j] => i = j
    BY <1>1
  <1> HIDE DEF from
  <1>9. IsInjective(rest)
    <2> SUFFICES ASSUME NEW i \in 1..Len(s) - 1, NEW j \in 1..Len(s) - 1, rest[i] = rest[j]
                 PROVE  i = j
      BY <1>5 DEF IsInjective
    <2>1. s[from[i]] = s[from[j]] /\ from[i] \in DOMAIN s /\ from[j] \in DOMAIN s
      BY <1>1, <1>6
    <2>2. QED
      BY <1>8, <2>1 DEF IsInjective
  <1>10. ToSet(rest) = ToSet(s) \ {s[n]}
    <2>1. ToSet(rest) = {rest[i] : i \in 1..Len(s) - 1} /\ ToSet(s) = {s[i] : i \in 1..Len(s)}
      BY <1>1, <1>5 DEF ToSet
    <2>2. ASSUME NEW i \in 1..Len(s) - 1 PROVE rest[i] \in ToSet(s) \ {s[n]}
      <3>1. rest[i] = s[from[i]] /\ from[i] \in 1..Len(s) /\ from[i] # n
        BY <1>6
      <3>2. s[from[i]] # s[n]
        BY <1>1, <3>1 DEF IsInjective
      <3>3. QED
        BY <2>1, <3>1, <3>2
    <2>3. ASSUME NEW i \in 1..Len(s), s[i] # s[n] PROVE s[i] \in ToSet(rest)
      <3>1. PICK j \in 1..Len(s) - 1 : from[j] = i
        BY <1>7, <2>3
      <3>2. QED
        BY <1>6, <2>1, <3>1
    <2>4. QED
      BY <2>1, <2>2, <2>3
  <1>11. QED
    BY <1>1, <1>4, <1>9, <1>10

LEMMA Touching ==
    ASSUME items \in Seq(Keys), IsInjective(items), NEW k \in Keys
    PROVE  /\ Touched(k) \in Seq(Keys) /\ IsInjective(Touched(k))
           /\ ToSet(Touched(k)) = ToSet(items) \union {k}
  <1> DEFINE rest == Without(k)
  <1>1. rest \in Seq(Keys) /\ IsInjective(rest) /\ ToSet(rest) = ToSet(items) \ {k}
    <2>1. CASE k \in ToSet(items)
      <3> DEFINE n == CHOOSE i \in DOMAIN items : items[i] = k
      <3>1. n \in DOMAIN items /\ items[n] = k
        BY <2>1 DEF ToSet
      <3>2. n \in 1..Len(items)
        BY <3>1
      <3>3. rest = RemoveAt(items, n)
        BY <2>1 DEF Without
      <3> HIDE DEF n
      <3>4. QED
        BY <3>1, <3>2, <3>3, Taken
    <2>2. CASE k \notin ToSet(items)
      BY <2>2 DEF Without
    <2>3. QED
      BY <2>1, <2>2
  <1> HIDE DEF rest
  <1>2. Touched(k) = Append(rest, k)
    BY DEF Touched, rest
  <1> DEFINE t == Append(rest, k)
  <1>3. /\ t \in Seq(Keys) /\ Len(t) = Len(rest) + 1 /\ t[Len(rest) + 1] = k
        /\ DOMAIN t = 1..Len(rest) + 1 /\ DOMAIN rest = 1..Len(rest) /\ Len(rest) \in Nat
        /\ \A i \in 1..Len(rest) : t[i] = rest[i]
    BY <1>1
  <1> HIDE DEF t
  <1>4. \A i \in 1..Len(rest) : rest[i] # k
    BY <1>1, <1>3 DEF ToSet
  <1>5. \A i \in 1..Len(rest) + 1 : i \in 1..Len(rest) \/ i = Len(rest) + 1
    BY <1>3
  <1>6. IsInjective(t)
    <2> SUFFICES ASSUME NEW i \in 1..Len(rest) + 1, NEW j \in 1..Len(rest) + 1, t[i] = t[j]
                 PROVE  i = j
      BY <1>3 DEF IsInjective
    <2>1. CASE i \in 1..Len(rest) /\ j \in 1..Len(rest)
      BY <1>1, <1>3, <2>1 DEF IsInjective
    <2>2. CASE i = Len(rest) + 1 \/ j = Len(rest) + 1
      BY <1>3, <1>4, <1>5, <2>2
    <2>3. QED
      BY <1>5, <2>1, <2>2
  <1>7. ToSet(t) = ToSet(rest) \union {k}
    <2>1. ToSet(t) = {t[i] : i \in 1..Len(rest) + 1} /\ ToSet(rest) = {rest[i] : i \in 1..Len(rest)}
      BY <1>3 DEF ToSet
    <2>2. k \in ToSet(t)
      BY <1>3, <2>1
    <2>3. ToSet(rest) \subseteq ToSet(t)
      BY <1>3, <2>1
    <2>4. ToSet(t) \subseteq ToSet(rest) \union {k}
      BY <1>3, <1>5, <2>1
    <2>5. QED
      BY <2>2, <2>3, <2>4
  <1>8. QED
    BY <1>1, <1>2, <1>3, <1>6, <1>7 DEF t

\* A set of numbers up to n has a least one.
LEMMA LeastOne ==
    ASSUME NEW n \in Nat, NEW S \in SUBSET (0..n), S # {}
    PROVE  \E i \in S : \A j \in S : i <= j
  <1> DEFINE T == {0..i : i \in S}
  <1>1. T \subseteq FiniteSubsetsOf(Nat) /\ T # {}
    <2>1. \A i \in S : 0..i \in SUBSET Nat /\ IsFiniteSet(0..i)
      BY FS_Interval
    <2>2. QED
      BY <2>1 DEF FiniteSubsetsOf
  <1>2. PICK I \in T : \A J \in T : <<J, I>> \notin StrictSubsetOrdering(Nat)
    <2> HIDE DEF T
    <2>1. QED
      BY <1>1, WFMin, FS_StrictSubsetOrderingWellFounded
  <1>3. PICK i \in S : I = 0..i
    OBVIOUS
  <1>4. ASSUME NEW j \in S, j < i PROVE FALSE
    <2>1. 0..j \subseteq 0..i /\ i \in 0..i /\ i \notin 0..j /\ 0..i \subseteq Nat
      BY <1>4
    <2>2. <<0..j, I>> \in StrictSubsetOrdering(Nat)
      BY <1>3, <2>1 DEF StrictSubsetOrdering
    <2>3. QED
      BY <1>2, <2>2
  <1>5. QED
    BY <1>4

LEMMA Evicting ==
    ASSUME NEW s \in Seq(Keys), IsInjective(s)
    PROVE  /\ Evicted(s) \in Seq(Keys) /\ IsInjective(Evicted(s))
           /\ Counted(Evicted(s)) \in 0..MaxSize
  <1> DEFINE fitting == {i \in 0..Len(s) : Counted(SubSeq(s, i + 1, Len(s))) <= MaxSize}
             gone == CHOOSE i \in fitting : \A j \in fitting : i <= j
  <1>1. Len(s) \in fitting
    <2>1. SubSeq(s, Len(s) + 1, Len(s)) = <<>> /\ Len(s) \in 0..Len(s)
      OBVIOUS
    <2>2. Counted(SubSeq(s, Len(s) + 1, Len(s))) <= MaxSize
      <3>1. Counted(SubSeq(s, Len(s) + 1, Len(s))) = 0
        BY <2>1, NothingCounted, Zenon
      <3>2. QED
        BY <3>1, CacheAssumption
    <2>3. QED
      BY <2>1, <2>2
  <1>2. gone \in fitting
    <2>1. fitting \in SUBSET (0..Len(s)) /\ Len(s) \in Nat
      OBVIOUS
    <2> HIDE DEF fitting
    <2>2. \E i \in fitting : \A j \in fitting : i <= j
      BY <1>1, <2>1, LeastOne
    <2>3. QED
      BY <2>2
  <1> HIDE DEF gone
  <1> DEFINE rest == SubSeq(s, gone + 1, Len(s))
  <1>3. Evicted(s) = rest
    BY DEF Evicted, gone
  <1>4. gone \in 0..Len(s) /\ Counted(rest) <= MaxSize /\ Len(s) \in Nat
    BY <1>2
  <1>5. /\ rest \in Seq(Keys) /\ Len(rest) = Len(s) - gone
        /\ \A i \in 1..Len(s) - gone : rest[i] = s[gone + i]
    <2>1. /\ rest \in Seq(Keys) /\ Len(rest) = Len(s) - (gone + 1) + 1
          /\ \A i \in 1..Len(s) - (gone + 1) + 1 : rest[i] = s[gone + 1 + i - 1]
      BY <1>4, PieceOf
    <2>2. Len(s) - (gone + 1) + 1 = Len(s) - gone /\ \A i \in 1..Len(s) - gone : gone + 1 + i - 1 = gone + i
      BY <1>4
    <2> HIDE DEF rest
    <2>3. QED
      BY <2>1, <2>2
  <1> HIDE DEF rest
  <1>6. IsInjective(rest)
    <2> SUFFICES ASSUME NEW i \in 1..Len(s) - gone, NEW j \in 1..Len(s) - gone, rest[i] = rest[j]
                 PROVE  i = j
      BY <1>5 DEF IsInjective
    <2>1. gone + i \in DOMAIN s /\ gone + j \in DOMAIN s /\ s[gone + i] = s[gone + j]
      <3>1. DOMAIN s = 1..Len(s)
        OBVIOUS
      <3>2. gone + i \in 1..Len(s) /\ gone + j \in 1..Len(s)
        BY <1>4
      <3>3. QED
        BY <1>5, <3>1, <3>2
    <2>2. gone + i = gone + j
      BY <2>1 DEF IsInjective
    <2>3. QED
      BY <1>4, <2>2
  <1>7. Counted(rest) \in Nat
    BY <1>5, CountIsNat
  <1>8. QED
    BY <1>3, <1>4, <1>5, <1>6, <1>7, CacheAssumption

-----------------------------------------------------------------------------
(* The steps of the cache                                                  *)

LEMMA CacheStarts == CacheInit => CacheInv
  <1> SUFFICES ASSUME CacheInit PROVE CacheInv
    OBVIOUS
  <1> USE DEF CacheInit
  <1>1. ItemsExact
    BY NothingCounted, CacheAssumption DEF ItemsExact, IsInjective
  <1>2. CallTypes
    BY DEF CallTypes, CallType, FlightType, NewFlight, Idle
  <1>3. OnBoard
    BY DEF OnBoard, Idle, Rides
  <1>4. \A f \in Flights : Aboard(f) = {}
    BY DEF Aboard, Idle, Flights, NoFlight
  <1>5. Tabled
    BY <1>4, FS_EmptySet DEF Tabled, NewFlight
  <1>6. OneOwner
    BY DEF OneOwner, Idle, Owners
  <1>7. QED
    BY <1>1, <1>2, <1>3, <1>5, <1>6 DEF CacheInv

Forgets(c) == At(c, "returned") /\ Idles(c) /\ UNCHANGED <<items, size, flights, flight>>
CacheStep ==
  \/ \E c \in Callers : Runs(c) \/ Forgets(c) \/ \E k \in Keys : Call(c, k)
  \/ UNCHANGED cacheVars

LEMMA ItemsKept ==
    ASSUME CacheInv, CacheStep
    PROVE  ItemsExact'
  <1> USE DEF CacheInv
  <1>1. CASE UNCHANGED <<items, size>>
    BY <1>1 DEF ItemsExact, Counted
  <1>2. ASSUME NEW c \in Callers, Look(c) \/ Recheck(c) PROVE ItemsExact'
    <2> DEFINE k == call[c].key
    <2>1. k \in Keys
      BY <1>2 DEF OnBoard, Look, Recheck, At
    <2>2. UNCHANGED size
      BY <1>2 DEF Look, Recheck
    <2>3. CASE UNCHANGED items
      BY <1>1, <2>2, <2>3
    <2>4. CASE items' = Touched(k) /\ Retained(k)
      <3>1. /\ items' \in Seq(Keys) /\ IsInjective(items') /\ ToSet(items') = ToSet(items) \union {k}
        BY <2>1, <2>4, Touching DEF ItemsExact
      <3>2. ToSet(items') = ToSet(items)
        BY <2>4, <3>1 DEF Retained
      <3>3. Counted(items') = Counted(items)
        BY <3>2 DEF Counted
      <3>4. QED
        BY <2>2, <3>1, <3>3 DEF ItemsExact
    <2>5. QED
      BY <1>2, <2>3, <2>4 DEF Look, Recheck
  <1>3. ASSUME NEW c \in Callers, Put(c) PROVE ItemsExact'
    <2> DEFINE k == call[c].key
    <2>1. k \in Keys
      BY <1>3 DEF OnBoard, Put, At
    <2>2. size' = Counted(items')
      BY <1>3 DEF Put
    <2>3. CASE items' = items
      BY <2>2, <2>3 DEF ItemsExact
    <2>4. CASE items' = Evicted(Touched(k))
      <3>1. Touched(k) \in Seq(Keys) /\ IsInjective(Touched(k))
        BY <2>1, Touching DEF ItemsExact
      <3>2. items' \in Seq(Keys) /\ IsInjective(items') /\ Counted(items') \in 0..MaxSize
        BY <2>4, <3>1, Evicting
      <3>3. QED
        BY <2>2, <3>2 DEF ItemsExact
    <2>5. QED
      BY <1>3, <2>3, <2>4 DEF Put
  <1>4. QED
    BY <1>1, <1>2, <1>3
       DEF CacheStep, Runs, Forgets, Call, Join, Compute, ComputeFails, Publish, Await, Leave, cacheVars

\* Someone who joins finds a flight that nobody is aboard.
LEMMA FreeFlight ==
    ASSUME CallTypes, Tabled, NEW c \in Callers, call[c].flight = NoFlight
    PROVE  \E g \in Flights : flight[g].references = 0
  <1> SUFFICES ASSUME \A g \in Flights : flight[g].references # 0
               PROVE  FALSE
    OBVIOUS
  <1> DEFINE Rest == Callers \ {c}
             h == [d \in Rest |-> call[d].flight]
             Im == {call[d].flight : d \in Rest}
             N == Cardinality(Callers)
  <1>1. IsFiniteSet(Callers) /\ N \in Nat
    BY CacheAssumption, FS_CardinalityType
  <1>2. IsFiniteSet(Rest) /\ Cardinality(Rest) = N - 1
    BY <1>1, FS_RemoveElement
  <1>3. h \in Surjection(Rest, Im)
    BY DEF Surjection
  <1>4. IsFiniteSet(Im) /\ Cardinality(Im) <= Cardinality(Rest)
    BY <1>2, <1>3, FS_Surjection
  <1>5. Flights \subseteq Im
    <2> SUFFICES ASSUME NEW g \in Flights PROVE g \in Im
      OBVIOUS
    <2>1. Aboard(g) # {}
      BY FS_EmptySet DEF Tabled
    <2>2. PICK d \in Callers : call[d].flight = g
      BY <2>1 DEF Aboard
    <2>3. g # NoFlight
      BY DEF Flights, NoFlight
    <2>4. QED
      BY <2>2, <2>3
  <1>6. IsFiniteSet(Flights) /\ Cardinality(Flights) = N
    BY <1>1, FS_Interval DEF Flights
  <1>7. Cardinality(Flights) <= Cardinality(Im) /\ Cardinality(Im) \in Nat
    BY <1>4, <1>5, FS_Subset, FS_CardinalityType
  <1>8. QED
    BY <1>1, <1>2, <1>4, <1>6, <1>7

Places == {"idle", "look", "join", "recheck", "compute", "put", "publish", "wait", "leave", "returned"}

\* No call but one changes.
Alone(c) == call' \in [Callers -> CallType] /\ \A d \in Callers : d # c => call'[d] = call[d]

\* Every step of a call, as what it makes of its record.
Becomes(c, a, f, o) == call' = [call EXCEPT ![c] = [@ EXCEPT !.at = a, !.flight = f, !.outcome = o]]

LEMMA CallChanged ==
    ASSUME CallTypes, NEW c \in Callers, NEW a \in Places,
           NEW f \in Flights \union {NoFlight}, NEW o \in {"none", "value", "error"}, Becomes(c, a, f, o)
    PROVE  /\ Alone(c)
           /\ call'[c].at = a /\ call'[c].flight = f /\ call'[c].outcome = o /\ call'[c].key = call[c].key
  <1>1. call[c] \in CallType /\ call \in [Callers -> CallType]
    BY DEF CallTypes
  <1> DEFINE new == [call[c] EXCEPT !.at = a, !.flight = f, !.outcome = o]
  <1>2. new \in CallType /\ new.at = a /\ new.flight = f /\ new.outcome = o /\ new.key = call[c].key
    BY <1>1 DEF CallType, Places
  <1> HIDE DEF new
  <1>3. call' = [call EXCEPT ![c] = new]
    BY DEF new, Becomes
  <1>4. QED
    BY <1>1, <1>2, <1>3 DEF Alone

LEMMA RecordSame ==
    ASSUME NEW r \in CallType
    PROVE  /\ \A a : [r EXCEPT !.at = a] = [r EXCEPT !.at = a, !.flight = r.flight, !.outcome = r.outcome]
           /\ \A a, f : [r EXCEPT !.at = a, !.flight = f] = [r EXCEPT !.at = a, !.flight = f, !.outcome = r.outcome]
           /\ \A a, o : [r EXCEPT !.at = a, !.outcome = o] = [r EXCEPT !.at = a, !.flight = r.flight, !.outcome = o]
  BY DEF CallType

LEMMA Steps ==
    ASSUME CallTypes, NEW c \in Callers
    PROVE  /\ \A a : Move(c, a) => Becomes(c, a, call[c].flight, call[c].outcome)
           /\ \A o : Return(c, o) => Becomes(c, "returned", call[c].flight, o)
           /\ \A o : Leaves(c, o) => Becomes(c, "leave", call[c].flight, o)
           /\ \A a, f : call' = [call EXCEPT ![c].at = a, ![c].flight = f] => Becomes(c, a, f, call[c].outcome)
  <1>1. call[c] \in CallType /\ call \in [Callers -> CallType]
    BY DEF CallTypes
  <1>2. \A x : [call EXCEPT ![c] = x] = [d \in Callers |-> IF d = c THEN x ELSE call[d]]
    BY <1>1
  <1>3. ASSUME NEW a, Move(c, a) PROVE Becomes(c, a, call[c].flight, call[c].outcome)
    <2>1. call' = [call EXCEPT ![c] = [call[c] EXCEPT !.at = a]]
      BY <1>3 DEF Move
    <2>2. QED
      BY <1>1, <2>1, RecordSame DEF Becomes
  <1>4. ASSUME NEW o, Return(c, o) PROVE Becomes(c, "returned", call[c].flight, o)
    <2>1. call' = [call EXCEPT ![c] = [call[c] EXCEPT !.at = "returned", !.outcome = o]]
      BY <1>1, <1>4 DEF Return
    <2>2. QED
      BY <1>1, <2>1, RecordSame DEF Becomes
  <1>5. ASSUME NEW o, Leaves(c, o) PROVE Becomes(c, "leave", call[c].flight, o)
    <2>1. call' = [call EXCEPT ![c] = [call[c] EXCEPT !.at = "leave", !.outcome = o]]
      BY <1>1, <1>5 DEF Leaves
    <2>2. QED
      BY <1>1, <2>1, RecordSame DEF Becomes
  <1>6. ASSUME NEW a, NEW f, call' = [call EXCEPT ![c].at = a, ![c].flight = f]
        PROVE  Becomes(c, a, f, call[c].outcome)
    <2>1. call' = [call EXCEPT ![c] = [call[c] EXCEPT !.at = a, !.flight = f]]
      BY <1>1, <1>6
    <2>2. QED
      BY <1>1, <2>1, RecordSame DEF Becomes
  <1>7. QED
    BY <1>3, <1>4, <1>5, <1>6

-----------------------------------------------------------------------------
\* What a step changes of the calls and of the flights: one call, and perhaps
\* the flight it joins, leads or leaves.
Works(c) ==
  /\ UNCHANGED <<flights, flight>>
  /\ call'[c].flight = call[c].flight /\ call'[c].key = call[c].key
  /\ \/ call[c].at \in Owners /\ call'[c].at \in Owners
     \/ call[c].at = "look" /\ call'[c].at \in {"join", "returned"}
     \/ /\ call[c].at = "wait" /\ call'[c].at = "leave"
        /\ call'[c].outcome = flight[call[c].flight].outcome /\ call'[c].outcome # "none"

Tells(c) ==
  /\ UNCHANGED flights /\ call[c].at \in Owners /\ call'[c].at = "leave"
  /\ call'[c].flight = call[c].flight /\ call'[c].key = call[c].key
  /\ call'[c].outcome \in {"value", "error"}
  /\ flight' = [flight EXCEPT ![call[c].flight] = [@ EXCEPT !.outcome = call'[c].outcome]]

Joins(c) ==
  /\ call[c].at = "join" /\ call[c].flight = NoFlight /\ call[c].key \in Keys
  /\ call'[c].flight \in Flights /\ call'[c].key = call[c].key
  /\ flights' = [flights EXCEPT ![call[c].key] = call'[c].flight]
  /\ flight' = [flight EXCEPT ![call'[c].flight] =
       [flight[call'[c].flight] EXCEPT !.references = flight[call'[c].flight].references + 1]]
  /\ \/ /\ call'[c].at = "recheck" /\ flights[call[c].key] = NoFlight
        /\ Aboard(call'[c].flight) = {} /\ flight[call'[c].flight] = NewFlight
     \/ call'[c].at = "wait" /\ flights[call[c].key] = call'[c].flight

Departs(c) ==
  /\ call[c].at = "leave" /\ call[c].flight \in Flights /\ call[c].key \in Keys
  /\ flights[call[c].key] = call[c].flight
  /\ call'[c].at = "returned" /\ call'[c].flight = NoFlight /\ call'[c].key = call[c].key
  /\ \/ /\ Aboard(call[c].flight) = {c}
        /\ flight' = [flight EXCEPT ![call[c].flight] = NewFlight]
        /\ flights' = [flights EXCEPT ![call[c].key] = NoFlight]
     \/ /\ Aboard(call[c].flight) # {c}
        /\ flight' = [flight EXCEPT ![call[c].flight] =
             [flight[call[c].flight] EXCEPT !.references = flight[call[c].flight].references - 1]]
        /\ flights' = flights

Turns(c) ==
  /\ UNCHANGED <<flights, flight>>
  /\ call[c].flight = NoFlight /\ call'[c].flight = NoFlight
  /\ \/ call'[c].at = "idle"
     \/ call'[c].at = "look" /\ call'[c].key \in Keys

Changes(c) == Alone(c) /\ (Works(c) \/ Tells(c) \/ Joins(c) \/ Departs(c) \/ Turns(c))

LEMMA WorkChanges ==
    ASSUME CacheInv, NEW c \in Callers, Look(c) \/ Recheck(c) \/ Compute(c) \/ Put(c) \/ Await(c)
    PROVE  Changes(c)
  <1> USE DEF CacheInv, At
  <1>1. /\ call[c] \in CallType /\ call[c].flight \in Flights \union {NoFlight}
        /\ call[c].outcome \in {"none", "value", "error"}
    BY DEF CallTypes, CallType
  <1>2. ASSUME NEW a \in {"join", "returned", "publish", "compute", "put"}, NEW o \in {call[c].outcome, "value"},
               Becomes(c, a, call[c].flight, o), UNCHANGED <<flights, flight>>,
               \/ call[c].at \in Owners /\ a \in Owners
               \/ call[c].at = "look" /\ a \in {"join", "returned"}
        PROVE  Changes(c)
    <2>1. a \in Places /\ o \in {"none", "value", "error"}
      BY <1>1 DEF Places
    <2>2. Alone(c) /\ call'[c].at = a /\ call'[c].flight = call[c].flight /\ call'[c].key = call[c].key
      BY <1>1, <1>2, <2>1, CallChanged
    <2>3. QED
      BY <1>2, <2>2 DEF Changes, Works
  <1>3. CASE Look(c)
    <2>1. Becomes(c, "returned", call[c].flight, "value") \/ Becomes(c, "join", call[c].flight, call[c].outcome)
      BY <1>3, Steps DEF Look
    <2>2. call[c].at = "look" /\ UNCHANGED <<flights, flight>>
      BY <1>3 DEF Look
    <2>3. QED
      BY <1>2, <2>1, <2>2
  <1>4. CASE Recheck(c)
    <2>1. Becomes(c, "publish", call[c].flight, call[c].outcome) \/ Becomes(c, "compute", call[c].flight, call[c].outcome)
      BY <1>4, Steps DEF Recheck
    <2>2. call[c].at \in Owners /\ UNCHANGED <<flights, flight>> /\ "publish" \in Owners /\ "compute" \in Owners
      BY <1>4 DEF Recheck, Owners
    <2>3. QED
      BY <1>2, <2>1, <2>2
  <1>5. CASE Compute(c) \/ Put(c)
    <2>1. Becomes(c, "put", call[c].flight, call[c].outcome) \/ Becomes(c, "publish", call[c].flight, call[c].outcome)
      BY <1>5, Steps DEF Compute, Put
    <2>2. call[c].at \in Owners /\ UNCHANGED <<flights, flight>> /\ "publish" \in Owners /\ "put" \in Owners
      BY <1>5 DEF Compute, Put, Owners
    <2>3. QED
      BY <1>2, <2>1, <2>2
  <1>6. CASE Await(c)
    <2> DEFINE o == flight[call[c].flight].outcome
    <2>1. call[c].flight \in Flights
      BY <1>1, <1>6 DEF Await, OnBoard, Rides
    <2>2. o \in {"none", "value", "error"}
      BY <2>1 DEF CallTypes, FlightType
    <2>3. Becomes(c, "leave", call[c].flight, o)
      BY <1>6, Steps DEF Await
    <2>4. /\ Alone(c) /\ call'[c].at = "leave" /\ call'[c].flight = call[c].flight /\ call'[c].key = call[c].key
          /\ call'[c].outcome = o
      <3>1. "leave" \in Places
        BY DEF Places
      <3> HIDE DEF o
      <3>2. QED
        BY <1>1, <2>2, <2>3, <3>1, CallChanged
    <2>5. call[c].at = "wait" /\ o # "none" /\ UNCHANGED <<flights, flight>>
      BY <1>6 DEF Await
    <2>6. QED
      BY <2>4, <2>5 DEF Changes, Works
  <1>7. QED
    BY <1>3, <1>4, <1>5, <1>6

LEMMA TellChanges ==
    ASSUME CacheInv, NEW c \in Callers, ComputeFails(c) \/ Publish(c)
    PROVE  Changes(c)
  <1> USE DEF CacheInv, At
  <1>1. PICK o \in {"value", "error"} :
          Leaves(c, o) /\ flight' = [flight EXCEPT ![call[c].flight].outcome = o]
    BY DEF ComputeFails, Publish
  <1>2. call[c].flight \in Flights \union {NoFlight} /\ call[c].at \in Owners /\ UNCHANGED flights
    BY DEF ComputeFails, Publish, Owners, CallTypes, CallType
  <1>3. Becomes(c, "leave", call[c].flight, o)
    BY <1>1, Steps
  <1>4. /\ Alone(c) /\ call'[c].at = "leave" /\ call'[c].flight = call[c].flight /\ call'[c].key = call[c].key
        /\ call'[c].outcome = o
    <2>1. "leave" \in Places /\ o \in {"none", "value", "error"}
      BY DEF Places
    <2>2. QED
      BY <1>2, <1>3, <2>1, CallChanged
  <1>5. flight' = [flight EXCEPT ![call[c].flight] = [@ EXCEPT !.outcome = call'[c].outcome]]
    BY <1>1, <1>4
  <1>6. QED
    BY <1>1, <1>2, <1>4, <1>5 DEF Changes, Tells

\* The owner's flight is one that carried nobody.
LEMMA JoinChanges ==
    ASSUME CacheInv, NEW c \in Callers, Join(c)
    PROVE  Changes(c)
  <1> USE DEF CacheInv, At
  <1> DEFINE k == call[c].key
             g0 == CHOOSE g \in Flights : flight[g].references = 0
             f == IF flights[k] = NoFlight THEN g0 ELSE flights[k]
             a == IF flights[k] = NoFlight THEN "recheck" ELSE "wait"
  <1>1. k \in Keys /\ call[c].flight = NoFlight /\ call[c].at = "join"
    BY DEF OnBoard, Join, Rides
  <1>2. g0 \in Flights /\ flight[g0].references = 0
    BY <1>1, FreeFlight
  <1>3. f \in Flights
    BY <1>1, <1>2 DEF CallTypes
  <1>4. /\ flights' = [flights EXCEPT ![k] = f]
        /\ flight' = [flight EXCEPT ![f].references = @ + 1]
        /\ call' = [call EXCEPT ![c].at = a, ![c].flight = f]
    BY DEF Join
  <1>5. Aboard(g0) = {}
    <2>1. IsFiniteSet(Aboard(g0))
      BY CacheAssumption, FS_Subset DEF Aboard
    <2>2. Cardinality(Aboard(g0)) = 0
      BY <1>2 DEF Tabled
    <2>3. QED
      BY <2>1, <2>2, FS_EmptySet
  <1>6. flight[g0] = NewFlight
    BY <1>2, <1>5 DEF Tabled
  <1> HIDE DEF g0
  <1>7. a \in {"recheck", "wait"} /\ call[c].outcome \in {"none", "value", "error"}
    BY DEF CallTypes, CallType
  <1>8. Becomes(c, a, f, call[c].outcome)
    BY <1>4, Steps
  <1>9. Alone(c) /\ call'[c].at = a /\ call'[c].flight = f /\ call'[c].key = k
    <2>1. a \in Places
      BY DEF Places
    <2> HIDE DEF a, f
    <2>2. QED
      BY <1>3, <1>7, <1>8, <2>1, CallChanged
  <1>10. flight' = [flight EXCEPT ![f] = [flight[f] EXCEPT !.references = flight[f].references + 1]]
    BY <1>4
  <1>11. CASE flights[k] = NoFlight
    <2>1. f = g0 /\ a = "recheck"
      BY <1>11
    <2>2. Aboard(f) = {} /\ flight[f] = NewFlight
      BY <1>5, <1>6, <2>1
    <2> HIDE DEF f, a
    <2>3. Joins(c)
      BY <1>1, <1>3, <1>4, <1>9, <1>10, <1>11, <2>1, <2>2 DEF Joins
    <2>4. QED
      BY <1>9, <2>3 DEF Changes
  <1>12. CASE flights[k] # NoFlight
    BY <1>1, <1>3, <1>4, <1>9, <1>10, <1>12 DEF Changes, Joins
  <1>13. QED
    BY <1>11, <1>12

\* Who leaves last takes the flight away.
LEMMA LeaveChanges ==
    ASSUME CacheInv, NEW c \in Callers, Leave(c)
    PROVE  Changes(c)
  <1> USE DEF CacheInv, At
  <1> DEFINE f == call[c].flight
             k == call[c].key
             left == flight[f].references - 1
  <1>1. call[c].at = "leave" /\ f \in Flights /\ k \in Keys /\ flights[k] = f
    BY DEF Leave, OnBoard, Rides, CallTypes, CallType
  <1>2. /\ flight' = [flight EXCEPT ![f] = IF left = 0 THEN NewFlight ELSE [@ EXCEPT !.references = left]]
        /\ flights' = [flights EXCEPT ![k] = IF left = 0 THEN NoFlight ELSE @]
        /\ call' = [call EXCEPT ![c].at = "returned", ![c].flight = NoFlight]
    BY DEF Leave
  <1>3. c \in Aboard(f) /\ IsFiniteSet(Aboard(f))
    BY CacheAssumption, FS_Subset DEF Aboard
  <1>4. Cardinality(Aboard(f) \ {c}) = Cardinality(Aboard(f)) - 1 /\ IsFiniteSet(Aboard(f) \ {c})
    BY <1>3, FS_RemoveElement
  <1>5. left = Cardinality(Aboard(f) \ {c})
    BY <1>1, <1>4 DEF Tabled
  <1>6. left = 0 <=> Aboard(f) = {c}
    <2>1. left = 0 <=> Aboard(f) \ {c} = {}
      BY <1>4, <1>5, FS_EmptySet
    <2>2. QED
      BY <1>3, <2>1
  <1>7. call[c].outcome \in {"none", "value", "error"}
    BY DEF CallTypes, CallType
  <1>8. Becomes(c, "returned", NoFlight, call[c].outcome)
    BY <1>2, Steps
  <1>9. Alone(c) /\ call'[c].at = "returned" /\ call'[c].flight = NoFlight /\ call'[c].key = k
    <2>1. "returned" \in Places /\ NoFlight \in Flights \union {NoFlight}
      BY DEF Places
    <2>2. QED
      BY <1>7, <1>8, <2>1, CallChanged
  <1>10. CASE left = 0
    BY <1>1, <1>2, <1>6, <1>9, <1>10 DEF Changes, Departs
  <1>11. CASE left # 0
    <2>1. flights' = flights
      BY <1>1, <1>2, <1>11 DEF CallTypes
    <2>2. flight' = [flight EXCEPT ![f] = [flight[f] EXCEPT !.references = flight[f].references - 1]]
      BY <1>2, <1>11
    <2>3. Aboard(f) # {c}
      BY <1>6, <1>11
    <2>4. Departs(c)
      BY <1>1, <1>9, <2>1, <2>2, <2>3 DEF Departs
    <2>5. QED
      BY <1>9, <2>4 DEF Changes
  <1>12. QED
    BY <1>10, <1>11

LEMMA TurnChanges ==
    ASSUME CacheInv, NEW c \in Callers, Forgets(c) \/ \E k \in Keys : Call(c, k)
    PROVE  Changes(c)
  <1> USE DEF CacheInv, At
  <1>1. call[c].at \in {"idle", "returned"} /\ call[c].flight = NoFlight /\ UNCHANGED <<flights, flight>>
    BY DEF Forgets, Call, OnBoard, Rides
  <1>2. call[c] \in CallType /\ call \in [Callers -> CallType]
    BY DEF CallTypes
  <1>3. CASE Forgets(c)
    <2>1. call' = [call EXCEPT ![c] = Idle] /\ Idle \in CallType /\ Idle.at = "idle" /\ Idle.flight = NoFlight
      BY <1>3 DEF Forgets, Idles, Idle, CallType
    <2> QED
      BY <1>1, <1>2, <2>1 DEF Changes, Turns, Alone
  <1>4. ASSUME NEW k \in Keys, Call(c, k) PROVE Changes(c)
    <2> DEFINE new == [call[c] EXCEPT !.at = "look", !.key = k]
    <2>1. new \in CallType /\ new.at = "look" /\ new.key = k /\ new.flight = call[c].flight
      BY <1>2 DEF CallType
    <2>2. call' = [call EXCEPT ![c] = new]
      BY <1>2, <1>4 DEF Call
    <2> HIDE DEF new
    <2>3. QED
      BY <1>1, <1>2, <2>1, <2>2 DEF Changes, Turns, Alone
  <1>5. QED
    BY <1>3, <1>4

LEMMA StepChanges ==
    ASSUME CacheInv, CacheStep
    PROVE  UNCHANGED cacheVars \/ \E c \in Callers : Changes(c)
  BY WorkChanges, TellChanges, JoinChanges, LeaveChanges, TurnChanges DEF CacheStep, Runs

-----------------------------------------------------------------------------
LEMMA OneMore ==
    ASSUME flight \in [Flights -> FlightType], NEW f \in Flights,
           flight' = [flight EXCEPT ![f] = [flight[f] EXCEPT !.references = flight[f].references + 1]]
    PROVE  /\ flight'[f].references = flight[f].references + 1
           /\ \A g \in Flights : g # f => flight'[g] = flight[g]
  <1> DEFINE new == [flight[f] EXCEPT !.references = flight[f].references + 1]
  <1>1. flight' = [flight EXCEPT ![f] = new]
    OBVIOUS
  <1>2. new.references = flight[f].references + 1
    BY DEF FlightType
  <1> HIDE DEF new
  <1>3. QED
    BY <1>1, <1>2

LEMMA OneLess ==
    ASSUME flight \in [Flights -> FlightType], NEW f \in Flights,
           flight' = [flight EXCEPT ![f] = [flight[f] EXCEPT !.references = flight[f].references - 1]]
    PROVE  /\ flight'[f].references = flight[f].references - 1
           /\ \A g \in Flights : g # f => flight'[g] = flight[g]
  <1> DEFINE new == [flight[f] EXCEPT !.references = flight[f].references - 1]
  <1>1. flight' = [flight EXCEPT ![f] = new]
    OBVIOUS
  <1>2. new.references = flight[f].references - 1
    BY DEF FlightType
  <1> HIDE DEF new
  <1>3. QED
    BY <1>1, <1>2

LEMMA TypesOfCalls ==
    ASSUME CacheInv, NEW c \in Callers, Changes(c)
    PROVE  CallTypes'
  <1> USE DEF CacheInv
  <1>1. call' \in [Callers -> CallType]
    BY DEF Changes, Alone
  <1>2. \A f \in Flights : flight[f] \in FlightType
    BY DEF CallTypes
  <1>3. CASE Works(c) \/ Turns(c)
    BY <1>1, <1>3 DEF Works, Turns, CallTypes
  <1>4. CASE Tells(c)
    <2> DEFINE f == call[c].flight
               o == call'[c].outcome
    <2>1. \A r \in FlightType : [r EXCEPT !.outcome = o] \in FlightType
      BY <1>4 DEF Tells, FlightType
    <2>2. flight' \in [Flights -> FlightType]
      BY <1>2, <1>4, <2>1 DEF Tells, CallTypes
    <2>3. QED
      BY <1>1, <1>4, <2>2 DEF Tells, CallTypes
  <1>5. CASE Joins(c)
    <2> DEFINE f == call'[c].flight
               new == [flight[f] EXCEPT !.references = flight[f].references + 1]
    <2>1. f \in Flights /\ flight' = [flight EXCEPT ![f] = new]
      BY <1>5 DEF Joins
    <2>2. flight' \in [Flights -> FlightType]
      <3>1. new \in FlightType
        BY <1>2, <2>1 DEF FlightType
      <3> HIDE DEF new
      <3>2. QED
        BY <2>1, <3>1 DEF CallTypes
    <2>3. QED
      BY <1>1, <1>5, <2>2 DEF Joins, CallTypes
  <1>6. CASE Departs(c)
    <2> DEFINE f == call[c].flight
    <2>1. flight[f].references - 1 \in Nat
      <3>1. c \in Aboard(f) /\ IsFiniteSet(Aboard(f)) /\ f \in Flights
        BY <1>6, CacheAssumption, FS_Subset DEF Aboard, Departs
      <3>2. Cardinality(Aboard(f)) \in Nat /\ Cardinality(Aboard(f)) # 0
        BY <3>1, FS_EmptySet, FS_CardinalityType
      <3>3. QED
        BY <3>1, <3>2 DEF Tabled
    <2>2. [flight[f] EXCEPT !.references = @ - 1] \in FlightType
      BY <1>2, <1>6, <2>1 DEF FlightType, Departs
    <2>3. NewFlight \in FlightType
      BY DEF NewFlight, FlightType
    <2>4. flight' \in [Flights -> FlightType]
      <3> DEFINE less == [flight[f] EXCEPT !.references = flight[f].references - 1]
      <3>1. f \in Flights /\ (flight' = [flight EXCEPT ![f] = NewFlight] \/ flight' = [flight EXCEPT ![f] = less])
        BY <1>6 DEF Departs
      <3>2. less \in FlightType
        BY <2>2
      <3> HIDE DEF less
      <3>3. QED
        BY <2>3, <3>1, <3>2 DEF CallTypes
    <2>5. flights' \in [Keys -> Flights \union {NoFlight}]
      BY <1>6 DEF Departs, CallTypes
    <2>6. QED
      BY <1>1, <2>4, <2>5 DEF CallTypes
  <1>7. QED
    BY <1>3, <1>4, <1>5, <1>6 DEF Changes

LEMMA BoardKept ==
    ASSUME CacheInv, NEW c \in Callers, Changes(c)
    PROVE  OnBoard'
  <1> USE DEF CacheInv, Rides
  <1>1. \A d \in Callers : d # c => call'[d] = call[d]
    BY DEF Changes, Alone
  <1>2. CASE Works(c) \/ Tells(c)
    BY <1>1, <1>2 DEF Works, Tells, OnBoard, Owners
  <1>3. CASE Turns(c)
    BY <1>1, <1>3 DEF Turns, OnBoard
  <1>4. CASE Joins(c)
    <2>1. call'[c].flight # NoFlight
      BY <1>4 DEF Joins, Flights, NoFlight
    <2>2. flights'[call[c].key] = call'[c].flight /\ \A k \in Keys : k # call[c].key => flights'[k] = flights[k]
      BY <1>4 DEF Joins, CallTypes
    <2>3. ASSUME NEW d \in Callers, d # c, call[d].at \in Rides, call[d].key = call[c].key
          PROVE  call[d].flight = call'[c].flight
      <3>1. flights[call[c].key] = call[d].flight /\ call[d].flight # NoFlight
        BY <2>3 DEF OnBoard
      <3>2. QED
        BY <1>4, <3>1 DEF Joins
    <2>4. QED
      BY <1>1, <1>4, <2>1, <2>2, <2>3 DEF Joins, OnBoard
  <1>5. CASE Departs(c)
    <2> DEFINE f == call[c].flight
               k == call[c].key
    <2>1. \A d \in Callers : d # c /\ Aboard(f) = {c} /\ call[d].at \in Rides => call[d].key # k
      BY <1>5 DEF Aboard, OnBoard, Departs
    <2>2. \A j \in Keys : flights'[j] = flights[j] \/ (j = k /\ Aboard(f) = {c})
      BY <1>5 DEF Departs, CallTypes
    <2>3. QED
      BY <1>1, <1>5, <2>1, <2>2 DEF Departs, OnBoard
  <1>6. QED
    BY <1>2, <1>3, <1>4, <1>5 DEF Changes

\* Who is aboard after a step.
Aboard1(f) == {c \in Callers : call'[c].flight = f}

LEMMA TabledNext ==
    ASSUME \A k, j \in Keys : flights'[k] # NoFlight /\ flights'[k] = flights'[j] => k = j,
           \A k \in Keys : flights'[k] # NoFlight => Aboard1(flights'[k]) # {},
           \A f \in Flights : flight'[f].references = Cardinality(Aboard1(f)),
           \A f \in Flights : Aboard1(f) = {} => flight'[f] = NewFlight
    PROVE  Tabled'
  BY DEF Tabled, Aboard, Aboard1

LEMMA TableKept ==
    ASSUME CacheInv, NEW c \in Callers, Changes(c)
    PROVE  Tabled'
  <1> USE DEF CacheInv
  <1>1. /\ \A f : IsFiniteSet(Aboard(f))
        /\ NoFlight \notin Flights
        /\ \A k \in Keys : flights[k] \in Flights \union {NoFlight}
        /\ \A f \in Flights : flight[f] \in FlightType
    BY CacheAssumption, FS_Subset DEF Aboard, NoFlight, Flights, CallTypes
  <1>2. \A d \in Callers : d # c => call'[d] = call[d]
    BY DEF Changes, Alone
  <1>3. CASE Works(c) \/ Turns(c)
    <2>1. \A f : Aboard1(f) = Aboard(f)
      BY <1>2, <1>3 DEF Aboard, Aboard1, Works, Turns
    <2>2. UNCHANGED <<flights, flight>>
      BY <1>3 DEF Works, Turns
    <2>3. QED
      BY <2>1, <2>2, TabledNext DEF Tabled
  <1>4. CASE Tells(c)
    <2> DEFINE f == call[c].flight
    <2>1. \A g : Aboard1(g) = Aboard(g)
      BY <1>2, <1>4 DEF Aboard, Aboard1, Tells
    <2>2. /\ UNCHANGED flights
          /\ \A g \in Flights : flight'[g].references = flight[g].references
          /\ \A g \in Flights : g # f => flight'[g] = flight[g]
      BY <1>1, <1>4 DEF Tells, FlightType, CallTypes
    <2>3. c \in Aboard(f)
      BY DEF Aboard
    <2>4. QED
      BY <2>1, <2>2, <2>3, TabledNext DEF Tabled
  <1>5. CASE Joins(c)
    <2> DEFINE k == call[c].key
               f == call'[c].flight
    <2>1. /\ k \in Keys /\ f \in Flights /\ call[c].flight = NoFlight
          /\ flights' = [flights EXCEPT ![k] = f]
          /\ flight' = [flight EXCEPT ![f] = [flight[f] EXCEPT !.references = flight[f].references + 1]]
          /\ (flights[k] = NoFlight /\ Aboard(f) = {}) \/ flights[k] = f
      BY <1>5 DEF Joins
    <2>2. /\ Aboard1(f) = Aboard(f) \union {c} /\ c \notin Aboard(f)
          /\ \A g \in Flights : g # f => Aboard1(g) = Aboard(g)
      BY <1>1, <1>2, <2>1 DEF Aboard, Aboard1
    <2> HIDE DEF f
    <2>3. Cardinality(Aboard(f) \union {c}) = Cardinality(Aboard(f)) + 1
      BY <1>1, <2>2, FS_AddElement
    <2>4. /\ flight'[f].references = flight[f].references + 1
          /\ \A g \in Flights : g # f => flight'[g] = flight[g]
      BY <1>1, <2>1, OneMore DEF CallTypes
    <2>5. \A g \in Flights : flight'[g].references = Cardinality(Aboard1(g))
      BY <2>1, <2>2, <2>3, <2>4 DEF Tabled
    <2>6. \A g \in Flights : Aboard1(g) = {} => flight'[g] = NewFlight
      BY <2>2, <2>4 DEF Tabled
    <2>7. \A j \in Keys : flights'[j] = IF j = k THEN f ELSE flights[j]
      BY <2>1 DEF CallTypes
    <2>8. \A j \in Keys : flights[j] = f => j = k
      BY <1>1, <2>1 DEF Tabled
    <2>9. \A i, j \in Keys : flights'[i] # NoFlight /\ flights'[i] = flights'[j] => i = j
      BY <2>1, <2>7, <2>8 DEF Tabled
    <2>10. \A j \in Keys : flights'[j] # NoFlight => Aboard1(flights'[j]) # {}
      <3> SUFFICES ASSUME NEW j \in Keys, flights'[j] # NoFlight PROVE Aboard1(flights'[j]) # {}
        OBVIOUS
      <3>1. CASE flights'[j] = f
        BY <2>2, <3>1
      <3>2. CASE flights'[j] # f
        <4>1. flights'[j] = flights[j] /\ flights[j] \in Flights
          BY <1>1, <2>7, <3>2
        <4>2. Aboard(flights[j]) # {}
          BY <4>1 DEF Tabled
        <4>3. QED
          BY <2>2, <3>2, <4>1, <4>2
      <3>3. QED
        BY <3>1, <3>2
    <2>11. QED
      BY <2>5, <2>6, <2>9, <2>10, TabledNext
  <1>6. CASE Departs(c)
    <2> DEFINE f == call[c].flight
               k == call[c].key
    <2>1. f \in Flights /\ k \in Keys /\ flights[k] = f /\ call'[c].flight = NoFlight
      BY <1>6 DEF Departs
    <2>2. /\ Aboard1(f) = Aboard(f) \ {c} /\ c \in Aboard(f)
          /\ \A g \in Flights : g # f => Aboard1(g) = Aboard(g)
      BY <1>1, <1>2, <2>1 DEF Aboard, Aboard1
    <2>3. Cardinality(Aboard(f) \ {c}) = Cardinality(Aboard(f)) - 1
      BY <1>1, <2>2, FS_RemoveElement
    <2>4. \A j \in Keys : flights[j] = f => j = k
      BY <1>1, <2>1 DEF Tabled
    <2>5. CASE /\ Aboard(f) = {c}
               /\ flight' = [flight EXCEPT ![f] = NewFlight]
               /\ flights' = [flights EXCEPT ![k] = NoFlight]
      <3>1. /\ \A g \in Flights : flight'[g] = IF g = f THEN NewFlight ELSE flight[g]
            /\ \A j \in Keys : flights'[j] = IF j = k THEN NoFlight ELSE flights[j]
        BY <2>5 DEF CallTypes
      <3>2. Aboard1(f) = {}
        BY <2>2, <2>5
      <3>3. \A g \in Flights : flight'[g].references = Cardinality(Aboard1(g))
        <4>1. NewFlight.references = Cardinality(Aboard1(f))
          BY <3>2, FS_EmptySet DEF NewFlight
        <4>2. \A g \in Flights : g # f => flight[g].references = Cardinality(Aboard1(g))
          BY <2>2 DEF Tabled
        <4>3. QED
          BY <3>1, <4>1, <4>2
      <3>4. \A g \in Flights : Aboard1(g) = {} => flight'[g] = NewFlight
        BY <2>2, <3>1 DEF Tabled
      <3>5. \A i, j \in Keys : flights'[i] # NoFlight /\ flights'[i] = flights'[j] => i = j
        BY <3>1 DEF Tabled
      <3>6. \A j \in Keys : flights'[j] # NoFlight => Aboard1(flights'[j]) # {}
        <4> SUFFICES ASSUME NEW j \in Keys, flights'[j] # NoFlight PROVE Aboard1(flights'[j]) # {}
          OBVIOUS
        <4>1. j # k /\ flights'[j] = flights[j] /\ flights[j] # f /\ flights[j] \in Flights
          BY <1>1, <2>4, <3>1
        <4>2. Aboard(flights[j]) # {}
          BY <4>1, <1>1 DEF Tabled
        <4>3. QED
          BY <2>2, <4>1, <4>2
      <3>7. QED
        BY <3>3, <3>4, <3>5, <3>6, TabledNext
    <2>6. CASE /\ Aboard(f) # {c}
               /\ flight' = [flight EXCEPT ![f] = [flight[f] EXCEPT !.references = flight[f].references - 1]]
               /\ flights' = flights
      <3>1. /\ flight'[f].references = flight[f].references - 1
            /\ \A g \in Flights : g # f => flight'[g] = flight[g]
        BY <1>1, <2>1, <2>6, OneLess DEF CallTypes
      <3>2. Aboard1(f) # {}
        BY <2>2, <2>6
      <3>3. \A g \in Flights : flight'[g].references = Cardinality(Aboard1(g))
        BY <2>1, <2>2, <2>3, <3>1 DEF Tabled
      <3>4. \A g \in Flights : Aboard1(g) = {} => flight'[g] = NewFlight
        BY <2>2, <3>1, <3>2 DEF Tabled
      <3>5. \A j \in Keys : flights'[j] # NoFlight => Aboard1(flights'[j]) # {}
        <4> SUFFICES ASSUME NEW j \in Keys, flights[j] # NoFlight PROVE Aboard1(flights[j]) # {}
          BY <2>6
        <4>1. flights[j] \in Flights /\ Aboard(flights[j]) # {}
          BY <1>1 DEF Tabled
        <4>2. QED
          BY <2>2, <3>2, <4>1
      <3>6. QED
        BY <2>6, <3>3, <3>4, <3>5, TabledNext DEF Tabled
    <2>7. QED
      BY <1>6, <2>5, <2>6 DEF Departs
  <1>7. QED
    BY <1>3, <1>4, <1>5, <1>6 DEF Changes

LEMMA OwnerKept ==
    ASSUME CacheInv, NEW c \in Callers, Changes(c)
    PROVE  OneOwner'
  <1> USE DEF CacheInv, Owners
  <1>1. \A d \in Callers : d # c => call'[d] = call[d]
    BY DEF Changes, Alone
  <1>2. \A d \in Callers : call[d].at \in Owners \union {"leave", "wait"} => call[d].flight \in Flights
    BY DEF OnBoard, Rides, CallTypes, CallType
  <1>3. CASE Works(c)
    BY <1>1, <1>3 DEF Works, OneOwner
  <1>4. CASE Turns(c)
    BY <1>1, <1>4 DEF Turns, OneOwner
  <1>5. CASE Tells(c)
    <2> DEFINE f == call[c].flight
               o == call'[c].outcome
    <2>1. f \in Flights /\ call[c].at \in Owners
      BY <1>2, <1>5 DEF Tells
    <2>2. \A d \in Callers : d # c /\ call[d].at \in Owners \union {"leave"} => call[d].flight \in Flights \ {f}
      BY <1>2, <2>1 DEF OneOwner
    <2>3. flight'[f].outcome = o /\ \A g \in Flights \ {f} : flight'[g] = flight[g]
      BY <1>5, <2>1 DEF Tells, CallTypes, FlightType
    <2>4. call'[c].at = "leave" /\ call'[c].flight = f /\ o # "none"
      BY <1>5 DEF Tells
    <2> HIDE DEF f, o
    <2>5. call'[c].outcome = o
      BY DEF o
    <2>6. QED
      BY <1>1, <2>2, <2>3, <2>4, <2>5 DEF OneOwner
  <1>6. CASE Joins(c)
    <2> DEFINE f == call'[c].flight
    <2>1. \A g \in Flights : flight'[g].outcome = flight[g].outcome
      BY <1>6 DEF Joins, CallTypes, FlightType
    <2>2. f \in Flights /\ call[c].at = "join"
      BY <1>6 DEF Joins
    <2>3. CASE call'[c].at = "wait"
      BY <1>1, <1>2, <2>1, <2>3 DEF OneOwner
    <2>4. CASE call'[c].at = "recheck" /\ Aboard(f) = {} /\ flight[f] = NewFlight
      <3>1. \A d \in Callers : d # c => call[d].flight # f
        BY <2>4 DEF Aboard
      <3>2. flight'[f].outcome = "none"
        BY <2>1, <2>2, <2>4 DEF NewFlight
      <3>3. QED
        BY <1>1, <1>2, <2>1, <2>4, <3>1, <3>2 DEF OneOwner
    <2>5. QED
      BY <1>6, <2>3, <2>4 DEF Joins
  <1>7. CASE Departs(c)
    <2> DEFINE f == call[c].flight
    <2>1. \A g \in Flights : flight'[g].outcome = flight[g].outcome \/ (g = f /\ Aboard(f) = {c})
      BY <1>7 DEF Departs, CallTypes, FlightType
    <2>2. \A d \in Callers : d # c /\ Aboard(f) = {c} => call[d].flight # f
      BY DEF Aboard
    <2>3. call'[c].at = "returned"
      BY <1>7 DEF Departs
    <2> HIDE DEF f
    <2>4. \A d \in Callers : d # c /\ call[d].at \in Owners \union {"leave"} =>
            flight'[call[d].flight].outcome = flight[call[d].flight].outcome
      BY <1>2, <2>1, <2>2
    <2>5. QED
      BY <1>1, <2>3, <2>4 DEF OneOwner
  <1>8. QED
    BY <1>3, <1>4, <1>5, <1>6, <1>7 DEF Changes

LEMMA CacheKept == CacheInv /\ CacheStep => CacheInv'
  <1> SUFFICES ASSUME CacheInv, CacheStep PROVE CacheInv'
    OBVIOUS
  <1>1. ItemsExact'
    BY ItemsKept
  <1>2. CASE UNCHANGED cacheVars
    BY <1>1, <1>2 DEF cacheVars, CacheInv, CallTypes, OnBoard, Tabled, OneOwner, Aboard
  <1>3. ASSUME NEW c \in Callers, Changes(c) PROVE CacheInv'
    BY <1>1, <1>3, TypesOfCalls, BoardKept, TableKept, OwnerKept DEF CacheInv
  <1>4. QED
    BY <1>2, <1>3, StepChanges

LEMMA CacheIsExact == CacheInv => CacheExact
  <1> SUFFICES ASSUME CacheInv PROVE CacheExact
    OBVIOUS
  <1> USE DEF CacheInv, CallTypes, At
  <1>1. ToSet(items) \subseteq Keys
    BY SetOfSeq DEF ItemsExact
  <1>2. CacheTypeOK
    BY <1>1 DEF CacheTypeOK, ItemsExact, CallType, FlightType
  <1>3. ASSUME NEW k \in Keys PROVE Cardinality(Computing(k)) <= 1
    <2>1. \A c, d \in Computing(k) : c = d
      BY DEF Computing, OneOwner, OnBoard, Rides, Owners
    <2>2. CASE Computing(k) = {}
      BY <2>2, FS_EmptySet
    <2>3. CASE Computing(k) # {}
      <3>1. PICK c \in Computing(k) : TRUE
        BY <2>3
      <3>2. Computing(k) = {c}
        BY <2>1
      <3>3. Cardinality({c}) = 1
        BY FS_Singleton
      <3>4. QED
        BY <3>2, <3>3
    <2>4. QED
      BY <2>2, <2>3
  <1>4. \A k \in Keys : flights[k] # NoFlight =>
          flight[flights[k]].references = Cardinality(Aboard(flights[k])) /\ Aboard(flights[k]) # {}
    BY DEF Tabled
  <1>5. \A c \in Callers : call[c].flight # NoFlight => flights[call[c].key] = call[c].flight
    BY DEF OnBoard
  <1>6. \A c, d \in Callers :
          At(c, "leave") /\ At(d, "leave") /\ call[c].flight = call[d].flight => call[c].outcome = call[d].outcome
    BY DEF OneOwner
  <1>7. QED
    BY <1>2, <1>3, <1>4, <1>5, <1>6 DEF CacheExact, ItemsExact
-----------------------------------------------------------------------------
(* The adapter's steps at the cache                                        *)

LEMMA EveryCacheStep == Http3Assumption /\ Http3Next => CacheStep
  <1> SUFFICES ASSUME Http3Assumption, Http3Next PROVE CacheStep
    OBVIOUS
  <1> USE DEF CacheStep
  <1>1. CASE Listen \/ ListenFails \/ EndListening \/ CloseHandle \/ Handle
    BY <1>1 DEF Listen, ListenFails, EndListening, CloseHandle, Handle, Started, GiveUp, Joined, JoinTimesOut, Unmoved
  <1>2. CASE StopListening
    BY <1>2 DEF StopListening
  <1>3. ASSUME NEW c \in Conns, Connect(c) \/ ConnectionLost(c) PROVE CacheStep
    BY <1>3 DEF Connect, ConnectionLost
  <1>4. ASSUME NEW s \in Streams, Receive(s) PROVE CacheStep
    BY <1>4 DEF Receive, ReceiveHeaders, ReceiveTrailers, ReceiveData
  <1>5. ASSUME NEW s \in Streams, Acknowledge(s) PROVE CacheStep
    BY <1>5 DEF Acknowledge
  <1>6. ASSUME NEW s \in Streams, Reply(s) PROVE CacheStep
    <2>1. s \in Callers
      BY DEF Http3Assumption
    <2>2. CASE BeginReply(s)
      BY <2>1, <2>2 DEF BeginReply
    <2>3. CASE Built(s)
      <3>1. Forgets(s)
        BY <2>3 DEF Built, Forgets, At
      <3>2. QED
        BY <2>1, <3>1
    <2>4. CASE ~BeginReply(s) /\ ~Built(s)
      BY <1>6, <2>4 DEF Reply, Opened, SendReply, ReplyLost, HasCapacity, CapacityTimesOut, ReadChunk, CloseFile
    <2>5. QED
      BY <2>2, <2>3, <2>4
  <1>7. ASSUME NEW c \in Callers, CallOther(c) \/ OtherReturns(c) \/ Thread(c) PROVE CacheStep
    BY <1>7 DEF CallOther, OtherReturns, Thread, Forgets
  <1>8. QED
    BY <1>1, <1>2, <1>3, <1>4, <1>5, <1>6, <1>7 DEF Http3Next, Others

(* Whatever the threads do that share the cache (those of the replies of   *)
(* HTTP/3 and those of the other transports), a key is computed by one of  *)
(* them at a time, its flight is in the table exactly as long as someone   *)
(* is aboard, everybody aboard gets what its owner got, and what is        *)
(* retained is counted and within the bound.                               *)
THEOREM CacheStaysExact == Http3Spec => []CacheExact
  <1>1. Http3Init => CacheInv
    BY CacheStarts DEF Http3Init
  <1>2. CacheInv /\ [Http3Next]_http3Vars => CacheInv'
    <2>1. CacheInv /\ Http3Next => CacheInv'
      BY EveryCacheStep, CacheKept, Http3Assumption
    <2>2. CacheInv /\ UNCHANGED http3Vars => CacheInv'
      BY CacheKept DEF CacheStep, http3Vars
    <2>3. QED
      BY <2>1, <2>2
  <1>3. CacheInv => CacheExact
    BY CacheIsExact
  <1>4. QED
    BY <1>1, <1>2, <1>3, PTL DEF Http3Spec

-----------------------------------------------------------------------------
(* The replies                                                             *)

LEMMA RepliesStart == Http3Init => RepliesInv
  <1> SUFFICES ASSUME Http3Init PROVE RepliesInv
    OBVIOUS
  <1> USE DEF Http3Init
  <1>1. TypesOfReplies
    <2>1. 0 \in 0..MaxRequestBody
      BY Http3Assumption
    <2>2. NoTask \in TaskType /\ NoWire \in WireType /\ NoRequest \in RequestType
      BY <2>1 DEF TaskType, WireType, RequestType, NoTask, NoWire, NoRequest
    <2>3. QED
      BY <2>2 DEF TypesOfReplies
  <1>2. PlacesCounted
    <2>1. Admittees = {}
      BY DEF Admittees
    <2>2. 0 \in 0..MaxConnections
      BY Http3Assumption
    <2>3. QED
      BY <2>1, <2>2, FS_EmptySet DEF PlacesCounted
  <1>3. \A s \in Streams : Founded(s) /\ ReplySound(s)
    BY DEF Founded, ReplySound, Silent, NoTask, NoWire
  <1>4. QED
    BY <1>1, <1>2, <1>3 DEF RepliesInv

\* What is true of a stream stays true as long as nothing is done to it and its
\* connection does not come back.
LEMMA Untouched ==
    ASSUME NEW t \in Streams, Founded(t), ReplySound(t),
           arrived'[t] = arrived[t], task'[t] = task[t], handle'[t] = handle[t], wire'[t] = wire[t],
           arrived[t] # "none" => /\ conns'[ConnOf[t]] \in {"admitted", "lost"} /\ listener' \notin {"starting", "failed"}
                                  /\ conns'[ConnOf[t]] = "admitted" /\ listener' = "serving" => Live(t)
    PROVE  Founded(t)' /\ ReplySound(t)'
  <1>1. Founded(t)'
    BY DEF Founded
  <1>2. handle'[t] = "dropped" => ~(conns'[ConnOf[t]] = "admitted" /\ listener' = "serving")
    BY DEF Founded, ReplySound
  <1>3. ReplySound(t)'
    BY <1>2 DEF ReplySound, Live, Silent, WasRefused, Streaming, Replied
  <1>4. QED
    BY <1>1, <1>3

\* A step of one stream leaves the connections, the places and the others alone.
OneStream(s) ==
  /\ UNCHANGED <<conns, active, listener>>
  /\ \A t \in Streams : t # s => /\ arrived'[t] = arrived[t] /\ task'[t] = task[t]
                                 /\ handle'[t] = handle[t] /\ wire'[t] = wire[t]

LEMMA StreamStep ==
    ASSUME RepliesInv, NEW s \in Streams, OneStream(s), TypesOfReplies', Founded(s)', ReplySound(s)'
    PROVE  RepliesInv'
  <1>1. PlacesCounted'
    BY DEF OneStream, RepliesInv, PlacesCounted, Admittees
  <1>2. ASSUME NEW t \in Streams, t # s PROVE Founded(t)' /\ ReplySound(t)'
    <2>1. Founded(t) /\ ReplySound(t)
      BY DEF RepliesInv
    <2>2. /\ arrived'[t] = arrived[t] /\ task'[t] = task[t] /\ handle'[t] = handle[t] /\ wire'[t] = wire[t]
      BY <1>2 DEF OneStream
    <2>3. conns' = conns /\ listener' = listener
      BY DEF OneStream
    <2>4. arrived[t] # "none" => /\ conns'[ConnOf[t]] \in {"admitted", "lost"} /\ listener' \notin {"starting", "failed"}
                                 /\ conns'[ConnOf[t]] = "admitted" /\ listener' = "serving" => Live(t)
      BY <2>1, <2>3 DEF Founded, Live
    <2>5. QED
      BY <2>1, <2>2, <2>4, Untouched
  <1>3. \A t \in Streams : Founded(t)' /\ ReplySound(t)'
    BY <1>2
  <1>4. QED
    BY <1>1, <1>3 DEF RepliesInv

\* What an assignment to one stream's record makes of all.
LEMMA TaskBecomes ==
    ASSUME TypesOfReplies, NEW s \in Streams, NEW new \in TaskType, task' = [task EXCEPT ![s] = new]
    PROVE  /\ task' \in [Streams -> TaskType] /\ task'[s] = new
           /\ \A t \in Streams : t # s => task'[t] = task[t]
  BY DEF TypesOfReplies

LEMMA TaskGoes ==
    ASSUME TypesOfReplies, NEW s \in Streams,
           NEW where \in {"started", "building", "abandoned", "opening", "answering", "capacity", "reading",
                          "closing", "raising", "done", "failed"}, Goes(s, where)
    PROVE  /\ task' \in [Streams -> TaskType]
           /\ task'[s].at = where /\ task'[s].body = task[s].body /\ task'[s].left = task[s].left
           /\ \A t \in Streams : t # s => task'[t] = task[t]
  <1> DEFINE new == [task[s] EXCEPT !.at = where]
  <1>1. task[s] \in TaskType
    BY DEF TypesOfReplies
  <1>2. new \in TaskType /\ new.at = where /\ new.body = task[s].body /\ new.left = task[s].left
    BY <1>1 DEF TaskType
  <1>3. task' = [task EXCEPT ![s] = new]
    BY DEF Goes
  <1> HIDE DEF new
  <1>4. QED
    BY <1>2, <1>3, TaskBecomes

LEMMA WireBecomes ==
    ASSUME TypesOfReplies, NEW s \in Streams, NEW new \in WireType, wire' = [wire EXCEPT ![s] = new]
    PROVE  /\ wire' \in [Streams -> WireType] /\ wire'[s] = new
           /\ \A t \in Streams : t # s => wire'[t] = wire[t]
  BY DEF TypesOfReplies

LEMMA Refusing ==
    ASSUME TypesOfReplies, NEW s \in Streams, wire' = RejectedOnWire(s), Silent(s) \/ WasRefused(s)
    PROVE  /\ wire' \in [Streams -> WireType] /\ WasRefused(s)'
           /\ \A t \in Streams : t # s => wire'[t] = wire[t]
  <1>1. wire[s] \in WireType
    BY DEF TypesOfReplies
  <1>2. CASE wire[s].ended
    <2> DEFINE new == [wire[s] EXCEPT !.error = TRUE]
    <2>1. new \in WireType
      BY <1>1 DEF WireType
    <2>2. wire' = [wire EXCEPT ![s] = new]
      BY <1>2 DEF RejectedOnWire
    <2>3. WasRefused(s)
      BY <1>2 DEF Silent
    <2>4. /\ new.heads = wire[s].heads /\ new.data = wire[s].data /\ new.ended = wire[s].ended
          /\ new.refused = wire[s].refused /\ new.reset = wire[s].reset
      BY <1>1 DEF WireType
    <2> HIDE DEF new
    <2>5. QED
      BY <2>1, <2>2, <2>3, <2>4, WireBecomes DEF WasRefused
  <1>3. CASE ~wire[s].ended
    <2> DEFINE new == [wire[s] EXCEPT !.heads = wire[s].heads + 1, !.ended = TRUE, !.refused = TRUE]
    <2>1. /\ new \in WireType /\ new.heads = wire[s].heads + 1 /\ new.data = wire[s].data
          /\ new.ended = TRUE /\ new.refused = TRUE /\ new.reset = wire[s].reset
      <3> DEFINE n == wire[s].heads + 1
      <3>1. n \in Nat
        BY <1>1 DEF WireType
      <3> HIDE DEF n
      <3>2. \A r \in WireType : [r EXCEPT !.heads = n, !.ended = TRUE, !.refused = TRUE] \in WireType
        BY <3>1 DEF WireType
      <3>3. \A r \in WireType :
              LET o == [r EXCEPT !.heads = n, !.ended = TRUE, !.refused = TRUE]
              IN o.heads = n /\ o.data = r.data /\ o.ended = TRUE /\ o.refused = TRUE /\ o.reset = r.reset
        BY DEF WireType
      <3>4. QED
        BY <1>1, <3>2, <3>3 DEF n
    <2>2. wire' = [wire EXCEPT ![s] = new]
      BY <1>1, <1>3 DEF RejectedOnWire, TypesOfReplies
    <2>3. Silent(s)
      BY <1>3 DEF WasRefused
    <2> HIDE DEF new
    <2>4. QED
      <3>1. /\ wire' \in [Streams -> WireType] /\ wire'[s] = new
            /\ \A t \in Streams : t # s => wire'[t] = wire[t]
        BY <2>1, <2>2, WireBecomes
      <3>2. WasRefused(s)'
        BY <2>1, <2>3, <3>1 DEF WasRefused, Silent
      <3>3. QED
        BY <3>1, <3>2
  <1>4. QED
    BY <1>2, <1>3

\* What the event of a stream makes of it: its request is kept, refused, or
\* handed to a task if this was its end.
Received(s, ended) ==
  /\ requests' \in [Streams -> RequestType] /\ rejected' \subseteq Streams
  /\ task' \in [Streams -> TaskType] /\ wire' \in [Streams -> WireType]
  /\ \A t \in Streams : t # s => task'[t] = task[t] /\ wire'[t] = wire[t]
  /\ Silent(s)' \/ WasRefused(s)'
  /\ task'[s].body = "none" /\ task'[s].at \in {"none", "started"}
  /\ task'[s].at = "started" => ended

\* A stream that has not ended has no task yet, and its sender nothing but
\* perhaps a refusal.
LEMMA NotYet ==
    ASSUME RepliesInv, NEW s \in Streams, arrived[s] # "ended"
    PROVE  /\ task[s].at = "none" /\ task[s].body = "none" /\ handle[s] = "none"
           /\ Silent(s) \/ WasRefused(s)
  BY DEF RepliesInv, Founded, ReplySound

LEMMA Kept ==
    ASSUME RepliesInv, NEW s \in Streams, arrived[s] # "ended", NEW ended \in BOOLEAN,
           requests' \in [Streams -> RequestType], rejected' \subseteq Streams, UNCHANGED <<task, wire>>
    PROVE  Received(s, ended)
  <1>1. task[s].at = "none" /\ task[s].body = "none" /\ (Silent(s) \/ WasRefused(s))
    BY NotYet
  <1>2. Silent(s)' \/ WasRefused(s)'
    BY <1>1 DEF Silent, WasRefused
  <1>3. QED
    BY <1>1, <1>2 DEF Received, RepliesInv, TypesOfReplies

LEMMA Keeping ==
    ASSUME RepliesInv, NEW s \in Streams, arrived[s] # "ended", NEW ended \in BOOLEAN,
           NEW request \in RequestType, Keep(s, request)
    PROVE  Received(s, ended)
  <1>1. requests' \in [Streams -> RequestType] /\ rejected' \subseteq Streams /\ UNCHANGED <<task, wire>>
    BY DEF Keep, RepliesInv, TypesOfReplies
  <1>2. QED
    BY <1>1, Kept

LEMMA NoRequestTyped == NoRequest \in RequestType
  <1>1. 0 \in 0..MaxRequestBody
    BY Http3Assumption
  <1>2. QED
    BY <1>1 DEF NoRequest, RequestType

LEMMA Rejecting ==
    ASSUME RepliesInv, NEW s \in Streams, arrived[s] # "ended", NEW ended \in BOOLEAN, Reject(s)
    PROVE  Received(s, ended)
  <1>1. task[s].at = "none" /\ task[s].body = "none" /\ (Silent(s) \/ WasRefused(s))
    BY NotYet
  <1>2. requests' \in [Streams -> RequestType] /\ rejected' \subseteq Streams /\ UNCHANGED task
    BY NoRequestTyped DEF Reject, RepliesInv, TypesOfReplies
  <1>3. /\ wire' \in [Streams -> WireType] /\ WasRefused(s)'
        /\ \A t \in Streams : t # s => wire'[t] = wire[t]
    BY <1>1, Refusing DEF Reject, RepliesInv
  <1>4. QED
    BY <1>1, <1>2, <1>3 DEF Received, RepliesInv, TypesOfReplies

LEMMA Scheduling ==
    ASSUME RepliesInv, NEW s \in Streams, arrived[s] # "ended", NEW request \in RequestType, Schedule(s, request)
    PROVE  Received(s, TRUE)
  <1>1. CASE Reject(s)
    BY <1>1, Rejecting
  <1>2. CASE /\ requests' = [requests EXCEPT ![s] = NoRequest]
             /\ task' = [task EXCEPT ![s].at = "started"]
             /\ UNCHANGED <<rejected, wire>>
    <2>1. task[s].at = "none" /\ task[s].body = "none" /\ (Silent(s) \/ WasRefused(s))
      BY NotYet
    <2>2. requests' \in [Streams -> RequestType] /\ rejected' \subseteq Streams
      BY <1>2, NoRequestTyped DEF RepliesInv, TypesOfReplies
    <2>3. Goes(s, "started")
      BY <1>2 DEF Goes
    <2>4. /\ task' \in [Streams -> TaskType] /\ task'[s].at = "started" /\ task'[s].body = task[s].body
          /\ \A t \in Streams : t # s => task'[t] = task[t]
      BY <2>3, TaskGoes DEF RepliesInv
    <2>5. Silent(s)' \/ WasRefused(s)'
      BY <1>2, <2>1 DEF Silent, WasRefused
    <2>6. QED
      BY <1>2, <2>1, <2>2, <2>4, <2>5 DEF Received, RepliesInv, TypesOfReplies
  <1>3. QED
    BY <1>1, <1>2 DEF Schedule

LEMMA ReceivedSound ==
    ASSUME RepliesInv, NEW s \in Streams, arrived[s] # "ended", Live(s), NEW ended \in BOOLEAN, Received(s, ended),
           NEW where \in {"open", "trailers", "ended"}, ended => where = "ended",
           arrived' = [arrived EXCEPT ![s] = where], UNCHANGED <<listening, conns, active, handle>>
    PROVE  RepliesInv'
  <1>1. handle[s] = "none"
    BY NotYet
  <1>2. arrived'[s] = where /\ \A t \in Streams : t # s => arrived'[t] = arrived[t]
    BY DEF RepliesInv, TypesOfReplies
  <1>3. OneStream(s)
    BY <1>2 DEF OneStream, Received, listening
  <1>4. TypesOfReplies'
    BY DEF TypesOfReplies, RepliesInv, Received, listening
  <1>5. Founded(s)'
    <2>1. conns'[ConnOf[s]] \in {"admitted", "lost"} /\ listener' \notin {"starting", "failed"}
      BY DEF Live, listening
    <2>2. task'[s].at # "none" => arrived'[s] = "ended"
      BY <1>2 DEF Received
    <2>3. task'[s].body = "none" /\ handle'[s] = "none"
      BY <1>1 DEF Received
    <2>4. QED
      BY <2>1, <2>2, <2>3 DEF Founded
  <1>6. ReplySound(s)'
    <2>1. task'[s].at \in {"none", "started"} /\ (Silent(s)' \/ WasRefused(s)') /\ handle'[s] = "none"
      BY <1>1 DEF Received
    <2>2. QED
      BY <2>1 DEF ReplySound
  <1>7. QED
    BY <1>3, <1>4, <1>5, <1>6, StreamStep

LEMMA HeadersReceived ==
    ASSUME RepliesInv, NEW s \in Streams, arrived[s] # "ended", NEW framed \in BOOLEAN, NEW ended \in BOOLEAN,
           NEW n \in {Unknown} \union 0..(MaxRequestBody + 1), Headers(s, framed, n, ended)
    PROVE  Received(s, ended)
  <1> DEFINE request == [open |-> TRUE, size |-> 0, expected |-> n]
  <1>1. request \in RequestType
    <2>1. 0 \in 0..MaxRequestBody /\ n \in Int
      BY Http3Assumption DEF Unknown
    <2>2. QED
      BY <2>1 DEF RequestType
  <1>2. Reject(s) \/ (ended /\ Schedule(s, request)) \/ (~ended /\ Keep(s, request))
    BY DEF Headers
  <1> HIDE DEF request
  <1>3. CASE ended = TRUE
    BY <1>1, <1>2, <1>3, Rejecting, Scheduling
  <1>4. CASE ended = FALSE
    BY <1>1, <1>2, <1>4, Rejecting, Keeping
  <1>5. QED
    BY <1>3, <1>4

LEMMA ReceiveSound ==
    ASSUME RepliesInv, NEW s \in Streams, Receive(s)
    PROVE  RepliesInv'
  <1>1. ASSUME NEW framed \in BOOLEAN, NEW ended \in BOOLEAN, NEW n \in {Unknown} \union 0..(MaxRequestBody + 1),
               ReceiveHeaders(s, framed, n, ended)
        PROVE  RepliesInv'
    <2> DEFINE where == IF ended THEN "ended" ELSE "open"
    <2>1. /\ Live(s) /\ arrived[s] # "ended" /\ arrived' = [arrived EXCEPT ![s] = where]
          /\ Headers(s, framed, n, ended) /\ UNCHANGED <<listening, conns, active, handle>>
      BY <1>1 DEF ReceiveHeaders
    <2>2. where \in {"open", "trailers", "ended"} /\ (ended => where = "ended")
      OBVIOUS
    <2> HIDE DEF where
    <2>3. Received(s, ended)
      BY <2>1, HeadersReceived
    <2>4. QED
      BY <2>1, <2>2, <2>3, ReceivedSound
  <1>2. ASSUME NEW ended \in BOOLEAN, ReceiveTrailers(s, ended)
        PROVE  RepliesInv'
    <2> DEFINE where == IF ended THEN "ended" ELSE "trailers"
    <2>1. /\ Live(s) /\ arrived[s] # "ended" /\ arrived' = [arrived EXCEPT ![s] = where]
          /\ UNCHANGED <<listening, conns, active, handle>>
      BY <1>2 DEF ReceiveTrailers
    <2>2. where \in {"open", "trailers", "ended"} /\ (ended => where = "ended")
      OBVIOUS
    <2> HIDE DEF where
    <2>3. CASE requests[s].open /\ ended = TRUE
      <3>1. requests[s] \in RequestType /\ Schedule(s, requests[s])
        BY <1>2, <2>3 DEF ReceiveTrailers, RepliesInv, TypesOfReplies
      <3>2. Received(s, ended)
        BY <2>1, <2>3, <3>1, Scheduling
      <3>3. QED
        BY <2>1, <2>2, <3>2, ReceivedSound
    <2>4. CASE requests[s].open /\ ended = FALSE
      <3>1. UNCHANGED <<tables, task, wire>>
        BY <1>2, <2>4 DEF ReceiveTrailers
      <3>2. requests' \in [Streams -> RequestType] /\ rejected' \subseteq Streams
        BY <3>1 DEF tables, RepliesInv, TypesOfReplies
      <3>3. Received(s, ended)
        BY <2>1, <3>1, <3>2, Kept
      <3>4. QED
        BY <2>1, <2>2, <3>3, ReceivedSound
    <2>5. CASE ~requests[s].open
      <3>1. Headers(s, TRUE, Unknown, ended) /\ Unknown \in {Unknown} \union 0..(MaxRequestBody + 1)
        BY <1>2, <2>5 DEF ReceiveTrailers
      <3>2. Received(s, ended)
        BY <2>1, <3>1, HeadersReceived
      <3>3. QED
        BY <2>1, <2>2, <3>2, ReceivedSound
    <2>6. QED
      BY <2>3, <2>4, <2>5
  <1>3. ASSUME NEW ended \in BOOLEAN, NEW n \in 0..1, ReceiveData(s, n, ended)
        PROVE  RepliesInv'
    <2> DEFINE where == IF ended THEN "ended" ELSE arrived[s]
               request == [requests[s] EXCEPT !.size = requests[s].size + n]
    <2>1. /\ Live(s) /\ arrived[s] \in {"open", "trailers"} /\ arrived' = [arrived EXCEPT ![s] = where]
          /\ UNCHANGED <<listening, conns, active, handle>>
      BY <1>3 DEF ReceiveData
    <2>2. where \in {"open", "trailers", "ended"} /\ (ended => where = "ended") /\ arrived[s] # "ended"
      BY <2>1
    <2> HIDE DEF where
    <2>3. \/ s \in rejected /\ rejected' \subseteq rejected /\ UNCHANGED <<requests, task, wire>>
          \/ Reject(s)
          \/ request.size <= MaxRequestBody /\ ended /\ Schedule(s, request)
          \/ request.size <= MaxRequestBody /\ Keep(s, request)
      <3>1. CASE s \in rejected
        BY <1>3, <3>1 DEF ReceiveData
      <3>2. CASE s \notin rejected
        <4>1. requests[s] \in RequestType
          BY DEF RepliesInv, TypesOfReplies
        <4>2. request.size \in Nat
          BY <4>1 DEF RequestType
        <4>3. ~(request.size > MaxRequestBody) => request.size <= MaxRequestBody
          BY <4>2, Http3Assumption
        <4> HIDE DEF request
        <4>4. \/ Reject(s)
              \/ ~(request.size > MaxRequestBody) /\ ended /\ Schedule(s, request)
              \/ ~(request.size > MaxRequestBody) /\ Keep(s, request)
          BY <1>3, <3>2 DEF ReceiveData, request
        <4>5. QED
          BY <4>3, <4>4
      <3>3. QED
        BY <3>1, <3>2
    <2>4. request.size <= MaxRequestBody => request \in RequestType
      <3> DEFINE m == requests[s].size + n
      <3>1. requests[s] \in RequestType /\ requests[s].size \in 0..MaxRequestBody
        BY DEF RepliesInv, TypesOfReplies, RequestType
      <3>2. request.size = m
        BY <3>1 DEF RequestType
      <3>3. m <= MaxRequestBody => m \in 0..MaxRequestBody
        BY <3>1, Http3Assumption
      <3> HIDE DEF m
      <3>4. m \in 0..MaxRequestBody => [requests[s] EXCEPT !.size = m] \in RequestType
        BY <3>1 DEF RequestType
      <3>5. QED
        BY <3>2, <3>3, <3>4 DEF m
    <2> HIDE DEF request
    <2>5. CASE s \in rejected /\ rejected' \subseteq rejected /\ UNCHANGED <<requests, task, wire>>
      <3>1. requests' \in [Streams -> RequestType] /\ rejected' \subseteq Streams
        BY <2>5 DEF RepliesInv, TypesOfReplies
      <3>2. Received(s, ended)
        BY <2>2, <2>5, <3>1, Kept
      <3>3. QED
        BY <2>1, <2>2, <3>2, ReceivedSound
    <2>6. CASE Reject(s)
      BY <2>1, <2>2, <2>6, Rejecting, ReceivedSound
    <2>7. CASE request.size <= MaxRequestBody /\ ended /\ Schedule(s, request)
      <3>1. ended = TRUE
        BY <2>7
      <3>2. Received(s, ended)
        BY <2>2, <2>4, <2>7, <3>1, Scheduling
      <3>3. QED
        BY <2>1, <2>2, <3>2, ReceivedSound
    <2>8. CASE request.size <= MaxRequestBody /\ Keep(s, request)
      <3>1. Received(s, ended)
        BY <2>2, <2>4, <2>8, Keeping
      <3>2. QED
        BY <2>1, <2>2, <3>1, ReceivedSound
    <2>9. QED
      BY <2>3, <2>5, <2>6, <2>7, <2>8
  <1>4. QED
    BY <1>1, <1>2, <1>3 DEF Receive

\* What is to be shown of a step of a reply.
LEMMA ReplyStep ==
    ASSUME RepliesInv, NEW s \in Streams, ReplyOnly, task[s].at # "none", task'[s].at # "none",
           task' \in [Streams -> TaskType], wire' \in [Streams -> WireType],
           handle' \in [Streams -> {"none", "open", "closed", "dropped"}],
           \A t \in Streams : t # s => task'[t] = task[t] /\ wire'[t] = wire[t] /\ handle'[t] = handle[t],
           ReplySound(s)'
    PROVE  RepliesInv'
  <1>1. OneStream(s)
    BY DEF OneStream, ReplyOnly, listening
  <1>2. TypesOfReplies'
    BY DEF RepliesInv, TypesOfReplies, ReplyOnly, listening, tables
  <1>3. Founded(s)'
    BY DEF RepliesInv, Founded, ReplyOnly, listening
  <1>4. QED
    BY <1>1, <1>2, <1>3, StreamStep

LEMMA BeginSound ==
    ASSUME RepliesInv, NEW s \in Streams, BeginReply(s)
    PROVE  RepliesInv'
  <1>1. task[s].at = "started" /\ ReplyOnly /\ UNCHANGED <<handle, wire>>
    BY DEF BeginReply
  <1>2. TypesOfReplies /\ ReplySound(s)
    BY DEF RepliesInv
  <1>3. PICK a \in {"building", "answering", "opening"} :
          /\ task' \in [Streams -> TaskType] /\ task'[s].at = a
          /\ a = "answering" => task'[s].body = "bytes"
          /\ a = "opening" => task'[s].body \in {"file", "head"} /\ task'[s].left = FileSize
          /\ \A t \in Streams : t # s => task'[t] = task[t]
    <2>1. CASE Goes(s, "building")
      BY <1>2, <2>1, TaskGoes
    <2>2. CASE task' = [task EXCEPT ![s] = [at |-> "answering", body |-> "bytes", left |-> 0]]
      <3>1. [at |-> "answering", body |-> "bytes", left |-> 0] \in TaskType
        BY DEF TaskType
      <3>2. QED
        BY <1>2, <2>2, <3>1, TaskBecomes
    <2>3. ASSUME NEW body \in {"file", "head"},
                 task' = [task EXCEPT ![s] = [at |-> "opening", body |-> body, left |-> FileSize]]
          PROVE  /\ task' \in [Streams -> TaskType] /\ task'[s].at = "opening"
                 /\ task'[s].body = body /\ task'[s].left = FileSize
                 /\ \A t \in Streams : t # s => task'[t] = task[t]
      <3>1. [at |-> "opening", body |-> body, left |-> FileSize] \in TaskType
        BY Http3Assumption DEF TaskType
      <3>2. QED
        BY <1>2, <2>3, <3>1, TaskBecomes
    <2>4. QED
      BY <2>1, <2>2, <2>3 DEF BeginReply
  <1>4. ReplySound(s)'
    <2>1. (Silent(s) \/ WasRefused(s)) /\ handle[s] # "open"
      BY <1>1, <1>2 DEF ReplySound
    <2>2. Silent(s)' \/ WasRefused(s)'
      BY <1>1, <2>1 DEF Silent, WasRefused
    <2>3. handle'[s] # "open" /\ (handle'[s] = "dropped" => ~Live(s)')
      BY <1>1, <1>2, <2>1 DEF ReplySound, Live, ReplyOnly, listening
    <2>4. QED
      BY <1>3, <2>2, <2>3 DEF ReplySound
  <1>5. QED
    <2>1. wire' \in [Streams -> WireType] /\ handle' \in [Streams -> {"none", "open", "closed", "dropped"}]
      BY <1>1, <1>2 DEF TypesOfReplies
    <2>2. QED
      BY <1>1, <1>3, <1>4, <2>1, ReplyStep

LEMMA BuiltSound ==
    ASSUME RepliesInv, NEW s \in Streams, Built(s)
    PROVE  RepliesInv'
  <1>1. task[s].at \in {"building", "abandoned"} /\ ReplyOnly /\ UNCHANGED <<handle, wire>>
    BY DEF Built
  <1>2. TypesOfReplies /\ ReplySound(s)
    BY DEF RepliesInv
  <1>3. PICK a \in {"done", "failed", "answering"} :
          /\ task' \in [Streams -> TaskType] /\ task'[s].at = a
          /\ a = "answering" => task'[s].body = "bytes"
          /\ \A t \in Streams : t # s => task'[t] = task[t]
    <2>1. CASE Goes(s, "done") \/ Goes(s, "failed")
      BY <1>2, <2>1, TaskGoes
    <2>2. CASE task' = [task EXCEPT ![s] = [at |-> "answering", body |-> "bytes", left |-> 1]]
      <3>1. [at |-> "answering", body |-> "bytes", left |-> 1] \in TaskType
        BY DEF TaskType
      <3>2. QED
        BY <1>2, <2>2, <3>1, TaskBecomes
    <2>3. CASE task[s].at = "abandoned"
      <3>1. Goes(s, "done")
        BY <2>3 DEF Built, Goes
      <3>2. QED
        BY <2>1, <3>1
    <2>4. CASE task[s].at = "building" /\ call[s].outcome = "value"
      BY <2>2, <2>4 DEF Built
    <2>5. CASE task[s].at = "building" /\ call[s].outcome # "value"
      <3>1. Goes(s, "failed")
        BY <2>5 DEF Built, Goes
      <3>2. QED
        BY <2>1, <3>1
    <2>6. QED
      BY <1>1, <2>3, <2>4, <2>5
  <1>4. ReplySound(s)'
    <2>1. (Silent(s) \/ WasRefused(s)) /\ handle[s] # "open"
      BY <1>1, <1>2 DEF ReplySound
    <2>2. Silent(s)' \/ WasRefused(s)'
      BY <1>1, <2>1 DEF Silent, WasRefused
    <2>3. handle'[s] # "open" /\ (handle'[s] = "dropped" => ~Live(s)')
      BY <1>1, <1>2, <2>1 DEF ReplySound, Live, ReplyOnly, listening
    <2>4. QED
      BY <1>3, <2>2, <2>3 DEF ReplySound
  <1>5. QED
    <2>1. wire' \in [Streams -> WireType] /\ handle' \in [Streams -> {"none", "open", "closed", "dropped"}]
      BY <1>1, <1>2 DEF TypesOfReplies
    <2>2. QED
      BY <1>1, <1>3, <1>4, <2>1, ReplyStep

\* What a reply does with its file: opens it, closes it, or leaves it behind.
LEMMA FileSound ==
    ASSUME RepliesInv, NEW s \in Streams, Opened(s) \/ CloseFile(s) \/ ReplyLost(s)
    PROVE  RepliesInv'
  <1>1. /\ task[s].at \in {"opening", "closing", "raising", "answering"} /\ ReplyOnly /\ UNCHANGED wire
    BY DEF Opened, CloseFile, ReplyLost
  <1>2. TypesOfReplies /\ ReplySound(s)
    BY DEF RepliesInv
  <1>3. PICK a \in {"answering", "done", "failed"}, h \in {"none", "open", "closed", "dropped"} :
          /\ Goes(s, a) /\ handle' = [handle EXCEPT ![s] = h]
          /\ a = "answering" => task[s].at = "opening"
          /\ h = "open" => a = "answering"
          /\ h = "dropped" => ~Live(s)
    <2>1. CASE Opened(s)
      BY <2>1 DEF Opened
    <2>2. CASE CloseFile(s)
      BY <2>2 DEF CloseFile
    <2>3. CASE ReplyLost(s)
      <3>1. handle[s] \in {"none", "open", "closed", "dropped"}
        BY <1>2 DEF TypesOfReplies
      <3>2. QED
        BY <2>3, <3>1 DEF ReplyLost
    <2>4. QED
      BY <2>1, <2>2, <2>3
  <1>4. /\ handle' \in [Streams -> {"none", "open", "closed", "dropped"}] /\ handle'[s] = h
        /\ \A t \in Streams : t # s => handle'[t] = handle[t]
    BY <1>2, <1>3 DEF TypesOfReplies
  <1>5. /\ task' \in [Streams -> TaskType] /\ task'[s].at = a
        /\ task'[s].body = task[s].body /\ task'[s].left = task[s].left
        /\ \A t \in Streams : t # s => task'[t] = task[t]
    BY <1>2, <1>3, TaskGoes
  <1>6. ReplySound(s)'
    <2>1. /\ Silent(s) \/ WasRefused(s) \/ Replied(s)
          /\ task[s].at = "opening" => /\ task[s].body \in {"file", "head"}
                                       /\ task[s].body = "file" => task[s].left = FileSize
                                       /\ Silent(s) \/ WasRefused(s)
      BY <1>1, <1>2 DEF ReplySound
    <2>2. /\ Silent(s) => Silent(s)'
          /\ WasRefused(s) => WasRefused(s)'
          /\ Replied(s) => Replied(s)'
      BY <1>1, <1>5 DEF Silent, WasRefused, Replied
    <2>3. handle'[s] = "dropped" => ~Live(s)'
      BY <1>1, <1>3, <1>4 DEF Live, ReplyOnly, listening
    <2>4. CASE a \in {"done", "failed"}
      BY <1>3, <1>4, <1>5, <2>1, <2>2, <2>3, <2>4 DEF ReplySound
    <2>5. CASE a = "answering"
      BY <1>3, <1>4, <1>5, <2>1, <2>2, <2>3, <2>5 DEF ReplySound
    <2>6. QED
      BY <2>4, <2>5
  <1>7. QED
    <2>1. wire' \in [Streams -> WireType] /\ \A t \in Streams : t # s => wire'[t] = wire[t]
      BY <1>1, <1>2 DEF TypesOfReplies
    <2>2. task[s].at # "none" /\ task'[s].at # "none"
      BY <1>1, <1>5
    <2>3. QED
      BY <1>1, <1>4, <1>5, <1>6, <2>1, <2>2, ReplyStep

\* The record of a sender, as the steps of a reply assign it.
LEMMA ErrorField ==
    ASSUME NEW r \in WireType, NEW o, o = [r EXCEPT !.error = TRUE]
    PROVE  /\ o \in WireType /\ o.heads = r.heads /\ o.data = r.data /\ o.ended = r.ended
           /\ o.refused = r.refused /\ o.reset = r.reset
  BY DEF WireType

LEMMA ResetField ==
    ASSUME NEW r \in WireType, NEW o, o = [r EXCEPT !.reset = TRUE]
    PROVE  o \in WireType /\ o.heads = r.heads /\ o.ended = r.ended /\ o.refused = r.refused
  BY DEF WireType

LEMMA QueuedField ==
    ASSUME NEW r \in WireType, NEW n \in Nat, NEW o, o = [r EXCEPT !.queued = n]
    PROVE  /\ o \in WireType /\ o.heads = r.heads /\ o.data = r.data /\ o.ended = r.ended
           /\ o.refused = r.refused /\ o.reset = r.reset
  BY DEF WireType

\* A sender that is told nothing, or only an error.
WireSame(s) ==
  /\ wire' \in [Streams -> WireType]
  /\ wire'[s].heads = wire[s].heads /\ wire'[s].data = wire[s].data /\ wire'[s].ended = wire[s].ended
  /\ wire'[s].refused = wire[s].refused /\ wire'[s].reset = wire[s].reset
  /\ \A t \in Streams : t # s => wire'[t] = wire[t]

LEMMA ErrorOnly ==
    ASSUME TypesOfReplies, NEW s \in Streams, wire' = [wire EXCEPT ![s].error = TRUE]
    PROVE  WireSame(s)
  <1> DEFINE new == [wire[s] EXCEPT !.error = TRUE]
  <1>1. wire[s] \in WireType
    BY DEF TypesOfReplies
  <1>2. /\ new \in WireType /\ new.heads = wire[s].heads /\ new.data = wire[s].data
        /\ new.ended = wire[s].ended /\ new.refused = wire[s].refused /\ new.reset = wire[s].reset
    BY <1>1, ErrorField
  <1>3. wire' = [wire EXCEPT ![s] = new]
    OBVIOUS
  <1> HIDE DEF new
  <1>4. QED
    BY <1>2, <1>3, WireBecomes DEF WireSame

LEMMA ResetOnly ==
    ASSUME TypesOfReplies, NEW s \in Streams, wire' = [wire EXCEPT ![s].reset = TRUE], Streaming(s)
    PROVE  /\ wire' \in [Streams -> WireType] /\ wire'[s].heads = 1 /\ wire'[s].ended = FALSE
           /\ wire'[s].refused = FALSE
           /\ \A t \in Streams : t # s => wire'[t] = wire[t]
  <1> DEFINE new == [wire[s] EXCEPT !.reset = TRUE]
  <1>1. wire[s] \in WireType
    BY DEF TypesOfReplies
  <1>2. new \in WireType /\ new.heads = wire[s].heads /\ new.ended = wire[s].ended /\ new.refused = wire[s].refused
    BY <1>1, ResetField
  <1>3. wire' = [wire EXCEPT ![s] = new]
    OBVIOUS
  <1>4. wire[s].heads = 1 /\ wire[s].ended = FALSE /\ wire[s].refused = FALSE
    BY <1>1 DEF Streaming, WireType
  <1> HIDE DEF new
  <1>5. QED
    BY <1>2, <1>3, <1>4, WireBecomes

LEMMA SendSound ==
    ASSUME RepliesInv, NEW s \in Streams, SendReply(s)
    PROVE  RepliesInv'
  <1>1. task[s].at = "answering" /\ Live(s) /\ ReplyOnly /\ UNCHANGED handle
    BY DEF SendReply
  <1>2. TypesOfReplies /\ ReplySound(s)
    BY DEF RepliesInv
  <1>3. /\ Silent(s) \/ WasRefused(s)
        /\ task[s].body \in {"bytes", "file", "head"} /\ (task[s].body = "file" => task[s].left = FileSize)
        /\ handle[s] = "open" => task[s].body \in {"file", "head"}
        /\ handle[s] # "dropped"
    BY <1>1, <1>2 DEF ReplySound, TypesOfReplies, TaskType
  <1>4. wire[s] \in WireType /\ task[s] \in TaskType /\ task[s].left \in Nat
    BY <1>2 DEF TypesOfReplies, TaskType
  <1>5. handle' \in [Streams -> {"none", "open", "closed", "dropped"}] /\ \A t \in Streams : handle'[t] = handle[t]
    BY <1>1, <1>2 DEF TypesOfReplies
  <1>6. CASE wire[s].ended
    <2> DEFINE where == IF task[s].body = "bytes" THEN "failed" ELSE "raising"
    <2>1. Goes(s, where) /\ wire' = [wire EXCEPT ![s].error = TRUE]
      BY <1>6 DEF SendReply
    <2>2. where \in {"failed", "raising"} /\ (where = "raising" => task[s].body \in {"file", "head"})
          /\ (where = "failed" => task[s].body = "bytes")
      BY <1>3
    <2> HIDE DEF where
    <2>3. WireSame(s)
      BY <1>2, <2>1, ErrorOnly
    <2>4. /\ task' \in [Streams -> TaskType] /\ task'[s].at = where /\ task'[s].body = task[s].body
          /\ \A t \in Streams : t # s => task'[t] = task[t]
      BY <1>2, <2>1, <2>2, TaskGoes
    <2>5. WasRefused(s)'
      BY <1>3, <1>6, <2>3 DEF WireSame, WasRefused, Silent
    <2>6. ReplySound(s)'
      BY <1>3, <1>5, <2>2, <2>4, <2>5 DEF ReplySound
    <2>7. QED
      BY <1>1, <1>5, <2>2, <2>3, <2>4, <2>6, ReplyStep DEF WireSame
  <1>7. CASE ~wire[s].ended /\ task[s].body # "file"
    <2> DEFINE n == wire[s].heads + 1
               d == IF task[s].body = "bytes" THEN task[s].left ELSE 0
               where == IF task[s].body = "bytes" THEN "done" ELSE "closing"
               new == [wire[s] EXCEPT !.heads = n, !.data = d, !.ended = TRUE]
    <2>1. n = 1 /\ Silent(s)
      BY <1>3, <1>7 DEF Silent, WasRefused
    <2>2. Goes(s, where) /\ wire' = [wire EXCEPT ![s] = new]
      BY <1>2, <1>3, <1>7 DEF SendReply, TypesOfReplies
    <2>3. /\ n \in Nat /\ d \in Nat /\ (task[s].body = "head" => d = 0)
          /\ where \in {"done", "closing"} /\ (where = "closing" <=> task[s].body = "head")
      BY <1>3, <1>4, <1>7, <2>1
    <2> HIDE DEF n, d, where
    <2>4. /\ new \in WireType /\ new.heads = n /\ new.data = d /\ new.ended = TRUE
          /\ new.refused = wire[s].refused /\ new.reset = wire[s].reset
      <3>1. new = [wire[s] EXCEPT !.heads = n, !.data = d, !.ended = TRUE]
        OBVIOUS
      <3> HIDE DEF new
      <3>2. QED
        BY <1>4, <2>3, <3>1 DEF WireType
    <2> HIDE DEF new
    <2>5. /\ wire' \in [Streams -> WireType] /\ wire'[s] = new
          /\ \A t \in Streams : t # s => wire'[t] = wire[t]
      BY <1>2, <2>2, <2>4, WireBecomes
    <2>6. /\ task' \in [Streams -> TaskType] /\ task'[s].at = where /\ task'[s].body = task[s].body
          /\ \A t \in Streams : t # s => task'[t] = task[t]
      BY <1>2, <2>2, <2>3, TaskGoes
    <2>7. Replied(s)'
      BY <1>3, <1>7, <2>1, <2>3, <2>4, <2>5, <2>6 DEF Replied, Silent
    <2>8. handle'[s] # "open" \/ where = "closing"
      BY <1>3, <1>5, <1>7, <2>3
    <2>9. ReplySound(s)'
      BY <1>3, <1>5, <1>7, <2>3, <2>6, <2>7, <2>8 DEF ReplySound
    <2>10. QED
      BY <1>1, <1>5, <2>3, <2>5, <2>6, <2>9, ReplyStep
  <1>8. CASE ~wire[s].ended /\ task[s].body = "file"
    <2> DEFINE n == wire[s].heads + 1
               new == [wire[s] EXCEPT !.heads = n, !.data = 0, !.ended = FALSE]
    <2>1. n = 1 /\ Silent(s)
      BY <1>3, <1>8 DEF Silent, WasRefused
    <2>2. Goes(s, "capacity") /\ wire' = [wire EXCEPT ![s] = new]
      BY <1>2, <1>8 DEF SendReply, TypesOfReplies
    <2>3. n \in Nat
      BY <2>1
    <2> HIDE DEF n
    <2>4. /\ new \in WireType /\ new.heads = n /\ new.data = 0 /\ new.ended = FALSE
          /\ new.refused = wire[s].refused /\ new.reset = wire[s].reset
      <3>1. new = [wire[s] EXCEPT !.heads = n, !.data = 0, !.ended = FALSE]
        OBVIOUS
      <3> HIDE DEF new
      <3>2. QED
        BY <1>4, <2>3, <3>1 DEF WireType
    <2> HIDE DEF new
    <2>5. /\ wire' \in [Streams -> WireType] /\ wire'[s] = new
          /\ \A t \in Streams : t # s => wire'[t] = wire[t]
      BY <1>2, <2>2, <2>4, WireBecomes
    <2>6. /\ task' \in [Streams -> TaskType] /\ task'[s].at = "capacity"
          /\ task'[s].body = task[s].body /\ task'[s].left = task[s].left
          /\ \A t \in Streams : t # s => task'[t] = task[t]
      BY <1>2, <2>2, TaskGoes
    <2>7. task'[s].body = "file" /\ task'[s].left = FileSize
      BY <1>3, <1>8, <2>6
    <2>8. Streaming(s)'
      BY <2>1, <2>4, <2>5, <2>7, Http3Assumption DEF Streaming, Silent
    <2>9. ReplySound(s)'
      BY <1>3, <1>5, <2>6, <2>7, <2>8 DEF ReplySound
    <2>10. QED
      BY <1>1, <1>5, <2>5, <2>6, <2>9, ReplyStep
  <1>9. QED
    BY <1>6, <1>7, <1>8

\* A file that is streamed, chunk by chunk against the client's flow control.
LEMMA ChunkSound ==
    ASSUME RepliesInv, NEW s \in Streams, HasCapacity(s) \/ CapacityTimesOut(s) \/ ReadChunk(s)
    PROVE  RepliesInv'
  <1>1. task[s].at \in {"capacity", "reading"} /\ ReplyOnly /\ UNCHANGED handle
    BY DEF HasCapacity, CapacityTimesOut, ReadChunk
  <1>2. TypesOfReplies /\ ReplySound(s)
    BY DEF RepliesInv
  <1>3. Streaming(s) /\ task[s].body = "file" /\ (handle[s] = "dropped" => ~Live(s))
    BY <1>1, <1>2 DEF ReplySound, Streaming
  <1>4. wire[s] \in WireType /\ task[s] \in TaskType /\ task[s].left \in 1..FileSize /\ wire[s].data \in Nat
    BY <1>2, <1>3 DEF TypesOfReplies, WireType, Streaming
  <1>5. handle' \in [Streams -> {"none", "open", "closed", "dropped"}] /\ \A t \in Streams : handle'[t] = handle[t]
    BY <1>1, <1>2 DEF TypesOfReplies
  <1>6. handle'[s] = "dropped" => ~Live(s)'
    BY <1>1, <1>3, <1>5 DEF Live, ReplyOnly, listening
  <1>7. CASE HasCapacity(s)
    <2>1. Goes(s, "reading") /\ UNCHANGED wire
      BY <1>7 DEF HasCapacity
    <2>2. /\ task' \in [Streams -> TaskType] /\ task'[s].at = "reading"
          /\ task'[s].body = task[s].body /\ task'[s].left = task[s].left
          /\ \A t \in Streams : t # s => task'[t] = task[t]
      BY <1>2, <2>1, TaskGoes
    <2>3. Streaming(s)'
      BY <1>3, <2>1, <2>2 DEF Streaming
    <2>4. ReplySound(s)'
      BY <1>3, <1>6, <2>2, <2>3 DEF ReplySound
    <2>5. wire' \in [Streams -> WireType] /\ \A t \in Streams : t # s => wire'[t] = wire[t]
      BY <1>2, <2>1 DEF TypesOfReplies
    <2>6. QED
      BY <1>1, <1>5, <2>2, <2>4, <2>5, ReplyStep
  <1>8. CASE Goes(s, "closing") /\ wire' = [wire EXCEPT ![s].reset = TRUE]
    <2>1. /\ task' \in [Streams -> TaskType] /\ task'[s].at = "closing"
          /\ task'[s].body = task[s].body /\ task'[s].left = task[s].left
          /\ \A t \in Streams : t # s => task'[t] = task[t]
      BY <1>2, <1>8, TaskGoes
    <2>2. /\ wire' \in [Streams -> WireType] /\ wire'[s].heads = 1 /\ wire'[s].ended = FALSE
          /\ wire'[s].refused = FALSE
          /\ \A t \in Streams : t # s => wire'[t] = wire[t]
      BY <1>2, <1>3, <1>8, ResetOnly
    <2>3. Replied(s)'
      BY <1>3, <2>1, <2>2 DEF Replied
    <2>4. ReplySound(s)'
      BY <1>3, <1>6, <2>1, <2>3 DEF ReplySound
    <2>5. QED
      BY <1>1, <1>5, <2>1, <2>2, <2>4, ReplyStep
  <1>9. CASE /\ task' = [task EXCEPT ![s].left = @ - 1,
                                     ![s].at = IF task[s].left = 1 THEN "closing" ELSE "capacity"]
             /\ wire' = [wire EXCEPT ![s].data = @ + 1, ![s].queued = @ + 1, ![s].ended = task[s].left = 1]
    <2> DEFINE final == task[s].left = 1
               l == task[s].left - 1
               d == wire[s].data + 1
               q == wire[s].queued + 1
               where == IF final THEN "closing" ELSE "capacity"
               newTask == [task[s] EXCEPT !.left = l, !.at = where]
               newWire == [wire[s] EXCEPT !.data = d, !.queued = q, !.ended = final]
    <2>1. task' = [task EXCEPT ![s] = newTask] /\ wire' = [wire EXCEPT ![s] = newWire]
      BY <1>2, <1>9 DEF TypesOfReplies
    <2>2. l \in Nat /\ d \in Nat /\ q \in Nat /\ final \in BOOLEAN
      BY <1>4 DEF WireType
    <2>3. where \in {"closing", "capacity"} /\ (where = "closing" <=> final)
      OBVIOUS
    <2>4. d + l = FileSize /\ (final => d = FileSize) /\ (~final => l \in 1..FileSize)
      BY <1>3, <1>4, Http3Assumption DEF Streaming
    <2> HIDE DEF final, l, d, q, where
    <2>5. /\ newWire \in WireType /\ newWire.heads = wire[s].heads /\ newWire.data = d /\ newWire.ended = final
          /\ newWire.refused = wire[s].refused /\ newWire.reset = wire[s].reset
      <3>1. newWire = [wire[s] EXCEPT !.data = d, !.queued = q, !.ended = final]
        OBVIOUS
      <3> HIDE DEF newWire
      <3>2. QED
        BY <1>4, <2>2, <3>1 DEF WireType
    <2>6. newTask \in TaskType /\ newTask.at = where /\ newTask.left = l /\ newTask.body = task[s].body
      BY <1>4, <2>2, <2>3 DEF TaskType
    <2> HIDE DEF newWire, newTask
    <2>7. /\ wire' \in [Streams -> WireType] /\ wire'[s] = newWire
          /\ \A t \in Streams : t # s => wire'[t] = wire[t]
      BY <1>2, <2>1, <2>5, WireBecomes
    <2>8. /\ task' \in [Streams -> TaskType] /\ task'[s] = newTask
          /\ \A t \in Streams : t # s => task'[t] = task[t]
      BY <1>2, <2>1, <2>6, TaskBecomes
    <2>9. wire'[s].heads = 1 /\ ~wire'[s].refused /\ ~wire'[s].reset
      BY <1>3, <2>5, <2>7 DEF Streaming
    <2>10. CASE final
      <3>1. task'[s].at = "closing" /\ task'[s].body = "file"
        BY <1>3, <2>3, <2>6, <2>8, <2>10
      <3>2. Replied(s)'
        BY <2>4, <2>5, <2>7, <2>9, <2>10, <3>1 DEF Replied
      <3>3. ReplySound(s)'
        BY <1>6, <3>1, <3>2 DEF ReplySound
      <3>4. QED
        BY <1>1, <1>5, <2>7, <2>8, <3>1, <3>3, ReplyStep
    <2>11. CASE ~final
      <3>1. task'[s].at = "capacity" /\ task'[s].body = "file"
        BY <1>3, <2>3, <2>6, <2>8, <2>11
      <3>2. Streaming(s)'
        BY <2>4, <2>5, <2>6, <2>7, <2>8, <2>9, <2>11, <3>1 DEF Streaming
      <3>3. ReplySound(s)'
        BY <1>6, <3>1, <3>2 DEF ReplySound
      <3>4. QED
        BY <1>1, <1>5, <2>7, <2>8, <3>1, <3>3, ReplyStep
    <2>12. QED
      BY <2>10, <2>11
  <1>10. CASE Goes(s, "raising") /\ UNCHANGED wire
    <2>1. /\ task' \in [Streams -> TaskType] /\ task'[s].at = "raising"
          /\ task'[s].body = task[s].body /\ task'[s].left = task[s].left
          /\ \A t \in Streams : t # s => task'[t] = task[t]
      BY <1>2, <1>10, TaskGoes
    <2>2. wire' \in [Streams -> WireType] /\ \A t \in Streams : wire'[t] = wire[t]
      BY <1>2, <1>10 DEF TypesOfReplies
    <2>3. Replied(s)'
      BY <1>3, <2>1, <2>2 DEF Streaming, Replied
    <2>4. ReplySound(s)'
      BY <1>3, <1>6, <2>1, <2>3 DEF ReplySound
    <2>5. QED
      BY <1>1, <1>5, <2>1, <2>2, <2>4, ReplyStep
  <1>11. QED
    BY <1>7, <1>8, <1>9, <1>10 DEF CapacityTimesOut, ReadChunk

LEMMA AcknowledgeSound ==
    ASSUME RepliesInv, NEW s \in Streams, Acknowledge(s)
    PROVE  RepliesInv'
  <1> DEFINE q == wire[s].queued - 1
             new == [wire[s] EXCEPT !.queued = q]
  <1>1. wire[s].queued > 0 /\ ReplyOnly /\ UNCHANGED <<task, handle>> /\ wire' = [wire EXCEPT ![s] = new]
    BY DEF Acknowledge
  <1>2. TypesOfReplies /\ ReplySound(s) /\ Founded(s) /\ wire[s] \in WireType
    BY DEF RepliesInv, TypesOfReplies
  <1>3. q \in Nat
    BY <1>1, <1>2 DEF WireType
  <1> HIDE DEF q
  <1>4. /\ new \in WireType /\ new.heads = wire[s].heads /\ new.data = wire[s].data /\ new.ended = wire[s].ended
        /\ new.refused = wire[s].refused /\ new.reset = wire[s].reset
    <2>1. new = [wire[s] EXCEPT !.queued = q]
      OBVIOUS
    <2> HIDE DEF new
    <2>2. QED
      BY <1>2, <1>3, <2>1, QueuedField
  <1> HIDE DEF new
  <1>5. WireSame(s)
    BY <1>1, <1>2, <1>4, WireBecomes DEF WireSame
  <1>6. OneStream(s)
    BY <1>1, <1>5 DEF OneStream, ReplyOnly, listening, WireSame
  <1>7. TypesOfReplies'
    BY <1>1, <1>2, <1>5 DEF TypesOfReplies, ReplyOnly, listening, tables, WireSame
  <1>8. Founded(s)'
    BY <1>1, <1>2 DEF Founded, ReplyOnly, listening
  <1>9. ReplySound(s)'
    <2>1. /\ Silent(s) => Silent(s)'
          /\ WasRefused(s) => WasRefused(s)'
          /\ Streaming(s) => Streaming(s)'
          /\ Replied(s) => Replied(s)'
      BY <1>1, <1>5 DEF Silent, WasRefused, Streaming, Replied, WireSame
    <2>2. Live(s)' = Live(s)
      BY <1>1 DEF Live, ReplyOnly, listening
    <2>3. QED
      BY <1>1, <1>2, <2>1, <2>2 DEF ReplySound
  <1>10. QED
    BY <1>6, <1>7, <1>8, <1>9, StreamStep

-----------------------------------------------------------------------------
(* Connections that come and go, and the listener                          *)

\* The listener's thread and its owner, as far as they touch no stream.
LEMMA ListenerSound ==
    ASSUME RepliesInv, Unmoved, UNCHANGED task,
           listener' \in {"starting", "serving", "stopping", "failed", "ended"},
           owner' \in {"waiting", "raised", "running", "closing", "closed", "stuck"}, stop' \in BOOLEAN,
           listener = "starting" \/ listener' \notin {"starting", "failed", "serving"} \/ listener' = listener
    PROVE  RepliesInv'
  <1>1. TypesOfReplies'
    BY DEF Unmoved, RepliesInv, TypesOfReplies, tables, replies
  <1>2. PlacesCounted'
    BY DEF Unmoved, RepliesInv, PlacesCounted, Admittees
  <1>3. ASSUME NEW t \in Streams PROVE Founded(t)' /\ ReplySound(t)'
    <2>1. Founded(t) /\ ReplySound(t)
      BY DEF RepliesInv
    <2>2. /\ arrived'[t] = arrived[t] /\ task'[t] = task[t] /\ handle'[t] = handle[t] /\ wire'[t] = wire[t]
          /\ conns' = conns
      BY DEF Unmoved, replies
    <2>3. arrived[t] # "none" => /\ conns'[ConnOf[t]] \in {"admitted", "lost"} /\ listener' \notin {"starting", "failed"}
                                 /\ conns'[ConnOf[t]] = "admitted" /\ listener' = "serving" => Live(t)
      BY <2>1, <2>2 DEF Founded, Live
    <2>4. QED
      BY <2>1, <2>2, <2>3, Untouched
  <1>4. QED
    BY <1>1, <1>2, <1>3 DEF RepliesInv

\* A task that is cancelled: its stream was given what it was given before.
LEMMA CancelSound ==
    ASSUME NEW t \in Streams, TypesOfReplies, Founded(t), ReplySound(t),
           arrived'[t] = arrived[t], handle'[t] = handle[t], wire'[t] = wire[t], task'[t] = Cancelled(t),
           arrived[t] # "none" => conns'[ConnOf[t]] \in {"admitted", "lost"} /\ listener' \notin {"starting", "failed"},
           ~(conns'[ConnOf[t]] = "admitted" /\ listener' = "serving")
    PROVE  task'[t] \in TaskType /\ Founded(t)' /\ ReplySound(t)'
  <1>1. task[t] \in TaskType
    BY DEF TypesOfReplies
  <1>2. PICK a : /\ task'[t] \in TaskType /\ task'[t].at = a
                 /\ task'[t].body = task[t].body /\ task'[t].left = task[t].left
                 /\ \/ task[t].at = "building" /\ a = "abandoned"
                    \/ task[t].at \in {"capacity", "reading"} /\ a = "closing"
                    \/ task[t].at = "started" /\ a = "done"
                    \/ task[t].at \notin {"building", "capacity", "reading", "started"} /\ a = task[t].at
    <2>1. \A where \in {"abandoned", "closing", "done"} :
            LET o == [task[t] EXCEPT !.at = where]
            IN o \in TaskType /\ o.at = where /\ o.body = task[t].body /\ o.left = task[t].left
      BY <1>1 DEF TaskType
    <2>2. CASE task[t].at = "building"
      BY <2>1, <2>2 DEF Cancelled
    <2>3. CASE task[t].at \in {"capacity", "reading"}
      BY <2>1, <2>3 DEF Cancelled
    <2>4. CASE task[t].at = "started"
      BY <2>1, <2>4 DEF Cancelled
    <2>5. CASE task[t].at \notin {"building", "capacity", "reading", "started"}
      BY <1>1, <2>5 DEF Cancelled
    <2>6. QED
      BY <2>2, <2>3, <2>4, <2>5
  <1>3. Founded(t)'
    BY <1>2 DEF Founded
  <1>4. ~Live(t)'
    BY DEF Live
  <1>5. /\ Silent(t) => Silent(t)'
        /\ WasRefused(t) => WasRefused(t)'
        /\ Streaming(t) => Replied(t)' /\ task'[t].body = "file"
        /\ Replied(t) => Replied(t)'
    BY <1>2 DEF Silent, WasRefused, Streaming, Replied
  <1>6. ReplySound(t)'
    <2>1. CASE task[t].at = "building" /\ a = "abandoned"
      BY <1>2, <1>4, <1>5, <2>1 DEF ReplySound
    <2>2. CASE task[t].at \in {"capacity", "reading"} /\ a = "closing"
      BY <1>2, <1>4, <1>5, <2>2 DEF ReplySound
    <2>3. CASE task[t].at = "started" /\ a = "done"
      BY <1>2, <1>4, <1>5, <2>3 DEF ReplySound
    <2>4. CASE task[t].at \notin {"building", "capacity", "reading", "started"} /\ a = task[t].at
      BY <1>2, <1>4, <1>5, <2>4 DEF ReplySound
    <2>5. QED
      BY <1>2, <2>1, <2>2, <2>3, <2>4
  <1>7. QED
    BY <1>2, <1>3, <1>6

LEMMA StopSound ==
    ASSUME RepliesInv, StopListening
    PROVE  RepliesInv'
  <1>1. /\ listener = "serving" /\ listener' = "stopping"
        /\ task' = [s \in Streams |-> Cancelled(s)]
        /\ UNCHANGED <<owner, stop, conns, active, arrived, tables, handle, wire>>
    BY DEF StopListening
  <1>2. ASSUME NEW t \in Streams PROVE task'[t] \in TaskType /\ Founded(t)' /\ ReplySound(t)'
    <2>1. Founded(t) /\ ReplySound(t) /\ TypesOfReplies
      BY DEF RepliesInv
    <2>2. /\ arrived'[t] = arrived[t] /\ handle'[t] = handle[t] /\ wire'[t] = wire[t] /\ task'[t] = Cancelled(t)
          /\ conns' = conns
      BY <1>1
    <2>3. arrived[t] # "none" => conns'[ConnOf[t]] \in {"admitted", "lost"} /\ listener' \notin {"starting", "failed"}
      BY <1>1, <2>1, <2>2 DEF Founded
    <2>4. ~(conns'[ConnOf[t]] = "admitted" /\ listener' = "serving")
      BY <1>1
    <2>5. QED
      BY <2>1, <2>2, <2>3, <2>4, CancelSound
  <1>3. task' \in [Streams -> TaskType]
    BY <1>1, <1>2
  <1>4. TypesOfReplies'
    BY <1>1, <1>3 DEF RepliesInv, TypesOfReplies, tables
  <1>5. PlacesCounted'
    BY <1>1 DEF RepliesInv, PlacesCounted, Admittees
  <1>6. QED
    BY <1>2, <1>4, <1>5 DEF RepliesInv

LEMMA ConnectSound ==
    ASSUME RepliesInv, NEW c \in Conns, Connect(c)
    PROVE  RepliesInv'
  <1>1. /\ listener = "serving" /\ conns[c] = "none"
        /\ UNCHANGED <<listening, arrived, tables, replies>>
    BY DEF Connect
  <1>2. PICK state \in {"admitted", "refused"} :
          /\ conns' = [conns EXCEPT ![c] = state]
          /\ state = "admitted" => Room /\ active' = active + 1
          /\ state = "refused" => active' = active
    BY DEF Connect
  <1>3. conns'[c] = state /\ \A d \in Conns : d # c => conns'[d] = conns[d]
    BY <1>2 DEF RepliesInv, TypesOfReplies
  <1>4. TypesOfReplies'
    BY <1>1, <1>2 DEF RepliesInv, TypesOfReplies, listening, tables, replies
  <1>5. PlacesCounted'
    <2>1. /\ active \in 0..MaxConnections /\ IsFiniteSet(Admittees) /\ active = Cardinality(Admittees)
          /\ c \notin Admittees
      BY <1>1 DEF RepliesInv, PlacesCounted, Admittees
    <2>2. CASE state = "admitted"
      <3>1. Admittees' = Admittees \union {c}
        BY <1>3, <2>2 DEF Admittees
      <3>2. IsFiniteSet(Admittees') /\ Cardinality(Admittees') = Cardinality(Admittees) + 1
        BY <2>1, <3>1, FS_AddElement
      <3>3. active' = active + 1 /\ active + 1 \in 0..MaxConnections
        BY <1>2, <2>1, <2>2, Http3Assumption DEF Room
      <3>4. QED
        BY <2>1, <3>2, <3>3 DEF PlacesCounted
    <2>3. CASE state = "refused"
      <3>1. Admittees' = Admittees
        BY <1>1, <1>3, <2>3 DEF Admittees
      <3>2. QED
        BY <1>2, <2>1, <2>3, <3>1 DEF PlacesCounted
    <2>4. QED
      BY <2>2, <2>3
  <1>6. ASSUME NEW t \in Streams PROVE Founded(t)' /\ ReplySound(t)'
    <2>1. Founded(t) /\ ReplySound(t) /\ ConnOf[t] \in Conns
      BY Http3Assumption DEF RepliesInv
    <2>2. arrived'[t] = arrived[t] /\ task'[t] = task[t] /\ handle'[t] = handle[t] /\ wire'[t] = wire[t]
      BY <1>1 DEF replies
    <2>3. arrived[t] # "none" => ConnOf[t] # c
      BY <1>1, <2>1 DEF Founded
    <2>4. arrived[t] # "none" => /\ conns'[ConnOf[t]] \in {"admitted", "lost"} /\ listener' \notin {"starting", "failed"}
                                 /\ conns'[ConnOf[t]] = "admitted" /\ listener' = "serving" => Live(t)
      BY <1>1, <1>3, <2>1, <2>3 DEF Founded, Live, listening
    <2>5. QED
      BY <2>1, <2>2, <2>4, Untouched
  <1>7. QED
    BY <1>4, <1>5, <1>6 DEF RepliesInv

LEMMA LostSound ==
    ASSUME RepliesInv, NEW c \in Conns, ConnectionLost(c)
    PROVE  RepliesInv'
  <1>1. /\ listener = "serving" /\ conns[c] \in {"admitted", "refused"}
        /\ conns' = [conns EXCEPT ![c] = "lost"]
        /\ active' = IF conns[c] = "admitted" THEN active - 1 ELSE active
        /\ task' = [s \in Streams |-> IF ConnOf[s] = c THEN Cancelled(s) ELSE task[s]]
        /\ requests' = [s \in Streams |-> IF ConnOf[s] = c THEN NoRequest ELSE requests[s]]
        /\ rejected' = {s \in rejected : ConnOf[s] # c}
        /\ UNCHANGED <<listening, arrived, handle, wire>>
    BY DEF ConnectionLost
  <1>2. conns'[c] = "lost" /\ \A d \in Conns : d # c => conns'[d] = conns[d]
    BY <1>1 DEF RepliesInv, TypesOfReplies
  <1>3. ASSUME NEW t \in Streams PROVE task'[t] \in TaskType /\ Founded(t)' /\ ReplySound(t)'
    <2>1. Founded(t) /\ ReplySound(t) /\ TypesOfReplies /\ ConnOf[t] \in Conns
      BY Http3Assumption DEF RepliesInv
    <2>2. arrived'[t] = arrived[t] /\ handle'[t] = handle[t] /\ wire'[t] = wire[t]
      BY <1>1
    <2>3. arrived[t] # "none" => conns'[ConnOf[t]] \in {"admitted", "lost"} /\ listener' \notin {"starting", "failed"}
      BY <1>1, <1>2, <2>1 DEF Founded, listening
    <2>4. CASE ConnOf[t] = c
      <3>1. task'[t] = Cancelled(t)
        BY <1>1, <2>4
      <3>2. ~(conns'[ConnOf[t]] = "admitted" /\ listener' = "serving")
        BY <1>2, <2>4
      <3>3. QED
        BY <2>1, <2>2, <2>3, <3>1, <3>2, CancelSound
    <2>5. CASE ConnOf[t] # c
      <3>1. task'[t] = task[t]
        BY <1>1, <2>5
      <3>2. conns'[ConnOf[t]] = "admitted" /\ listener' = "serving" => Live(t)
        BY <1>1, <1>2, <2>1, <2>5 DEF Live, listening
      <3>3. Founded(t)' /\ ReplySound(t)'
        BY <2>1, <2>2, <2>3, <3>1, <3>2, Untouched
      <3>4. QED
        BY <2>1, <3>1, <3>3 DEF TypesOfReplies
    <2>6. QED
      BY <2>4, <2>5
  <1>4. TypesOfReplies'
    <2>1. task' \in [Streams -> TaskType]
      BY <1>1, <1>3
    <2>2. requests' \in [Streams -> RequestType] /\ rejected' \subseteq Streams
      BY <1>1, NoRequestTyped DEF RepliesInv, TypesOfReplies
    <2>3. conns' \in [Conns -> {"none", "admitted", "refused", "lost"}]
      BY <1>1 DEF RepliesInv, TypesOfReplies
    <2>4. QED
      BY <1>1, <2>1, <2>2, <2>3 DEF RepliesInv, TypesOfReplies, listening
  <1>5. PlacesCounted'
    <2>1. active \in 0..MaxConnections /\ IsFiniteSet(Admittees) /\ active = Cardinality(Admittees)
      BY DEF RepliesInv, PlacesCounted
    <2>2. CASE conns[c] = "admitted"
      <3>1. Admittees' = Admittees \ {c} /\ c \in Admittees
        BY <1>2, <2>2 DEF Admittees
      <3>2. /\ IsFiniteSet(Admittees') /\ Cardinality(Admittees') = Cardinality(Admittees) - 1
            /\ Cardinality(Admittees') \in Nat
        BY <2>1, <3>1, FS_RemoveElement, FS_CardinalityType
      <3>3. active' = active - 1
        BY <1>1, <2>2
      <3>4. active - 1 \in 0..MaxConnections
        BY <2>1, <3>2, Http3Assumption
      <3>5. QED
        BY <2>1, <3>2, <3>3, <3>4 DEF PlacesCounted
    <2>3. CASE conns[c] # "admitted"
      <3>1. Admittees' = Admittees
        BY <1>2, <2>3 DEF Admittees
      <3>2. QED
        BY <1>1, <2>1, <2>3, <3>1 DEF PlacesCounted
    <2>4. QED
      BY <2>2, <2>3
  <1>6. QED
    BY <1>3, <1>4, <1>5 DEF RepliesInv

LEMMA RepliesAlone ==
    ASSUME RepliesInv, UNCHANGED <<listening, conns, active, arrived, tables, replies>>
    PROVE  RepliesInv'
  BY DEF RepliesInv, listening, tables, replies, TypesOfReplies, PlacesCounted, Admittees,
         Founded, ReplySound, Live, Silent, WasRefused, Streaming, Replied

LEMMA RepliesKept == RepliesInv /\ Http3Next => RepliesInv'
  <1> SUFFICES ASSUME RepliesInv, Http3Next PROVE RepliesInv'
    OBVIOUS
  <1>1. CASE Listen \/ ListenFails \/ EndListening \/ CloseHandle \/ Handle
    <2>1. Unmoved /\ UNCHANGED task
      BY <1>1 DEF Listen, ListenFails, EndListening, CloseHandle, Handle, Started, GiveUp, Joined, JoinTimesOut,
                  Unmoved, replies
    <2>2. /\ listener' \in {"starting", "serving", "stopping", "failed", "ended"}
          /\ listener = "starting" \/ listener' \notin {"starting", "failed", "serving"} \/ listener' = listener
      BY <1>1 DEF Listen, ListenFails, EndListening, CloseHandle, Handle, Started, GiveUp, Joined, JoinTimesOut,
                  RepliesInv, TypesOfReplies
    <2>3. /\ owner' \in {"waiting", "raised", "running", "closing", "closed", "stuck"}
          /\ stop' \in BOOLEAN
      BY <1>1 DEF Listen, ListenFails, EndListening, CloseHandle, Handle, Started, GiveUp, Joined, JoinTimesOut,
                  RepliesInv, TypesOfReplies
    <2>4. QED
      BY <2>1, <2>2, <2>3, ListenerSound
  <1>2. CASE StopListening
    BY <1>2, StopSound
  <1>3. ASSUME NEW c \in Conns, Connect(c) \/ ConnectionLost(c) PROVE RepliesInv'
    BY <1>3, ConnectSound, LostSound
  <1>4. ASSUME NEW s \in Streams, Receive(s) \/ Reply(s) \/ Acknowledge(s) PROVE RepliesInv'
    BY <1>4, ReceiveSound, BeginSound, BuiltSound, FileSound, SendSound, ChunkSound, AcknowledgeSound DEF Reply
  <1>5. ASSUME NEW c, CallOther(c) \/ OtherReturns(c) \/ Thread(c) PROVE RepliesInv'
    BY <1>5, RepliesAlone DEF CallOther, OtherReturns, Thread
  <1>6. QED
    BY <1>1, <1>2, <1>3, <1>4, <1>5 DEF Http3Next

LEMMA RepliesAreWhole == RepliesInv => RepliesWhole
  <1> SUFFICES ASSUME RepliesInv PROVE RepliesWhole
    OBVIOUS
  <1>1. Http3TypeOK
    BY DEF RepliesInv, TypesOfReplies, Http3TypeOK, RequestType
  <1>2. active = Cardinality({c \in Conns : conns[c] = "admitted"}) /\ active <= MaxConnections
    BY Http3Assumption DEF RepliesInv, PlacesCounted, Admittees
  <1>3. ASSUME NEW s \in Streams
        PROVE  /\ task[s].at \in {"done", "failed"} => handle[s] # "open"
               /\ handle[s] = "dropped" => ~Live(s)
    BY DEF RepliesInv, ReplySound
  <1>4. ASSUME NEW s \in Streams
        PROVE  /\ wire[s].heads <= 1 /\ ~(wire[s].ended /\ wire[s].reset)
               /\ wire[s].refused => wire[s].data = 0
               /\ (wire[s].ended /\ ~wire[s].refused /\ task[s].body = "file") => wire[s].data = FileSize
               /\ task[s].body = "head" => wire[s].data = 0
    <2>1. Silent(s) \/ WasRefused(s) \/ Streaming(s) \/ Replied(s)
      BY DEF RepliesInv, ReplySound
    <2>2. CASE Silent(s)
      BY <2>2 DEF Silent
    <2>3. CASE WasRefused(s)
      BY <2>3 DEF WasRefused
    <2>4. CASE Streaming(s)
      BY <2>4 DEF Streaming
    <2>5. CASE Replied(s)
      BY <2>5 DEF Replied
    <2>6. QED
      BY <2>1, <2>2, <2>3, <2>4, <2>5
  <1>5. QED
    BY <1>1, <1>2, <1>3, <1>4 DEF RepliesWhole, Admitted, OneResponse

(* A place is taken for each connection that is there, and for no other; a *)
(* reply that is over holds no file; a stream gets one response, and one   *)
(* that ends has carried the whole file: whatever the clients send, and    *)
(* whenever connections are lost, files shrink or the listener is stopped. *)
THEOREM RepliesStayWhole == Http3Spec => []RepliesWhole
  <1>1. RepliesInv /\ [Http3Next]_http3Vars => RepliesInv'
    <2>1. RepliesInv /\ UNCHANGED http3Vars => RepliesInv'
      BY RepliesAlone DEF http3Vars
    <2>2. QED
      BY <2>1, RepliesKept
  <1>2. QED
    BY <1>1, RepliesStart, RepliesAreWhole, PTL DEF Http3Spec

-----------------------------------------------------------------------------
(*                         The answers for a file                          *)
(*                                                                         *)
(* StaticFile, for every file, every field and lists of any length: what   *)
(* its definitions promise is proved of them without induction, since none *)
(* of them is recursive.                                                   *)
StaticFiles == [size : Nat, mtime : Nat \X Nat, type : STRING]
Numbers == {NoDigits, BadDigits} \union Nat
AnyRange == {Missing} \union [single : BOOLEAN, first : Numbers, last : Numbers]
AcceptFields == Seq([name : STRING, quality : Nat])
WantFields == {Missing} \union [members : Seq([name : STRING, preference : Nat])]

\* Some numbers up to n have a greatest one.
LEMMA LastOfSome ==
  ASSUME NEW n \in Nat, NEW T \in SUBSET (1..n), T # {}
  PROVE  \E i \in T : \A j \in T : j <= i
PROOF
  <1> DEFINE R == OpToRel(<, Nat)
             U == {n - i : i \in T}
  <1>1. U \subseteq Nat /\ U # {}
    <2>1. \A i \in T : n - i \in Nat
      OBVIOUS
    <2> QED BY <2>1 DEF U
  <1>2. PICK u \in U : \A v \in U : ~(<<v, u>> \in R)
    BY <1>1, NatLessThanWellFounded, WFMin
  <1>3. PICK i \in T : u = n - i
    BY DEF U
  <1>4. ASSUME NEW j \in T PROVE j <= i
    <2>1. n - j \in U /\ n - j \in Nat /\ u \in Nat
      BY <1>1 DEF U
    <2>2. ~(n - j < u)
      BY <2>1, <1>2 DEF OpToRel, R
    <2> QED BY <2>2, <1>3
  <1> QED BY <1>4

\* Which fields are there, by their shapes.
LEMMA MissingOnly ==
  /\ IsMissing(Missing)
  /\ \A f \in [single : BOOLEAN, first : Numbers, last : Numbers] : ~IsMissing(f)
  /\ \A t, w : ~IsMissing([tag |-> t, weak |-> w]) /\ "tag" \in DOMAIN [tag |-> t, weak |-> w]
  /\ \A d : ~IsMissing([date |-> d]) /\ "tag" \notin DOMAIN [date |-> d]
  /\ \A t : ~IsMissing([tags |-> t]) /\ "any" \notin DOMAIN [tags |-> t]
  BY DEF Missing, IsMissing

\* The three results of ParseRange are told apart by their fields.
LEMMA RangeForms ==
  /\ "start" \notin DOMAIN Ignored /\ "unsatisfiable" \notin DOMAIN Ignored
  /\ "start" \notin DOMAIN Unsatisfiable /\ "unsatisfiable" \in DOMAIN Unsatisfiable
  /\ \A s, l : "unsatisfiable" \notin DOMAIN ByteRange(s, l)
  /\ \A s, l : "start" \in DOMAIN ByteRange(s, l) /\ ByteRange(s, l).start = s /\ ByteRange(s, l).length = l
  BY DEF Ignored, Unsatisfiable, ByteRange

\* What a field asks of a file of some extent.
LEMMA RangeFound ==
  ASSUME NEW extent \in Nat, NEW field \in AnyRange
  PROVE  LET range == ParseRange(field, extent)
             asked == Asked(field, extent)
         IN /\ range \in {Ignored, Unsatisfiable} \union {ByteRange(s, l) : s \in Nat, l \in Nat}
            /\ AsksRange(field) /\ asked # {} =>
                 IsByteRange(range) /\ range.start..(range.start + range.length - 1) = asked
            /\ AsksRange(field) /\ asked = {} => range = Unsatisfiable
            /\ ~AsksRange(field) => range = Ignored \/ (range = Unsatisfiable /\ field.first >= extent)
  <1> USE DEF NoDigits, BadDigits
  <1> DEFINE range == ParseRange(field, extent)
             asked == Asked(field, extent)
  <1>1. CASE field = Missing \/ ~field.single
    <2>1. range = Ignored
      BY <1>1, MissingOnly DEF ParseRange
    <2>2. ~AsksRange(field)
      BY <1>1, MissingOnly DEF AsksRange
    <2> QED BY <2>1, <2>2
  <1>2. CASE field # Missing /\ field.single /\ field.first = NoDigits
    <2>1. field.last \in Numbers /\ ~IsMissing(field)
      BY <1>2, MissingOnly DEF AnyRange
    <2>2. range = SuffixRange(field.last, extent)
      BY <1>2, <2>1 DEF ParseRange
    <2>3. AsksRange(field) <=> field.last > 0
      BY <1>2, <2>1 DEF AsksRange
    <2>4. asked = {i \in 0..(extent - 1) : i >= extent - field.last}
      BY <1>2 DEF Asked
    <2>5. CASE field.last <= 0
      BY <2>1, <2>2, <2>3, <2>5 DEF SuffixRange, Numbers
    <2>6. CASE field.last > 0 /\ extent = 0
      <3>1. range = Unsatisfiable
        BY <2>1, <2>2, <2>6 DEF SuffixRange, Numbers
      <3>2. asked = {}
        BY <2>4, <2>6
      <3> QED BY <3>1, <3>2, <2>3, <2>6
    <2>7. CASE field.last > 0 /\ extent > 0
      <3> DEFINE least == LesserSize(field.last, extent)
      <3>1. /\ least \in Nat /\ extent - least \in Nat /\ least > 0
            /\ least <= field.last /\ (least = field.last \/ least = extent)
        BY <2>1, <2>7 DEF LesserSize, Numbers
      <3>2. range = ByteRange(extent - least, least)
        BY <2>1, <2>2, <2>7 DEF SuffixRange, Numbers
      <3>3. IsByteRange(range) /\ range.start = extent - least /\ range.length = least
        BY <3>2, RangeForms DEF IsByteRange
      <3> HIDE DEF least
      <3>4. (extent - least)..(extent - least + least - 1) = asked
        BY <2>1, <2>4, <3>1 DEF Numbers
      <3>5. extent - 1 \in asked
        BY <2>1, <2>4, <2>7 DEF Numbers
      <3> QED BY <3>1, <3>2, <3>3, <3>4, <3>5, <2>3, <2>7
    <2> QED BY <2>1, <2>5, <2>6, <2>7 DEF Numbers
  <1>3. CASE field # Missing /\ field.single /\ field.first # NoDigits
    <2>1. field.first \in {BadDigits} \union Nat /\ field.last \in Numbers /\ ~IsMissing(field)
      BY <1>3, MissingOnly DEF AnyRange, Numbers
    <2>2. range = FromRange(field.first, field.last, extent)
      BY <1>3, <2>1 DEF ParseRange
    <2>3. AsksRange(field) <=> field.first >= 0 /\ (field.last = NoDigits \/ field.last >= field.first)
      BY <1>3, <2>1 DEF AsksRange
    <2>4. asked = {i \in 0..(extent - 1) : i >= field.first /\ (field.last = NoDigits \/ i <= field.last)}
      BY <1>3 DEF Asked
    <2>5. CASE field.first = BadDigits
      BY <2>1, <2>2, <2>3, <2>5 DEF FromRange
    <2>6. CASE field.first # BadDigits /\ field.first >= extent
      <3>1. range = Unsatisfiable
        BY <2>1, <2>2, <2>6 DEF FromRange
      <3>2. asked = {}
        BY <2>1, <2>4, <2>6
      <3> QED BY <3>1, <3>2, <2>6
    <2>7. CASE field.first \in Nat /\ field.first < extent /\ field.last = NoDigits
      <3>1. range = ByteRange(field.first, extent - field.first)
        BY <2>2, <2>7 DEF FromRange
      <3>2. IsByteRange(range) /\ range.start = field.first /\ range.length = extent - field.first
        BY <3>1, RangeForms DEF IsByteRange
      <3>3. field.first..(field.first + (extent - field.first) - 1) = asked /\ field.first \in asked
        BY <2>4, <2>7
      <3> QED BY <3>1, <3>2, <3>3, <2>3, <2>7
    <2>8. CASE field.first \in Nat /\ field.first < extent
               /\ (field.last = BadDigits \/ field.last \in 0..(field.first - 1))
      BY <2>1, <2>2, <2>3, <2>8 DEF FromRange
    <2>9. CASE field.first \in Nat /\ field.first < extent /\ field.last \in Nat /\ field.last >= field.first
      <3> DEFINE final == EndWithin(field.last, extent)
      <3>1. /\ final \in Nat /\ final >= field.first
            /\ final <= field.last /\ final <= extent - 1 /\ (final = field.last \/ final = extent - 1)
        BY <2>9 DEF EndWithin, LesserSize
      <3>2. range = ByteRange(field.first, final - field.first + 1)
        BY <2>2, <2>9 DEF FromRange
      <3>3. IsByteRange(range) /\ range.start = field.first /\ range.length = final - field.first + 1
        BY <3>2, RangeForms DEF IsByteRange
      <3> HIDE DEF final
      <3>4. field.first..(field.first + (final - field.first + 1) - 1) = asked /\ field.first \in asked
        BY <2>4, <2>9, <3>1
      <3>5. final - field.first + 1 \in Nat
        BY <2>9, <3>1
      <3> QED BY <3>2, <3>3, <3>4, <3>5, <2>3, <2>9
    <2> QED BY <2>1, <2>5, <2>6, <2>7, <2>8, <2>9 DEF Numbers
  <1> QED BY <1>1, <1>2, <1>3, MissingOnly DEF AnyRange

\* What a request is answered that asks for a range and nothing else.
LEMMA PlainRange ==
  ASSUME NEW file \in StaticFiles, NEW field \in AnyRange, NEW accepted, ~IsMissing(field),
         NEW range, range = ParseRange(field, file.size),
         NEW got, got = ServedFile(file, Asking(field, Missing, Missing, Missing, accepted))
  PROVE  /\ IsByteRange(range) => /\ got.status = 206 /\ got.coding = Identity
                                  /\ got.offset = range.start /\ got.count = range.length
         /\ range = Unsatisfiable => got.status = 416
         /\ range = Ignored => got.status = 200
  <1> DEFINE request == Asking(field, Missing, Missing, Missing, accepted)
             tag == Tag(file, ChosenCoding(file, request))
             chosen == SelectIdentity(file, tag, request)
  <1>1. /\ request.range = field /\ request.ifRange = Missing /\ request.ifNoneMatch = Missing
        /\ request.ifModifiedSince = Missing /\ request.want = Missing
    BY DEF Asking
  <1>2. ChosenCoding(file, request) = Identity
    BY <1>1 DEF ChosenCoding
  <1>3. ~IsNotModified(tag, file, request.ifNoneMatch, request.ifModifiedSince)
    BY <1>1, MissingOnly DEF IsNotModified
  <1>4. IfRangeMatches(request.ifRange, tag, file)
    BY <1>1, MissingOnly DEF IfRangeMatches
  <1>5. ChooseAlgorithm(request.want) = "none"
    BY <1>1, MissingOnly DEF ChooseAlgorithm
  <1>6. got = ServedFile(file, request)
    OBVIOUS
  <1> HIDE DEF request, tag
  <1>7. CASE IsByteRange(range)
    <2>1. "unsatisfiable" \notin DOMAIN range
      BY <1>7, RangeFound, RangeForms DEF IsByteRange, StaticFiles
    <2>2. chosen = Decided(206, range.start, range.length, Identity, tag)
      BY <1>1, <1>3, <1>4, <1>7, <2>1 DEF SelectIdentity
    <2>3. chosen.status = 206 /\ chosen.coding = Identity
          /\ chosen.offset = range.start /\ chosen.count = range.length
      BY <2>2 DEF Decided
    <2>4. got = chosen
      BY <2>3, <1>2, <1>5, <1>6 DEF ServedFile, ServeFileAnswer, tag
    <2> QED BY <2>1, <2>3, <2>4, <1>7, RangeForms DEF IsByteRange
  <1>8. CASE range = Unsatisfiable
    <2>1. chosen = Decided(416, 0, 0, Identity, tag)
      BY <1>1, <1>3, <1>4, <1>8, RangeForms DEF SelectIdentity, IsByteRange
    <2>2. chosen.status = 416
      BY <2>1 DEF Decided
    <2>3. got = chosen
      BY <2>2, <1>2, <1>5, <1>6 DEF ServedFile, ServeFileAnswer, tag
    <2> QED BY <2>2, <2>3, <1>8, RangeForms DEF IsByteRange
  <1>9. CASE range = Ignored
    <2>1. chosen = Decided(200, 0, file.size, Identity, tag)
      BY <1>1, <1>3, <1>4, <1>9, RangeForms DEF SelectIdentity, IsByteRange
    <2>2. chosen.status = 200
      BY <2>1 DEF Decided
    <2>3. got = chosen
      BY <2>2, <1>2, <1>5, <1>6 DEF ServedFile, ServeFileAnswer, tag
    <2> QED BY <2>2, <2>3, <1>9, RangeForms DEF IsByteRange
  <1> QED BY <1>7, <1>8, <1>9

\* The answers to a request that asks for nothing but the file.
LEMMA PlainAnswers ==
  ASSUME NEW file \in StaticFiles, NEW accepted
  PROVE  LET coding == ChooseEncoding(file, accepted, LargestCoded)
             buffered == ChooseEncoding(file, accepted, LesserSize(LargestCoded, Buffered))
         IN /\ ServedFile(file, Plainly(accepted))
                 = Decided(200, 0, file.size, coding, Tag(file, coding))
            /\ BuildStatic(file, Plainly(accepted))
                 = Decided(200, 0, file.size, buffered, Tag(file, buffered))
  <1> DEFINE request == Plainly(accepted)
             coding == ChooseEncoding(file, accepted, LargestCoded)
             buffered == ChooseEncoding(file, accepted, LesserSize(LargestCoded, Buffered))
             tag == Tag(file, coding)
             chosen == SelectIdentity(file, tag, request)
  <1>1. /\ request.range = Missing /\ request.ifRange = Missing /\ request.ifNoneMatch = Missing
        /\ request.ifModifiedSince = Missing /\ request.want = Missing /\ request.accepted = accepted
    BY DEF Asking, Plainly
  <1>2. ChosenCoding(file, request) = coding
    BY <1>1, MissingOnly DEF ChosenCoding
  <1>3. \A t : ~IsNotModified(t, file, request.ifNoneMatch, request.ifModifiedSince)
    BY <1>1, MissingOnly DEF IsNotModified
  <1>4. IfRangeMatches(request.ifRange, tag, file)
    BY <1>1, MissingOnly DEF IfRangeMatches
  <1>5. ChooseAlgorithm(request.want) = "none"
    BY <1>1, MissingOnly DEF ChooseAlgorithm
  <1>6. ParseRange(Missing, file.size) = Ignored
    BY MissingOnly DEF ParseRange
  <1> HIDE DEF request, tag
  <1>7. chosen = Decided(200, 0, file.size, Identity, tag)
    BY <1>1, <1>3, <1>4, <1>6, RangeForms DEF SelectIdentity, IsByteRange
  <1>8. chosen.status = 200
    BY <1>7 DEF Decided
  <1>9. ServedFile(file, request) = Decided(200, 0, file.size, coding, tag)
    BY <1>2, <1>5, <1>7, <1>8 DEF ServedFile, ServeFileAnswer, tag
  <1>10. BuildStatic(file, request) = Decided(200, 0, file.size, buffered, Tag(file, buffered))
    BY <1>1, <1>3 DEF BuildStatic
  <1> QED BY <1>9, <1>10 DEF request, tag

\* A range is served exactly as far as the file goes, one that is behind its end
\* is refused, and a field that is none is ignored (ranges.py, _serve_file).
THEOREM RangesAreServed ==
  ASSUME NEW file \in StaticFiles, NEW field \in AnyRange, NEW accepted
  PROVE  RangeServed(field, file, accepted)
  <1> DEFINE range == ParseRange(field, file.size)
             asked == Asked(field, file.size)
             got == ServedFile(file, Asking(field, Missing, Missing, Missing, accepted))
  <1>1. file.size \in Nat
    BY DEF StaticFiles
  <1>2. CASE field = Missing
    <2>1. got.status = 200
      <3>1. ServedFile(file, Plainly(accepted))
              = Decided(200, 0, file.size, ChooseEncoding(file, accepted, LargestCoded),
                        Tag(file, ChooseEncoding(file, accepted, LargestCoded)))
        BY PlainAnswers
      <3>2. Decided(200, 0, file.size, ChooseEncoding(file, accepted, LargestCoded),
                    Tag(file, ChooseEncoding(file, accepted, LargestCoded))).status = 200
        BY DEF Decided
      <3>3. got = ServedFile(file, Plainly(accepted))
        BY <1>2 DEF Plainly
      <3> QED BY <3>1, <3>2, <3>3
    <2>2. ~AsksRange(field)
      BY <1>2, MissingOnly DEF AsksRange
    <2> QED BY <2>1, <2>2 DEF RangeServed
  <1>3. CASE field # Missing
    <2>1. ~IsMissing(field)
      BY <1>3, MissingOnly DEF AnyRange
    <2>2. /\ IsByteRange(range) => /\ got.status = 206 /\ got.coding = Identity
                                   /\ got.offset = range.start /\ got.count = range.length
          /\ range = Unsatisfiable => got.status = 416
          /\ range = Ignored => got.status = 200
      BY <2>1, PlainRange
    <2> HIDE DEF got
    <2>3. CASE AsksRange(field) /\ asked # {}
      <3>1. IsByteRange(range) /\ range.start..(range.start + range.length - 1) = asked
        BY <1>1, <2>3, RangeFound
      <3>2. got.status = 206 /\ got.coding = Identity
            /\ got.offset..(got.offset + got.count - 1) = asked
        BY <2>2, <3>1
      <3> QED BY <2>3, <3>2 DEF RangeServed, got
    <2>4. CASE AsksRange(field) /\ asked = {}
      <3>1. got.status = 416
        BY <1>1, <2>2, <2>4, RangeFound
      <3> QED BY <2>4, <3>1 DEF RangeServed, got
    <2>5. CASE ~AsksRange(field)
      <3>1. got.status = 200 \/ (got.status = 416 /\ field.first >= file.size)
        BY <1>1, <2>2, <2>5, RangeFound
      <3> QED BY <2>5, <3>1 DEF RangeServed, got
    <2> QED BY <2>3, <2>4, <2>5
  <1> QED BY <1>2, <1>3

\* A download that goes on from any position gets octets of the version it has
\* begun with, or the whole file (If-Range in _conditional.py).
THEOREM ResumesStaySame ==
  ASSUME NEW old \in StaticFiles, NEW new \in StaticFiles, NEW accepted,
         NEW validator \in {"tag", "date"}, NEW have \in Nat
  PROVE  ResumesSame(old, new, accepted, validator, have)
  <1> DEFINE coding == ChooseEncoding(old, accepted, LargestCoded)
             first == ServedFile(old, Plainly(accepted))
             ifRange == IF validator = "tag" THEN [tag |-> first.tag, weak |-> FALSE]
                        ELSE [date |-> old.mtime[1]]
             request == Asking([single |-> TRUE, first |-> have, last |-> NoDigits],
                               ifRange, Missing, Missing, accepted)
             then == ServedFile(new, request)
             tag == Tag(new, Identity)
  <1>1. first = Decided(200, 0, old.size, coding, Tag(old, coding))
    BY PlainAnswers
  <1>2. first.tag = Tag(old, coding) /\ first.coding = coding
    BY <1>1 DEF Decided
  <1> HIDE DEF first
  <1>3. /\ ~IsMissing(request.range) /\ request.ifRange = ifRange /\ request.ifNoneMatch = Missing
        /\ request.ifModifiedSince = Missing /\ request.want = Missing
    BY DEF Asking, IsMissing
  <1> HIDE DEF request, ifRange
  <1>4. ChosenCoding(new, request) = Identity
    BY <1>3 DEF ChosenCoding
  <1>5. ~IsNotModified(tag, new, request.ifNoneMatch, request.ifModifiedSince)
    BY <1>3, MissingOnly DEF IsNotModified
  <1>6. ChooseAlgorithm(request.want) = "none"
    BY <1>3, MissingOnly DEF ChooseAlgorithm
  <1>7. then = SelectIdentity(new, tag, request)
    BY <1>4, <1>6 DEF ServedFile, ServeFileAnswer
  <1> HIDE DEF then, tag
  <1>8. SUFFICES ASSUME then.status \in {206, 416}
                 PROVE  /\ validator = "tag" =>
                             new.mtime = old.mtime /\ new.size = old.size /\ first.coding = then.coding
                        /\ validator = "date" => new.mtime[1] <= old.mtime[1]
    BY DEF ResumesSame, first, ifRange, request, then
  <1>9. IfRangeMatches(ifRange, tag, new)
    <2> SUFFICES ASSUME ~IfRangeMatches(ifRange, tag, new) PROVE FALSE
      OBVIOUS
    <2>1. ParseRange(Missing, new.size) = Ignored
      BY MissingOnly DEF ParseRange
    <2>2. then = Decided(200, 0, new.size, Identity, tag)
      BY <1>3, <1>5, <1>7, <2>1, RangeForms DEF SelectIdentity, IsByteRange
    <2> QED BY <1>8, <2>2 DEF Decided
  <1>10. CASE validator = "date"
    <2>1. ifRange = [date |-> old.mtime[1]]
      BY <1>10 DEF ifRange
    <2>2. NotModifiedSince(old.mtime[1], new)
      BY <1>9, <2>1, MissingOnly DEF IfRangeMatches
    <2> QED BY <2>2, <1>10 DEF NotModifiedSince
  <1>11. CASE validator = "tag"
    <2>1. ifRange = [tag |-> first.tag, weak |-> FALSE]
      BY <1>11 DEF ifRange
    <2>2. first.tag = tag
      BY <1>9, <2>1, MissingOnly DEF IfRangeMatches
    <2>3. old.size = new.size /\ old.mtime = new.mtime /\ coding = Identity
      BY <1>2, <2>2 DEF Tag, tag
    <2>4. then.coding = Identity
      <3> DEFINE range == ParseRange(request.range, new.size)
      <3>1. request.range \in AnyRange
        BY DEF request, Asking, AnyRange, Numbers
      <3>2. range \in {Ignored, Unsatisfiable} \union {ByteRange(s, l) : s \in Nat, l \in Nat}
        BY <3>1, RangeFound DEF StaticFiles
      <3>3. CASE IsByteRange(range)
        <4>1. "unsatisfiable" \notin DOMAIN range
          BY <3>2, <3>3, RangeForms DEF IsByteRange
        <4>2. then = Decided(206, range.start, range.length, Identity, tag)
          BY <1>3, <1>5, <1>7, <1>9, <3>3, <4>1 DEF SelectIdentity
        <4> QED BY <4>2 DEF Decided
      <3>4. CASE range = Unsatisfiable
        <4>1. then = Decided(416, 0, 0, Identity, tag)
          BY <1>3, <1>5, <1>7, <1>9, <3>4, RangeForms DEF SelectIdentity, IsByteRange
        <4> QED BY <4>1 DEF Decided
      <3>5. CASE range = Ignored
        <4>1. then = Decided(200, 0, new.size, Identity, tag)
          BY <1>3, <1>5, <1>7, <1>9, <3>5, RangeForms DEF SelectIdentity, IsByteRange
        <4> QED BY <4>1 DEF Decided
      <3> QED BY <3>2, <3>3, <3>4, <3>5, RangeForms DEF IsByteRange
    <2> QED BY <1>2, <1>11, <2>3, <2>4
  <1> QED BY <1>10, <1>11

\* What the code takes for the last of several members is one of them.
LEMMA LastMember ==
  ASSUME NEW S, NEW seq \in Seq(S), NEW T \in SUBSET DOMAIN seq, T # {}
  PROVE  LET i == CHOOSE k \in T : \A j \in T : j <= k IN i \in T /\ seq[i] \in S
  <1>1. Len(seq) \in Nat /\ DOMAIN seq = 1..Len(seq)
    OBVIOUS
  <1>2. \E k \in T : \A j \in T : j <= k
    BY <1>1, LastOfSome
  <1> QED BY <1>2

\* Who accepts one of some names has given it, or "*", some quality.
LEMMA AcceptsOne ==
  ASSUME NEW accepted \in AcceptFields, NEW names, Accepts(accepted, names)
  PROVE  \E i \in DOMAIN accepted : accepted[i].quality > 0 /\ accepted[i].name \in names \union {"*"}
  <1> DEFINE named == {i \in DOMAIN accepted : accepted[i].name \in names}
             stars == {i \in DOMAIN accepted : accepted[i].name = "*"}
             final == CHOOSE i \in stars : \A j \in stars : j <= i
  <1>1. CASE named # {}
    BY <1>1 DEF Accepts
  <1>2. CASE named = {}
    <2>1. stars # {} /\ accepted[final].quality > 0
      BY <1>2 DEF Accepts
    <2>2. final \in stars
      BY <2>1, LastMember DEF AcceptFields
    <2> QED BY <2>1, <2>2
  <1> QED BY <1>1, <1>2

\* A coding is only chosen for a client that accepts it.
LEMMA CodingAccepted ==
  ASSUME NEW file, NEW accepted \in AcceptFields, NEW largest,
         NEW coding, coding = ChooseEncoding(file, accepted, largest), coding # Identity
  PROVE  \E i \in DOMAIN accepted :
           accepted[i].quality > 0 /\ accepted[i].name \in NamesOf(coding) \union {"*"}
  <1>1. coding = Negotiate(accepted)
    BY DEF ChooseEncoding
  <1>2. CASE HaveZstd /\ Accepts(accepted, {"zstd"})
    <2>1. coding = "zstd"
      BY <1>1, <1>2 DEF Negotiate
    <2> QED BY <1>2, <2>1, AcceptsOne DEF NamesOf
  <1>3. CASE ~(HaveZstd /\ Accepts(accepted, {"zstd"}))
    <2>1. Accepts(accepted, {"gzip", "x-gzip"}) /\ coding = "gzip"
      BY <1>1, <1>3 DEF Negotiate
    <2> QED BY <2>1, AcceptsOne DEF NamesOf
  <1> QED BY <1>2, <1>3

\* What a cache that holds a tag is told, by either transport.
LEMMA Revalidated ==
  ASSUME NEW file \in StaticFiles, NEW accepted, NEW held,
         NEW request, request = Asking(Missing, Missing, [tags |-> <<[tag |-> held, weak |-> TRUE]>>],
                                       [date |-> 3], accepted)
  PROVE  /\ ServedFile(file, request).status = 304
              <=> held = Tag(file, ChooseEncoding(file, accepted, LargestCoded))
         /\ BuildStatic(file, request).status = 304
              <=> held = Tag(file, ChooseEncoding(file, accepted, LesserSize(LargestCoded, Buffered)))
  <1> DEFINE coding == ChooseEncoding(file, accepted, LargestCoded)
             buffered == ChooseEncoding(file, accepted, LesserSize(LargestCoded, Buffered))
             tag == Tag(file, coding)
             chosen == SelectIdentity(file, tag, request)
  <1>1. /\ request.range = Missing /\ request.ifRange = Missing /\ request.want = Missing
        /\ request.ifNoneMatch = [tags |-> <<[tag |-> held, weak |-> TRUE]>>] /\ request.accepted = accepted
    BY DEF Asking
  <1>2. \A t, d : IsNotModified(t, file, request.ifNoneMatch, d) <=> held = t
    <2> DEFINE field == [tags |-> <<[tag |-> held, weak |-> TRUE]>>]
    <2>1. ~IsMissing(field) /\ "any" \notin DOMAIN field
      BY MissingOnly
    <2>2. DOMAIN field.tags = {1} /\ field.tags[1].tag = held
      OBVIOUS
    <2> QED BY <1>1, <2>1, <2>2 DEF IsNotModified, EtagMatches
  <1>3. ChosenCoding(file, request) = coding
    BY <1>1, MissingOnly DEF ChosenCoding
  <1>4. ChooseAlgorithm(request.want) = "none"
    BY <1>1, MissingOnly DEF ChooseAlgorithm
  <1>5. IfRangeMatches(request.ifRange, tag, file) /\ ParseRange(Missing, file.size) = Ignored
    BY <1>1, MissingOnly DEF IfRangeMatches, ParseRange
  <1> HIDE DEF tag
  <1>6. ServedFile(file, request).status = 304 <=> held = tag
    <2>1. CASE held = tag
      <3>1. chosen = Decided(304, 0, 0, tag.coding, tag)
        BY <1>2, <2>1 DEF SelectIdentity
      <3>2. chosen.status = 304
        BY <3>1 DEF Decided
      <3>3. ServedFile(file, request) = chosen
        BY <1>3, <3>2 DEF ServedFile, ServeFileAnswer, tag
      <3> QED BY <3>2, <3>3, <2>1
    <2>2. CASE held # tag
      <3>1. chosen = Decided(200, 0, file.size, Identity, tag)
        BY <1>1, <1>2, <1>5, <2>2, RangeForms DEF SelectIdentity, IsByteRange
      <3>2. ServedFile(file, request) = Decided(200, 0, file.size, coding, tag)
        BY <1>3, <1>4, <3>1 DEF ServedFile, ServeFileAnswer, Decided, tag
      <3> QED BY <3>2, <2>2 DEF Decided
    <2> QED BY <2>1, <2>2
  <1>7. BuildStatic(file, request).status = 304 <=> held = Tag(file, buffered)
    <2>1. CASE held = Tag(file, buffered)
      <3>1. BuildStatic(file, request) = Decided(304, 0, 0, buffered, Tag(file, buffered))
        BY <1>1, <1>2, <2>1 DEF BuildStatic
      <3> QED BY <2>1, <3>1 DEF Decided
    <2>2. CASE held # Tag(file, buffered)
      <3>1. BuildStatic(file, request) = Decided(200, 0, file.size, buffered, Tag(file, buffered))
        BY <1>1, <1>2, <2>2 DEF BuildStatic
      <3> QED BY <2>2, <3>1 DEF Decided
    <2> QED BY <2>1, <2>2
  <1> QED BY <1>6, <1>7 DEF tag

\* 304 means that the held answer is the one that would be sent now, for either
\* transport, and a coding is one that the client accepts (_conditional.py,
\* _compress.py, build_static of _response.py).
THEOREM RevalidatesExactly ==
  ASSUME NEW old \in StaticFiles, NEW new \in StaticFiles, NEW accepted, NEW other \in AcceptFields
  PROVE  Revalidates(old, new, accepted, other)
  <1> DEFINE now == ServedFile(new, Plainly(other))
             buffered == BuildStatic(new, Plainly(other))
             whole == ChooseEncoding(new, other, LargestCoded)
             part == ChooseEncoding(new, other, LesserSize(LargestCoded, Buffered))
             fresh(tag) == Asking(Missing, Missing, [tags |-> <<[tag |-> tag, weak |-> TRUE]>>],
                                  [date |-> 3], other)
  <1>1. now = Decided(200, 0, new.size, whole, Tag(new, whole))
        /\ buffered = Decided(200, 0, new.size, part, Tag(new, part))
    BY PlainAnswers
  <1>2. /\ now.tag = Tag(new, whole) /\ now.coding = whole
        /\ buffered.tag = Tag(new, part) /\ buffered.coding = part
    BY <1>1 DEF Decided
  <1> HIDE DEF now, buffered, whole, part
  <1>3. ASSUME NEW held
        PROVE  /\ ServedFile(new, fresh(held)).status = 304 <=> held = now.tag
               /\ BuildStatic(new, fresh(held)).status = 304 <=> held = buffered.tag
    BY <1>2, Revalidated DEF whole, part
  <1>4. new.size <= Buffered => buffered = now
    <2> SUFFICES ASSUME new.size <= Buffered PROVE whole = part
      BY <1>1
    <2>1. new.size \in SmallestCoded..LargestCoded
            <=> new.size \in SmallestCoded..LesserSize(LargestCoded, Buffered)
      BY CodingAssumption DEF LesserSize, StaticFiles
    <2> QED BY <2>1 DEF ChooseEncoding, whole, part
  <1>5. ASSUME NEW a \in {now, buffered}, a.coding # Identity
        PROVE  \E i \in DOMAIN other :
                 other[i].quality > 0 /\ other[i].name \in NamesOf(a.coding) \union {"*"}
    <2>1. a.coding \in {whole, part}
      BY <1>2
    <2> QED BY <1>5, <2>1, CodingAccepted DEF whole, part
  <1> QED BY <1>3, <1>4, <1>5 DEF Revalidates, now, buffered

\* The last preference given for a name is a number.
LEMMA PreferenceCounts ==
  ASSUME NEW members \in Seq([name : STRING, preference : Nat]), NEW name
  PROVE  Preference(members, name) \in Nat
  <1> DEFINE given == {i \in DOMAIN members : members[i].name = name}
             final == CHOOSE i \in given : \A j \in given : j <= i
  <1>1. CASE given = {}
    BY <1>1 DEF Preference
  <1>2. CASE given # {}
    <2> DEFINE S == [name : STRING, preference : Nat]
    <2>1. members \in Seq(S) /\ given \in SUBSET DOMAIN members
      OBVIOUS
    <2> HIDE DEF S, given
    <2>2. members[final] \in S
      BY <1>2, <2>1, LastMember
    <2> HIDE DEF final
    <2>3. members[final].preference \in Nat
      BY <2>2 DEF S
    <2>4. Preference(members, name) = members[final].preference
      BY <1>2 DEF Preference, final, given
    <2> QED BY <2>3, <2>4
  <1> QED BY <1>1, <1>2

\* The digest that is sent is one that the client ranks highest of those the
\* server has; none only when it wants none of them (_digest.py).
THEOREM DigestRanksHighest ==
  ASSUME NEW want \in WantFields
  PROVE  RanksHighest(want)
  <1>1. ToSet(Supported) = {"sha-256", "sha-512"}
    BY DEF ToSet, Supported
  <1>2. CASE want = Missing
    <2>1. ChooseAlgorithm(want) = "none"
      BY <1>2, MissingOnly DEF ChooseAlgorithm
    <2> QED BY <1>2, <2>1, MissingOnly DEF RanksHighest
  <1>3. CASE want # Missing
    <2> DEFINE rank(n) == Preference(want.members, n)
               liked == {i \in DOMAIN Supported : rank(Supported[i]) > 0}
               best == {i \in liked : \A j \in liked : rank(Supported[j]) <= rank(Supported[i])}
               chosen == CHOOSE i \in best : \A j \in best : i <= j
    <2>1. DOMAIN Supported = {1, 2} /\ Supported[1] = "sha-256" /\ Supported[2] = "sha-512"
      BY DEF Supported
    <2>2. rank("sha-256") \in Nat /\ rank("sha-512") \in Nat
      BY <1>3, PreferenceCounts DEF WantFields
    <2>3. ~IsMissing(want)
      BY <1>3 DEF WantFields, IsMissing
    <2> HIDE DEF rank
    <2>4. CASE liked = {}
      <3>1. ChooseAlgorithm(want) = "none"
        BY <2>4 DEF ChooseAlgorithm, rank
      <3>2. \A n \in ToSet(Supported) : rank(n) = 0
        BY <1>1, <2>1, <2>2, <2>4
      <3> QED BY <3>1, <3>2 DEF RanksHighest, rank
    <2>5. CASE liked # {}
      <3>1. \E i \in best : \A j \in best : i <= j
        BY <2>1, <2>2, <2>5
      <3>2. chosen \in best
        BY <3>1
      <3> HIDE DEF chosen
      <3>3. \A n \in ToSet(Supported) : rank(n) <= rank(Supported[chosen])
        BY <1>1, <2>1, <2>2, <3>2
      <3>4. ChooseAlgorithm(want) = Supported[chosen] /\ Supported[chosen] # "none"
        BY <2>1, <2>3, <2>5, <3>2 DEF ChooseAlgorithm, rank, chosen
      <3> QED BY <3>3, <3>4 DEF RanksHighest, rank
    <2> QED BY <2>4, <2>5
  <1> QED BY <1>2, <1>3
=============================================================================
