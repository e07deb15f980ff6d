-------------------------------- MODULE H2Proofs -------------------------------
(***************************************************************************)
(* Proofs about one HTTP/2 connection, for any streams, budgets, windows,  *)
(* sizes of bodies and static table: every frame may come at any time, and *)
(* the drain may begin between any two steps.                              *)
(***************************************************************************)
EXTENDS H2, FiniteSetTheorems, SequenceTheorems, TLAPS

Waiting == ToSet(outbound)

\* The lists are lists; a body is in its own place in the order only.
Listed ==
  /\ outbound \in Seq(Streams) /\ round \in Seq(Streams) /\ block \in Seq(ToSet(block))
  /\ \A i, j \in DOMAIN outbound : outbound[i] = outbound[j] => i = j

\* A connection over one of its budgets is closed in the same step.
InBudget ==
  running => /\ Len(block) <= MaxBlock /\ continuations <= MaxContinuation
             /\ controlCount <= MaxControl /\ rstCount <= MaxRst

\* What is kept for a stream belongs to one that is active.
Belongs ==
  /\ pending \subseteq active /\ DOMAIN windows \subseteq active
  /\ assembling \in active \cup {NoStream} /\ (reader = "decoding" => assembling \in active)
  /\ Waiting \subseteq DOMAIN windows
  /\ \A s \in Streams : left[s] > 0 => s \in Waiting
  /\ \A s \in active : s <= lastClient

FilesClosed == files \subseteq Waiting /\ (reader = "ended" => files = {})

\* Where a client finds each stream, from its request to its end.
Answered ==
  \A s \in Streams :
    /\ wire[s] /= "broken"
    /\ s \in Waiting => wire[s] = "open"
    /\ s \in pending \/ s = assembling \/ s > lastClient => wire[s] = "idle"

\* No window has fallen below the default by more than was ever granted.
WindowsBounded == \A s \in DOMAIN windows : windows[s] >= peerWindow - MaxWindow

\* The client's account of a stream and the server's agree.
CreditAgrees ==
  /\ credit \in [Streams -> Int]
  /\ ~fault => \A s \in active : credit[s] = StreamWindow(s)

\* Who has begun to drain takes no more in.
DrainKept ==
  /\ told /= NotTold => draining /\ lastAccepted = told
  /\ idle => draining /\ active = {}
  /\ ~running /\ ~fault => active = {}

H2Inv ==
  /\ TypeOK /\ Listed /\ InBudget /\ Cardinality(active) <= MaxStreams /\ Belongs /\ FilesClosed
  /\ Answered /\ WindowsBounded /\ CreditAgrees /\ DrainKept

-----------------------------------------------------------------------------
(* The order of the bodies, and the window of a stream                     *)

LEMMA WithoutIt ==
  ASSUME NEW q \in Seq(Streams), \A i, j \in DOMAIN q : q[i] = q[j] => i = j, NEW s
  PROVE  /\ Without(q, s) \in Seq(Streams)
         /\ \A i, j \in DOMAIN Without(q, s) : Without(q, s)[i] = Without(q, s)[j] => i = j
         /\ ToSet(Without(q, s)) = ToSet(q) \ {s}
<1>1. CASE s \notin ToSet(q)
  BY <1>1 DEF Without
<1>2. CASE s \in ToSet(q)
  <2> DEFINE at == CHOOSE i \in DOMAIN q : q[i] = s
             rest == [i \in 1 .. Len(q) - 1 |-> IF i < at THEN q[i] ELSE q[i + 1]]
  <2>1. at \in 1 .. Len(q) /\ q[at] = s
    BY <1>2 DEF ToSet
  <2> HIDE DEF at
  <2>2. RemoveAt(q, at) = rest
    <3> DEFINE head == SubSeq(q, 1, at - 1)
               tail == SubSeq(q, at + 1, Len(q))
    <3>1. /\ head \in Seq(Streams) /\ Len(head) = at - 1
          /\ \A i \in 1 .. at - 1 : head[i] = q[i]
      BY <2>1
    <3>2. /\ tail \in Seq(Streams) /\ Len(tail) = Len(q) - at
          /\ \A i \in 1 .. Len(q) - at : tail[i] = q[at + i]
      BY <2>1
    <3> HIDE DEF head, tail
    <3>3. /\ head \o tail \in Seq(Streams) /\ Len(head \o tail) = Len(q) - 1
          /\ \A i \in 1 .. Len(q) - 1 :
               (head \o tail)[i] = IF i < at THEN head[i] ELSE tail[i - (at - 1)]
      <4>1. /\ head \o tail \in Seq(Streams) /\ Len(head \o tail) = Len(head) + Len(tail)
            /\ \A i \in 1 .. Len(head) + Len(tail) :
                 (head \o tail)[i] = IF i <= Len(head) THEN head[i] ELSE tail[i - Len(head)]
        BY <3>1, <3>2, ConcatProperties
      <4>2. Len(head) = at - 1 /\ Len(tail) = Len(q) - at /\ at \in Int /\ Len(q) \in Int
        BY <2>1, <3>1, <3>2
      <4> QED  BY <4>1, <4>2
    <3>4. \A i \in 1 .. Len(q) - 1 : (head \o tail)[i] = rest[i]
      BY <2>1, <3>1, <3>2, <3>3
    <3>5. head \o tail = rest
      <4>1. rest \in Seq(Streams) /\ Len(rest) = Len(q) - 1
        BY <2>1
      <4> HIDE DEF rest
      <4> QED  BY <3>3, <3>4, <4>1, SeqEqual
    <3> QED  BY <3>5 DEF RemoveAt, head, tail
  <2>3. Without(q, s) = rest
    BY <1>2, <2>2 DEF Without, at
  <2>4. rest \in Seq(Streams) /\ DOMAIN rest = 1 .. Len(q) - 1
    BY <2>1
  <2>5. \A i, j \in DOMAIN rest : rest[i] = rest[j] => i = j
    BY <2>1, <2>4
  <2>6. \A i \in DOMAIN rest : rest[i] \in ToSet(q) \ {s}
    BY <2>1, <2>4 DEF ToSet
  <2>7. \A i \in DOMAIN q : q[i] /= s => \E j \in DOMAIN rest : rest[j] = q[i]
    <3> SUFFICES ASSUME NEW i \in 1 .. Len(q), i /= at PROVE \E j \in DOMAIN rest : rest[j] = q[i]
      <4> HIDE DEF rest
      <4> QED  BY <2>1
    <3>1. CASE i < at
      <4>1. i \in DOMAIN rest /\ rest[i] = q[i]
        BY <2>1, <2>4, <3>1
      <4> QED  BY <4>1
    <3>2. CASE i > at
      <4>1. i - 1 \in DOMAIN rest /\ rest[i - 1] = q[i]
        BY <2>1, <2>4, <3>2
      <4> QED  BY <4>1
    <3> QED  BY <2>1, <3>1, <3>2
  <2>8. ToSet(rest) = ToSet(q) \ {s}
    BY <2>6, <2>7 DEF ToSet
  <2> QED  BY <2>3, <2>4, <2>5, <2>8
<1> QED  BY <1>1, <1>2

LEMMA WithIt ==
  ASSUME NEW q \in Seq(Streams), \A i, j \in DOMAIN q : q[i] = q[j] => i = j, NEW s \in Streams
  PROVE  /\ Append(q, s) \in Seq(Streams)
         /\ ToSet(Append(q, s)) = ToSet(q) \cup {s}
         /\ s \notin ToSet(q) =>
              \A i, j \in DOMAIN Append(q, s) : Append(q, s)[i] = Append(q, s)[j] => i = j
<1> DEFINE more == Append(q, s)
<1>1. /\ more \in Seq(Streams) /\ DOMAIN more = 1 .. Len(q) + 1 /\ DOMAIN q = 1 .. Len(q)
      /\ Len(q) \in Nat /\ more[Len(q) + 1] = s /\ \A i \in 1 .. Len(q) : more[i] = q[i]
  OBVIOUS
<1> HIDE DEF more
<1>2. \A x : x \in ToSet(more) <=> x \in ToSet(q) \cup {s}
  <2>1. \A i \in 1 .. Len(q) + 1 : i \in 1 .. Len(q) \/ i = Len(q) + 1
    BY <1>1
  <2>2. \A i \in 1 .. Len(q) : i \in 1 .. Len(q) + 1
    BY <1>1
  <2>3. Len(q) + 1 \in 1 .. Len(q) + 1
    BY <1>1
  <2> QED  BY <1>1, <2>1, <2>2, <2>3, Zenon DEF ToSet
<1>3. s \notin ToSet(q) => \A i, j \in DOMAIN more : more[i] = more[j] => i = j
  BY <1>1 DEF ToSet
<1> QED  BY <1>1, <1>2, <1>3 DEF more

\* What is left when a stream is forgotten.
LEMMA Forgotten ==
  ASSUME Listed, Belongs, NEW s \in Streams, Forget(s)
  PROVE  /\ outbound' \in Seq(Streams)
         /\ \A i, j \in DOMAIN outbound' : outbound'[i] = outbound'[j] => i = j
         /\ Waiting' = Waiting \ {s}
         /\ DOMAIN windows' = DOMAIN windows \ {s}
         /\ \A o \in DOMAIN windows' : windows'[o] = windows[o]
BY WithoutIt DEF Listed, Forget, Waiting, Restrict

LEMMA LeastOf ==
  ASSUME NEW a \in Int, NEW b \in Int, NEW c \in Int, NEW d \in Int
  PROVE  /\ Min({a, b, c, d}) \in {a, b, c, d}
         /\ Min({a, b, c, d}) <= a /\ Min({a, b, c, d}) <= b
         /\ Min({a, b, c, d}) <= c /\ Min({a, b, c, d}) <= d
<1>1. \E x \in {a, b, c, d} : \A y \in {a, b, c, d} : x =< y
  OBVIOUS
<1> QED  BY <1>1 DEF Min

LEMMA Positive == ASSUME NEW w \in Int PROVE Max({w, 0}) = IF w > 0 THEN w ELSE 0
<1>1. \E x \in {w, 0} : \A y \in {w, 0} : x >= y
  OBVIOUS
<1> QED  BY <1>1 DEF Max

LEMMA StreamWindowTyped ==
  ASSUME TypeOK, NEW s PROVE StreamWindow(s) \in -MaxWindow .. MaxWindow
<1>1. /\ MaxWindow \in Nat /\ peerWindow \in 0 .. MaxWindow
      /\ \A o \in DOMAIN windows : windows[o] \in -MaxWindow .. MaxWindow
  BY H2Assumption DEF TypeOK
<1> QED  BY <1>1 DEF StreamWindow

\* What is sent next fits the frame, what is left and both windows.
LEMMA BudgetFits ==
  ASSUME TypeOK, NEW s \in Streams
  PROVE  /\ Budget(s) \in Nat /\ Budget(s) <= left[s] /\ Budget(s) <= connWindow
         /\ Budget(s) > 0 => Budget(s) <= StreamWindow(s)
<1> DEFINE w == StreamWindow(s)
           positive == Max({w, 0})
<1>1. w \in Int
  BY StreamWindowTyped, H2Assumption
<1>2. positive \in Nat /\ (positive > 0 => positive = w)
  BY <1>1, Positive
<1>3. FrameLimit \in Nat /\ left[s] \in Nat /\ connWindow \in Nat
  BY H2Assumption DEF TypeOK
<1> HIDE DEF positive, w
<1>4. Budget(s) = Min({FrameLimit, left[s], connWindow, positive})
  BY DEF Budget, positive, w
<1>5. /\ Budget(s) \in {FrameLimit, left[s], connWindow, positive}
      /\ Budget(s) <= left[s] /\ Budget(s) <= connWindow /\ Budget(s) <= positive
  <2>1. /\ FrameLimit \in Int /\ left[s] \in Int /\ connWindow \in Int /\ positive \in Int
    BY <1>2, <1>3
  <2> DEFINE most == left[s]
             least == Min({FrameLimit, most, connWindow, positive})
  <2> HIDE DEF most, least
  <2>2. /\ least \in {FrameLimit, most, connWindow, positive}
        /\ least <= FrameLimit /\ least <= most /\ least <= connWindow /\ least <= positive
    BY <2>1, LeastOf DEF least, most
  <2> QED  BY <1>4, <2>2 DEF least, most
<1> DEFINE n == Budget(s)
<1> HIDE DEF n
<1>6. n \in Nat /\ (n > 0 => n <= w)
  <2>1. /\ n \in {FrameLimit, left[s], connWindow, positive} /\ n <= positive
    BY <1>5 DEF n
  <2>2. n \in Nat
    <3> HIDE DEF w
    <3> QED  BY <1>2, <1>3, <2>1
  <2>3. n > 0 => n <= w
    <3> HIDE DEF w
    <3> QED  BY <1>1, <1>2, <2>1, <2>2
  <2> QED  BY <2>2, <2>3
<1> QED  BY <1>5, <1>6 DEF n, w

-----------------------------------------------------------------------------
(* What a step may do to a stream                                          *)

\* No stream notices, but that files are closed at the end.
Quiet ==
  /\ UNCHANGED <<admission, assembling, pending, flow, outbound, left, wire>>
  /\ files' = files \/ files' = {}
  /\ reader' = "ended" => files' = {}
  /\ reader' = "decoding" => assembling \in active

Undecoded == reader' /= "decoding" /\ reader' /= "ended"

\* The client's windows change.
Regrants ==
  /\ UNCHANGED <<admission, assembling, pending, bodies, wire>> /\ Undecoded
  /\ \/ \E value \in -1 .. (MaxWindow + 1) : Settings(value)
     \/ \E s \in Streams \cup {0}, n \in 1 .. MaxWindow : WindowUpdate(s, n)

\* It was answered to its end, reset or refused.
Ends(s) ==
  /\ Forget(s) /\ Undecoded
  /\ wire' = [wire EXCEPT ![s] = wire'[s]] /\ wire'[s] \in {"done", "reset"}
  /\ lastClient' \in {lastClient, s} /\ lastClient <= lastClient' /\ s <= lastClient'
  /\ lastAccepted' = lastAccepted
  /\ peerWindow' = peerWindow /\ connWindow' \in 0 .. connWindow
  /\ assembling' \in {assembling, NoStream} /\ (s = assembling => assembling' = NoStream)

\* It is accepted.
Opens(s) ==
  /\ running /\ ~Refused /\ s > lastClient /\ reader' /= "ended"
  /\ active' = active \cup {s} /\ lastClient' = s /\ lastAccepted' = s /\ assembling' = s
  /\ credit' = [credit EXCEPT ![s] = peerWindow]
  /\ UNCHANGED <<peerWindow, connWindow, windows, pending, bodies, wire>>

\* Its headers are read, and its body is to come.
Parks(s) ==
  /\ s = assembling /\ assembling' = NoStream /\ pending' = pending \cup {s} /\ Undecoded
  /\ UNCHANGED <<admission, flow, bodies, wire>>

\* It is answered with a body.
Responds(s, size) ==
  /\ s \in pending \/ s = assembling
  /\ size > 0 /\ assembling' = NoStream /\ Undecoded
  /\ Respond(s, size)
  /\ UNCHANGED <<lastClient, lastAccepted, peerWindow, connWindow>>

\* A part of the body is sent.
Transmits(s, n) ==
  /\ n \in 1 .. connWindow /\ n < left[s] /\ n <= StreamWindow(s) /\ Undecoded
  /\ wire' = [wire EXCEPT ![s] = DataSeen(@, FALSE)]
  /\ connWindow' = connWindow - n
  /\ left' = [left EXCEPT ![s] = @ - n]
  /\ windows' = [windows EXCEPT ![s] = @ - n]
  /\ credit' = [credit EXCEPT ![s] = @ - n]
  /\ UNCHANGED <<admission, assembling, pending, outbound, files, peerWindow>>

Effect ==
  \/ Quiet \/ Regrants
  \/ \E s \in Streams : Ends(s) \/ Opens(s) \/ Parks(s)
  \/ \E s \in Streams, size \in Sizes : Responds(s, size)
  \/ \E s \in Streams, n \in Nat : Transmits(s, n)

LEMMA StreamNumbers == /\ \A s \in Streams : s \in Nat /\ s > 0 /\ s /= NoStream
                       /\ NoStream \notin Streams /\ 0 \notin Streams
BY H2Assumption DEF NoStream

LEMMA QuietSteps ==
  ASSUME H2Inv,
         \/ Preface \/ EndOfChunk \/ EndOfPass \/ DecodeError \/ Read \/ EndOfFile \/ Fail \/ Unexpected
         \/ ClientGoaway \/ Drainer
  PROVE  Quiet
<1>1. (reader = "decoding" => assembling \in active) /\ (reader = "ended" => files = {})
  BY DEF H2Inv, Belongs, FilesClosed
<1>2. CASE Preface \/ EndOfChunk \/ Read \/ Unexpected \/ ClientGoaway
  BY <1>1, <1>2 DEF Preface, EndOfChunk, Read, Unexpected, ClientGoaway, Quiet, bodies, Handling, assembly
<1>3. CASE EndOfPass
  BY <1>1, <1>3 DEF EndOfPass, Quiet, assembly
<1>4. CASE EndOfFile \/ Fail \/ DecodeError
  BY <1>1, <1>4 DEF EndOfFile, Fail, DecodeError, End, Quiet, assembly
<1>5. CASE Drainer
  BY <1>1, <1>5 DEF Drainer, BeginDraining, SendGoaway, Wake, Quiet, assembly, bodies
<1> QED  BY <1>2, <1>3, <1>4, <1>5

LEMMA ContinuationQuiet ==
  ASSUME H2Inv, NEW s \in Streams, NEW endHeaders \in BOOLEAN, ContinuationFrame(s, endHeaders)
  PROVE  Quiet
<1>1. assembling \in active \cup {NoStream} /\ s /= NoStream
  BY StreamNumbers DEF H2Inv, Belongs
<1>2. reader = "handling"
  BY DEF ContinuationFrame, Handling
<1>3. UNCHANGED <<admission, pending, flow, outbound, left, wire, files>>
  BY DEF ContinuationFrame, bodies
<1>4. PICK fragment \in Fragments :
        \/ UNCHANGED <<reader, assembling>>
        \/ s = assembling /\ Extend(s, block \o fragment, endHeaders)
  BY DEF ContinuationFrame
<1>5. CASE UNCHANGED <<reader, assembling>>
  BY <1>2, <1>3, <1>5 DEF Quiet
<1>6. CASE s = assembling /\ Extend(s, block \o fragment, endHeaders)
  <2>1. assembling' = assembling /\ reader' \in {"handling", "decoding"}
    BY <1>2, <1>6 DEF Extend
  <2> QED  BY <1>1, <1>3, <1>6, <2>1 DEF Quiet
<1> QED  BY <1>4, <1>5, <1>6

LEMMA RegrantSteps ==
  ASSUME \/ \E value \in -1 .. (MaxWindow + 1) : Settings(value)
         \/ \E s \in Streams \cup {0}, n \in 1 .. MaxWindow : WindowUpdate(s, n)
  PROVE  Regrants
<1>1. CASE \E value \in -1 .. (MaxWindow + 1) : Settings(value)
  <2>1. UNCHANGED <<admission, assembling, pending, bodies, wire>> /\ Undecoded
    BY <1>1 DEF Settings, Handling, Undecoded, assembly
  <2> QED  BY <1>1, <2>1 DEF Regrants
<1>2. CASE \E s \in Streams \cup {0}, n \in 1 .. MaxWindow : WindowUpdate(s, n)
  <2>1. UNCHANGED <<admission, assembling, pending, bodies, wire>> /\ Undecoded
    BY <1>2 DEF WindowUpdate, Handling, Undecoded, assembly
  <2> QED  BY <1>2, <2>1 DEF Regrants
<1> QED  BY <1>1, <1>2

\* A stream of which the client has seen no end can be reset.
LEMMA ResetEnds ==
  ASSUME H2Inv, NEW s \in Streams, wire' = [wire EXCEPT ![s] = ResetSeen(@)]
  PROVE  wire' = [wire EXCEPT ![s] = wire'[s]] /\ wire'[s] \in {"done", "reset"}
BY DEF H2Inv, TypeOK, ResetSeen

LEMMA RstStreamSteps ==
  ASSUME H2Inv, NEW s \in Streams, RstStream(s) PROVE Quiet \/ Ends(s)
<1>1. assembling' = assembling /\ assembling = NoStream /\ s /= NoStream /\ Undecoded
  BY StreamNumbers DEF RstStream, Interrupted, Handling, Undecoded, assembly
<1>2. CASE s > lastClient
  BY <1>1, <1>2 DEF RstStream, Quiet, bodies, Undecoded
<1>3. CASE ~(s > lastClient)
  <2>1. /\ Forget(s) /\ wire' = [wire EXCEPT ![s] = ResetSeen(@)]
        /\ UNCHANGED <<lastClient, lastAccepted, peerWindow, connWindow>>
    BY <1>3 DEF RstStream, Complete
  <2>2. s <= lastClient /\ lastClient \in Int /\ connWindow' \in 0 .. connWindow
    BY <1>3, <2>1, StreamNumbers DEF H2Inv, TypeOK
  <2>3. wire' = [wire EXCEPT ![s] = wire'[s]] /\ wire'[s] \in {"done", "reset"}
    BY <2>1, ResetEnds
  <2> QED  BY <1>1, <2>1, <2>2, <2>3 DEF Ends
<1> QED  BY <1>2, <1>3

\* What _dispatch makes of a request that waits.
LEMMA DispatchSteps ==
  ASSUME H2Inv, NEW s \in Streams, NEW wellformed \in BOOLEAN, Dispatch(s, wellformed),
         s \in pending \/ s = assembling, assembling' = NoStream, Undecoded,
         UNCHANGED <<lastClient, lastAccepted, peerWindow, connWindow>>
  PROVE  Ends(s) \/ \E size \in Sizes : Responds(s, size)
<1>1. /\ wire[s] = "idle" /\ wire \in [Streams -> {"idle", "open", "done", "reset", "broken"}]
      /\ s <= lastClient /\ lastClient \in Int /\ connWindow' \in 0 .. connWindow
  BY StreamNumbers DEF H2Inv, TypeOK, Answered, Belongs
<1>2. CASE ~wellformed
  <2>1. Forget(s) /\ wire' = [wire EXCEPT ![s] = ResetSeen(@)]
    BY <1>2 DEF Dispatch, Reset, Complete
  <2>2. wire' = [wire EXCEPT ![s] = wire'[s]] /\ wire'[s] \in {"done", "reset"}
    BY <2>1, ResetEnds
  <2> QED  BY <1>1, <2>1, <2>2 DEF Ends
<1>3. CASE wellformed
  <2>1. PICK size \in Sizes : Respond(s, size)
    BY <1>3 DEF Dispatch
  <2>2. size \in Nat
    BY H2Assumption
  <2>3. CASE size = 0
    <3>1. Forget(s) /\ wire' = [wire EXCEPT ![s] = "done"]
      BY <1>1, <2>1, <2>3 DEF Respond, Complete, DataSeen, HeadersSeen
    <3> QED  BY <1>1, <3>1 DEF Ends
  <2>4. CASE size > 0
    BY <2>1, <2>4 DEF Responds
  <2> QED  BY <2>2, <2>3, <2>4
<1> QED  BY <1>2, <1>3

LEMMA DecodeSteps ==
  ASSUME H2Inv, DecodeBlock
  PROVE  \E s \in Streams : Ends(s) \/ Parks(s) \/ \E size \in Sizes : Responds(s, size)
<1>1. /\ assembling \in Streams /\ assembling' = NoStream /\ Undecoded
      /\ UNCHANGED <<lastClient, lastAccepted, peerWindow, connWindow>>
  BY DEF DecodeBlock, H2Inv, TypeOK, Belongs, Undecoded
<1>2. CASE endStream
  <2>1. PICK wellformed \in BOOLEAN : Dispatch(assembling, wellformed)
    BY <1>2 DEF DecodeBlock
  <2> QED  BY <1>1, <2>1, DispatchSteps
<1>3. CASE ~endStream
  <2>1. /\ pending' = pending \cup {assembling}
        /\ UNCHANGED <<active, outbound, left, files, windows, credit, wire>>
    BY <1>3 DEF DecodeBlock
  <2>2. Parks(assembling)
    BY <1>1, <2>1 DEF Parks, admission, flow, bodies
  <2> QED  BY <1>1, <2>2
<1> QED  BY <1>2, <1>3

LEMMA DataSteps ==
  ASSUME H2Inv, NEW s \in Streams, NEW end \in BOOLEAN, Data(s, end)
  PROVE  Quiet \/ Ends(s) \/ \E size \in Sizes : Responds(s, size)
<1>1. /\ assembling' = assembling /\ assembling = NoStream /\ s /= NoStream /\ Undecoded
      /\ UNCHANGED <<lastClient, lastAccepted, peerWindow, connWindow>>
  BY StreamNumbers DEF Data, Interrupted, Handling, Undecoded, assembly
<1>2. lastClient \in Int /\ connWindow' \in 0 .. connWindow
  BY <1>1, StreamNumbers DEF H2Inv, TypeOK
<1>3. CASE UNCHANGED <<active, outbound, left, files, windows, credit, pending, wire>>
  BY <1>1, <1>3 DEF Quiet, admission, flow, Undecoded
<1>4. CASE s \notin active /\ s <= lastClient /\ Reset(s)
  <2>1. Forget(s) /\ wire' = [wire EXCEPT ![s] = ResetSeen(@)]
    BY <1>4 DEF Reset, Complete
  <2>2. wire' = [wire EXCEPT ![s] = wire'[s]] /\ wire'[s] \in {"done", "reset"}
    BY <2>1, ResetEnds
  <2> QED  BY <1>1, <1>2, <1>4, <2>1, <2>2 DEF Ends
<1>5. CASE s \in pending /\ \E wellformed \in BOOLEAN : Dispatch(s, wellformed)
  BY <1>1, <1>5, DispatchSteps
<1>6. \/ UNCHANGED <<active, outbound, left, files, windows, credit, pending, wire>>
      \/ s \notin active /\ s <= lastClient /\ Reset(s)
      \/ s \in pending /\ \E wellformed \in BOOLEAN : Dispatch(s, wellformed)
  BY <1>2, StreamNumbers DEF Data
<1> QED  BY <1>3, <1>4, <1>5, <1>6

LEMMA HeadersSteps ==
  ASSUME H2Inv, NEW s \in Streams, NEW end \in BOOLEAN, NEW endHeaders \in BOOLEAN,
         Headers(s, end, endHeaders)
  PROVE  Quiet \/ Ends(s) \/ Opens(s)
<1>1. /\ running /\ assembling = NoStream /\ s /= NoStream /\ reader = "handling"
      /\ UNCHANGED <<peerWindow, connWindow>>
  BY StreamNumbers DEF Headers, Interrupted, Handling
<1>2. lastClient \in Int /\ s \in Int /\ connWindow' \in 0 .. connWindow
  BY <1>1, StreamNumbers DEF H2Inv, TypeOK
<1>3. \/ UNCHANGED <<reader, admission, assembly, bodies, windows, credit, pending, wire>>
      \/ /\ s > lastClient /\ lastClient' = s /\ lastAccepted' = lastAccepted /\ Complete(s)
         /\ wire' = [wire EXCEPT ![s] = ResetSeen(@)]
         /\ UNCHANGED <<reader, assembly>>
      \/ /\ s > lastClient /\ ~Refused /\ lastClient' = s /\ lastAccepted' = s
         /\ active' = active \cup {s} /\ credit' = [credit EXCEPT ![s] = peerWindow]
         /\ \E fragment \in Fragments : Extend(s, fragment, endHeaders)
         /\ UNCHANGED <<bodies, windows, pending, wire>>
  BY <1>2 DEF Headers
<1>4. CASE UNCHANGED <<reader, admission, assembly, bodies, windows, credit, pending, wire>>
  BY <1>1, <1>4 DEF Quiet, admission, flow, bodies, assembly
<1>5. CASE /\ s > lastClient /\ lastClient' = s /\ lastAccepted' = lastAccepted /\ Complete(s)
           /\ wire' = [wire EXCEPT ![s] = ResetSeen(@)]
           /\ UNCHANGED <<reader, assembly>>
  <2>1. wire' = [wire EXCEPT ![s] = wire'[s]] /\ wire'[s] \in {"done", "reset"}
    BY <1>5, ResetEnds
  <2>2. Forget(s) /\ Undecoded /\ assembling' = assembling
    BY <1>1, <1>5 DEF Complete, Undecoded, assembly
  <2> QED  BY <1>1, <1>2, <1>5, <2>1, <2>2 DEF Ends
<1>6. CASE /\ s > lastClient /\ ~Refused /\ lastClient' = s /\ lastAccepted' = s
           /\ active' = active \cup {s} /\ credit' = [credit EXCEPT ![s] = peerWindow]
           /\ \E fragment \in Fragments : Extend(s, fragment, endHeaders)
           /\ UNCHANGED <<bodies, windows, pending, wire>>
  <2>1. assembling' = s /\ reader' \in {"handling", "decoding"}
    BY <1>1, <1>6 DEF Extend
  <2> QED  BY <1>1, <1>6, <2>1 DEF Opens
<1> QED  BY <1>3, <1>4, <1>5, <1>6

\* Something can be sent for a stream that has a body only.
LEMMA SendSteps ==
  ASSUME H2Inv, SendData
  PROVE  Quiet \/ \E s \in Streams : Ends(s) \/ \E n \in Nat : Transmits(s, n)
<1> DEFINE s == Head(round)
           n == Budget(s)
<1>1. /\ round \in Seq(Streams) /\ round /= <<>>
  BY DEF H2Inv, Listed, SendData
<1>2. s \in Streams
  BY <1>1
<1> HIDE DEF s
<1>3. n \in Nat /\ n <= left[s] /\ n <= connWindow /\ (n > 0 => n <= StreamWindow(s))
  BY <1>2, BudgetFits DEF H2Inv
<1>4. /\ UNCHANGED <<lastClient, lastAccepted, peerWindow, assembling>> /\ Undecoded
      /\ left \in [Streams -> Nat] /\ connWindow \in Nat /\ lastClient \in Int
      /\ wire \in [Streams -> {"idle", "open", "done", "reset", "broken"}]
  BY StreamNumbers DEF SendData, assembly, Undecoded, H2Inv, TypeOK
<1>5. \/ n = 0 /\ UNCHANGED <<active, outbound, left, files, windows, connWindow, credit, pending, wire>>
      \/ /\ n /= 0 /\ n = left[s] /\ wire' = [wire EXCEPT ![s] = DataSeen(@, TRUE)]
         /\ connWindow' = connWindow - n /\ Complete(s)
      \/ /\ n /= 0 /\ n /= left[s] /\ wire' = [wire EXCEPT ![s] = DataSeen(@, FALSE)]
         /\ connWindow' = connWindow - n
         /\ left' = [left EXCEPT ![s] = @ - n] /\ windows' = [windows EXCEPT ![s] = @ - n]
         /\ credit' = [credit EXCEPT ![s] = @ - n]
         /\ UNCHANGED <<active, outbound, files, pending>>
      \/ n /= 0 /\ s \in files /\ Reset(s) /\ UNCHANGED connWindow
  BY DEF SendData, s
<1> HIDE DEF n
<1>6. n /= 0 => s \in Waiting /\ wire[s] = "open" /\ s <= lastClient /\ s /= assembling
  <2>1. n /= 0 => left[s] > 0
    BY <1>2, <1>3, <1>4
  <2> QED  BY <1>2, <2>1 DEF H2Inv, Belongs, Answered
<1>7. CASE n = 0 /\ UNCHANGED <<active, outbound, left, files, windows, connWindow, credit, pending, wire>>
  BY <1>4, <1>7 DEF Quiet, admission, flow, Undecoded
<1>8. CASE /\ n /= 0 /\ n = left[s] /\ wire' = [wire EXCEPT ![s] = DataSeen(@, TRUE)]
           /\ connWindow' = connWindow - n /\ Complete(s)
  <2>1. wire' = [wire EXCEPT ![s] = wire'[s]] /\ wire'[s] \in {"done", "reset"}
    BY <1>2, <1>4, <1>6, <1>8 DEF DataSeen
  <2>2. Forget(s) /\ connWindow' \in 0 .. connWindow
    BY <1>3, <1>4, <1>8 DEF Complete
  <2>3. /\ lastClient' \in {lastClient, s} /\ lastClient <= lastClient' /\ s <= lastClient'
        /\ assembling' \in {assembling, NoStream} /\ s /= assembling
        /\ UNCHANGED <<lastAccepted, peerWindow>> /\ Undecoded
    BY <1>4, <1>6, <1>8
  <2>4. Ends(s)
    BY <2>1, <2>2, <2>3 DEF Ends
  <2> QED  BY <1>2, <2>4
<1>9. CASE /\ n /= 0 /\ n /= left[s] /\ wire' = [wire EXCEPT ![s] = DataSeen(@, FALSE)]
           /\ connWindow' = connWindow - n
           /\ left' = [left EXCEPT ![s] = @ - n] /\ windows' = [windows EXCEPT ![s] = @ - n]
           /\ credit' = [credit EXCEPT ![s] = @ - n]
           /\ UNCHANGED <<active, outbound, files, pending>>
  <2>1. n \in Nat /\ n \in 1 .. connWindow /\ n < left[s] /\ n <= StreamWindow(s)
    <3>1. n \in Nat /\ n > 0 /\ left[s] \in Nat
      BY <1>2, <1>3, <1>4, <1>9
    <3> QED  BY <1>3, <1>4, <1>9, <3>1
  <2>2. Transmits(s, n)
    BY <1>4, <1>9, <2>1 DEF Transmits, admission
  <2> QED  BY <1>2, <2>1, <2>2
<1>10. CASE n /= 0 /\ s \in files /\ Reset(s) /\ UNCHANGED connWindow
  <2>1. Forget(s) /\ wire' = [wire EXCEPT ![s] = ResetSeen(@)] /\ connWindow' \in 0 .. connWindow
    BY <1>4, <1>10 DEF Reset, Complete
  <2>2. wire' = [wire EXCEPT ![s] = wire'[s]] /\ wire'[s] \in {"done", "reset"}
    BY <1>2, <2>1, ResetEnds
  <2>3. Ends(s)
    BY <1>2, <1>4, <1>6, <1>10, <2>1, <2>2 DEF Ends
  <2> QED  BY <1>2, <2>3
<1> QED  BY <1>5, <1>7, <1>8, <1>9, <1>10

LEMMA Effects == ASSUME H2Inv, Next PROVE Effect
<1> USE DEF Effect
<1>1. CASE \/ Preface \/ EndOfChunk \/ EndOfPass \/ DecodeError \/ Read \/ EndOfFile \/ Fail
           \/ Unexpected \/ ClientGoaway \/ Drainer
  BY <1>1, QuietSteps
<1>2. CASE \/ \E value \in -1 .. (MaxWindow + 1) : Settings(value)
           \/ \E s \in Streams \cup {0}, n \in 1 .. MaxWindow : WindowUpdate(s, n)
  BY <1>2, RegrantSteps
<1>3. CASE \E s \in Streams : RstStream(s)
  BY <1>3, RstStreamSteps
<1>4. CASE \E s \in Streams, end \in BOOLEAN : Data(s, end)
  BY <1>4, DataSteps
<1>5. CASE \E s \in Streams, endHeaders \in BOOLEAN : ContinuationFrame(s, endHeaders)
  BY <1>5, ContinuationQuiet
<1>6. CASE \E s \in Streams, endHeaders \in BOOLEAN, end \in BOOLEAN : Headers(s, end, endHeaders)
  BY <1>6, HeadersSteps
<1>7. CASE DecodeBlock
  BY <1>7, DecodeSteps
<1>8. CASE SendData
  BY <1>8, SendSteps
<1>9. CASE Terminated
  <2>1. (reader = "decoding" => assembling \in active) /\ (reader = "ended" => files = {})
    BY DEF H2Inv, Belongs, FilesClosed
  <2> QED  BY <1>9, <2>1 DEF Terminated, vars, assembly, bodies, Quiet
<1> QED
  BY <1>1, <1>2, <1>3, <1>4, <1>5, <1>6, <1>7, <1>8, <1>9
  DEF Next, Reader, HandleFrame

-----------------------------------------------------------------------------
(* What the effects preserve                                               *)

LEMMA WindowShapes ==
  ASSUME H2Inv, Regrants
  PROVE  DOMAIN windows \subseteq DOMAIN windows' /\ DOMAIN windows' \subseteq active
<1>1. CASE \E value \in -1 .. (MaxWindow + 1) : Settings(value)
  <2>1. DOMAIN windows' = DOMAIN windows
    BY <1>1 DEF Settings, flow, Shifted
  <2> QED  BY <2>1 DEF H2Inv, Belongs
<1>2. CASE \E s \in Streams \cup {0}, n \in 1 .. MaxWindow : WindowUpdate(s, n)
  <2>1. \/ windows' = windows
        \/ \E s \in active : DOMAIN windows' = DOMAIN windows \cup {s}
    BY <1>2 DEF WindowUpdate, flow
  <2> QED  BY <2>1 DEF H2Inv, Belongs
<1> QED  BY <1>1, <1>2 DEF Regrants

LEMMA BelongsKept == ASSUME H2Inv, Effect PROVE Belongs'
<1> USE StreamNumbers
<1>1. /\ Belongs /\ Listed /\ active \subseteq Streams /\ lastClient \in Int
      /\ left \in [Streams -> Nat] /\ Answered /\ outbound \in Seq(Streams)
  BY DEF H2Inv, TypeOK, Listed
<1>2. CASE Quiet
  BY <1>1, <1>2 DEF Quiet, Belongs, admission, flow, Waiting
<1>3. CASE Regrants
  BY <1>1, <1>3, WindowShapes DEF Regrants, Belongs, admission, bodies, Waiting, Undecoded
<1>4. CASE \E s \in Streams : Ends(s)
  <2>1. PICK s \in Streams : Ends(s)
    BY <1>4
  <2>2. Waiting' = Waiting \ {s} /\ DOMAIN windows' = DOMAIN windows \ {s}
    BY <1>1, <2>1, Forgotten DEF Ends
  <2>3. /\ active' = active \ {s} /\ pending' = pending \ {s}
        /\ left' = [left EXCEPT ![s] = 0]
    BY <2>1 DEF Ends, Forget
  <2>4. /\ lastClient <= lastClient' /\ lastClient' \in Int /\ Undecoded
        /\ assembling' \in {assembling, NoStream} /\ (s = assembling => assembling' = NoStream)
    BY <1>1, <2>1 DEF Ends
  <2>5. \A o \in Streams : left'[o] > 0 => o \in Waiting'
    BY <1>1, <2>2, <2>3 DEF Belongs
  <2>6. \A o \in active' : o <= lastClient'
    BY <1>1, <2>3, <2>4 DEF Belongs
  <2>7. assembling' \in active' \cup {NoStream}
    BY <1>1, <2>3, <2>4 DEF Belongs
  <2> QED  BY <1>1, <2>2, <2>3, <2>4, <2>5, <2>6, <2>7 DEF Belongs, Undecoded
<1>5. CASE \E s \in Streams : Opens(s)
  <2>1. PICK s \in Streams : Opens(s)
    BY <1>5
  <2>2. Waiting' = Waiting
    BY <2>1 DEF Opens, bodies, Waiting
  <2> QED  BY <1>1, <2>1, <2>2 DEF Opens, Belongs, bodies
<1>6. CASE \E s \in Streams : Parks(s)
  <2>1. PICK s \in Streams : Parks(s)
    BY <1>6
  <2>2. Waiting' = Waiting
    BY <2>1 DEF Parks, bodies, Waiting
  <2> QED  BY <1>1, <2>1, <2>2 DEF Parks, Belongs, bodies, Undecoded, admission, flow
<1>7. CASE \E s \in Streams, size \in Sizes : Responds(s, size)
  <2>1. PICK s \in Streams, size \in Sizes : Responds(s, size)
    BY <1>7
  <2>2. /\ outbound' = Append(outbound, s) /\ left' = [left EXCEPT ![s] = size]
        /\ DOMAIN windows' = DOMAIN windows \cup {s} /\ pending' = pending \ {s}
        /\ UNCHANGED <<active, lastClient>> /\ assembling' = NoStream /\ Undecoded
    BY <2>1, H2Assumption DEF Responds, Respond
  <2>3. s \in active
    BY <1>1, <2>1 DEF Responds, Belongs
  <2>4. Waiting' = Waiting \cup {s}
    BY <1>1, <2>2, WithIt DEF Waiting, Listed
  <2> QED  BY <1>1, <2>2, <2>3, <2>4 DEF Belongs, Undecoded
<1>8. CASE \E s \in Streams, n \in Nat : Transmits(s, n)
  <2>1. PICK s \in Streams, n \in Nat : Transmits(s, n)
    BY <1>8
  <2>2. /\ UNCHANGED <<active, lastClient, pending, assembling, outbound>> /\ Undecoded
        /\ left' = [left EXCEPT ![s] = @ - n] /\ n < left[s] /\ DOMAIN windows' = DOMAIN windows
    BY <2>1 DEF Transmits, admission
  <2>3. Waiting' = Waiting
    BY <2>2 DEF Waiting
  <2>4. \A o \in Streams : left'[o] > 0 => o \in Waiting
    BY <1>1, <2>2 DEF Belongs
  <2> QED  BY <1>1, <2>2, <2>3, <2>4 DEF Belongs, Undecoded
<1> QED  BY <1>2, <1>3, <1>4, <1>5, <1>6, <1>7, <1>8 DEF Effect

LEMMA AnsweredKept == ASSUME H2Inv, Effect PROVE Answered'
<1> USE StreamNumbers
<1>1. /\ Answered /\ Belongs /\ Listed /\ lastClient \in Int /\ assembling \in Streams \cup {NoStream}
      /\ wire \in [Streams -> {"idle", "open", "done", "reset", "broken"}]
  BY DEF H2Inv, TypeOK
<1>2. CASE Quiet
  BY <1>1, <1>2 DEF Quiet, Answered, admission, Waiting
<1>3. CASE Regrants
  BY <1>1, <1>3 DEF Regrants, Answered, admission, bodies, Waiting
<1>4. CASE \E s \in Streams : Ends(s)
  <2>1. PICK s \in Streams : Ends(s)
    BY <1>4
  <2>2. Waiting' = Waiting \ {s} /\ pending' = pending \ {s}
    BY <1>1, <2>1, Forgotten DEF Ends, Forget
  <2>3. \A o \in Streams : o /= s => wire'[o] = wire[o]
    BY <1>1, <2>1 DEF Ends
  <2>4. wire'[s] \in {"done", "reset"} /\ ~(s > lastClient') /\ s /= assembling'
    BY <1>1, <2>1 DEF Ends
  <2>5. \A o \in Streams : o > lastClient' => o > lastClient
    BY <1>1, <2>1 DEF Ends
  <2>6. \A o \in Streams : o = assembling' => o = assembling
    BY <2>1 DEF Ends
  <2> QED  BY <1>1, <2>2, <2>3, <2>4, <2>5, <2>6 DEF Answered
<1>5. CASE \E s \in Streams : Opens(s)
  <2>1. PICK s \in Streams : Opens(s)
    BY <1>5
  <2>2. Waiting' = Waiting /\ UNCHANGED <<pending, wire>> /\ assembling' = s
    BY <2>1 DEF Opens, bodies, Waiting
  <2>3. s > lastClient /\ \A o \in Streams : o > lastClient' => o > lastClient
    BY <1>1, <2>1 DEF Opens
  <2> QED  BY <1>1, <2>2, <2>3 DEF Answered
<1>6. CASE \E s \in Streams : Parks(s)
  <2>1. PICK s \in Streams : Parks(s)
    BY <1>6
  <2>2. Waiting' = Waiting
    BY <2>1 DEF Parks, bodies, Waiting
  <2> QED  BY <1>1, <2>1, <2>2 DEF Parks, Answered, admission
<1>7. CASE \E s \in Streams, size \in Sizes : Responds(s, size)
  <2>1. PICK s \in Streams, size \in Sizes : Responds(s, size)
    BY <1>7
  <2>2. /\ outbound' = Append(outbound, s) /\ pending' = pending \ {s} /\ s <= lastClient
        /\ UNCHANGED lastClient /\ assembling' = NoStream /\ wire[s] = "idle"
        /\ wire' = [wire EXCEPT ![s] = HeadersSeen(@)]
    <3>1. wire[s] = "idle" /\ s <= lastClient
      BY <1>1, <2>1 DEF Responds, Answered, Belongs
    <3>2. size \in Nat /\ size /= 0
      BY <2>1, H2Assumption DEF Responds
    <3> QED  BY <2>1, <3>1, <3>2 DEF Responds, Respond
  <2>3. Waiting' = Waiting \cup {s}
    BY <1>1, <2>2, WithIt DEF Waiting, Listed
  <2>4. wire'[s] = "open" /\ \A o \in Streams : o /= s => wire'[o] = wire[o]
    BY <1>1, <2>2 DEF HeadersSeen
  <2>5. \A o \in Streams : o > lastClient' => o /= s
    BY <1>1, <2>2
  <2> QED  BY <1>1, <2>2, <2>3, <2>4, <2>5 DEF Answered
<1>8. CASE \E s \in Streams, n \in Nat : Transmits(s, n)
  <2>1. PICK s \in Streams, n \in Nat : Transmits(s, n)
    BY <1>8
  <2>2. /\ UNCHANGED <<lastClient, pending, assembling, outbound>>
        /\ wire' = [wire EXCEPT ![s] = DataSeen(@, FALSE)]
    BY <2>1 DEF Transmits, admission
  <2>3. wire[s] = "open"
    <3>1. left[s] > 0
      BY <2>1 DEF Transmits, H2Inv, TypeOK
    <3> QED  BY <1>1, <3>1 DEF Belongs, Answered
  <2>4. wire' = wire /\ Waiting' = Waiting
    BY <1>1, <2>2, <2>3 DEF DataSeen, Waiting
  <2> QED  BY <1>1, <2>2, <2>4 DEF Answered
<1> QED  BY <1>2, <1>3, <1>4, <1>5, <1>6, <1>7, <1>8 DEF Effect

LEMMA OrderKept ==
  ASSUME H2Inv, Effect
  PROVE  /\ outbound' \in Seq(Streams) /\ Waiting' \subseteq Streams
         /\ \A i, j \in DOMAIN outbound' : outbound'[i] = outbound'[j] => i = j
<1>1. /\ Listed /\ Belongs /\ Answered /\ outbound \in Seq(Streams)
      /\ \A i, j \in DOMAIN outbound : outbound[i] = outbound[j] => i = j
  BY DEF H2Inv, Listed
<1> DEFINE Ordered == /\ outbound' \in Seq(Streams)
                      /\ \A i, j \in DOMAIN outbound' : outbound'[i] = outbound'[j] => i = j
<1>2. ASSUME UNCHANGED outbound PROVE Ordered
  <2>1. outbound' = outbound
    BY <1>2
  <2> QED  BY <1>1, <2>1, Zenon
<1>3. ASSUME \E s \in Streams : Ends(s) PROVE Ordered
  BY <1>1, <1>3, Forgotten DEF Ends
<1>4. ASSUME NEW s \in Streams, NEW size \in Sizes, Responds(s, size) PROVE Ordered
  <2>1. size \in Nat /\ size /= 0
    BY <1>4, H2Assumption DEF Responds
  <2>2. outbound' = Append(outbound, s)
    BY <1>4, <2>1 DEF Responds, Respond
  <2>3. wire[s] = "idle"
    BY <1>1, <1>4 DEF Responds, Answered
  <2>4. s \notin ToSet(outbound)
    BY <1>1, <2>3 DEF Answered, Waiting
  <2>5. /\ Append(outbound, s) \in Seq(Streams)
        /\ \A i, j \in DOMAIN Append(outbound, s) :
             Append(outbound, s)[i] = Append(outbound, s)[j] => i = j
    BY <1>1, <2>4, WithIt
  <2> QED  BY <2>2, <2>5, Zenon
<1>5. \/ UNCHANGED outbound \/ \E s \in Streams : Ends(s)
      \/ \E s \in Streams, size \in Sizes : Responds(s, size)
  BY DEF Effect, Quiet, Regrants, Opens, Parks, Transmits, bodies
<1>6. /\ outbound' \in Seq(Streams)
      /\ \A i, j \in DOMAIN outbound' : outbound'[i] = outbound'[j] => i = j
  BY <1>2, <1>3, <1>4, <1>5
<1>7. Waiting' \subseteq Streams
  BY <1>6 DEF Waiting, ToSet
<1> QED  BY <1>6, <1>7

LEMMA FilesKept == ASSUME H2Inv, Effect PROVE FilesClosed'
<1>1. /\ FilesClosed /\ Listed /\ Belongs /\ Answered /\ reader \in Readers
      /\ outbound \in Seq(Streams)
      /\ \A i, j \in DOMAIN outbound : outbound[i] = outbound[j] => i = j
  BY DEF H2Inv, TypeOK, Listed
<1>2. CASE Quiet
  BY <1>1, <1>2 DEF Quiet, FilesClosed, Waiting
<1>3. CASE Regrants
  BY <1>1, <1>3 DEF Regrants, bodies, FilesClosed, Waiting, Undecoded
<1>4. CASE \E s \in Streams : Ends(s)
  <2>1. PICK s \in Streams : Ends(s)
    BY <1>4
  <2>2. Waiting' = Waiting \ {s} /\ files' = files \ {s} /\ reader' /= "ended"
    BY <1>1, <2>1, Forgotten DEF Ends, Forget, Undecoded
  <2> QED  BY <1>1, <2>2 DEF FilesClosed
<1>5. CASE \E s \in Streams : Opens(s) \/ Parks(s)
  BY <1>1, <1>5 DEF Opens, Parks, bodies, FilesClosed, Waiting, Undecoded
<1>6. CASE \E s \in Streams, size \in Sizes : Responds(s, size)
  <2>1. PICK s \in Streams, size \in Sizes : Responds(s, size)
    BY <1>6
  <2>2. size \in Nat /\ size /= 0
    BY <2>1, H2Assumption DEF Responds
  <2>3. outbound' = Append(outbound, s) /\ files' \in {files, files \cup {s}} /\ reader' /= "ended"
    BY <2>1, <2>2 DEF Responds, Respond, Undecoded
  <2>4. Waiting' = Waiting \cup {s}
    BY <1>1, <2>3, WithIt DEF Waiting
  <2> QED  BY <1>1, <2>3, <2>4 DEF FilesClosed
<1>7. CASE \E s \in Streams, n \in Nat : Transmits(s, n)
  BY <1>1, <1>7 DEF Transmits, FilesClosed, Waiting, Undecoded
<1> QED  BY <1>2, <1>3, <1>4, <1>5, <1>6, <1>7 DEF Effect

LEMMA CapKept ==
  ASSUME H2Inv, Effect PROVE active' \subseteq Streams /\ Cardinality(active') <= MaxStreams
<1>1. /\ active \subseteq Streams /\ Cardinality(active) <= MaxStreams /\ IsFiniteSet(active)
      /\ Cardinality(active) \in Nat /\ MaxStreams \in Nat
  BY H2Assumption, FS_Subset, FS_CardinalityType DEF H2Inv, TypeOK
<1>2. CASE active' \subseteq active
  <2>1. Cardinality(active') <= Cardinality(active) /\ Cardinality(active') \in Nat
    BY <1>1, <1>2, FS_Subset, FS_CardinalityType
  <2> QED  BY <1>1, <1>2, <2>1
<1>3. CASE \E s \in Streams : Opens(s)
  <2>1. PICK s \in Streams : Opens(s)
    BY <1>3
  <2>2. active' = active \cup {s} /\ ~(Cardinality(active) >= MaxStreams)
    BY <2>1 DEF Opens, Refused
  <2>3. Cardinality(active') <= Cardinality(active) + 1
    <3>1. CASE s \in active
      <4>1. active' = active
        BY <2>2, <3>1
      <4> QED  BY <1>1, <4>1
    <3>2. CASE s \notin active
      <4>1. Cardinality(active \cup {s}) = Cardinality(active) + 1
        BY <1>1, <3>2, FS_AddElement
      <4> QED  BY <1>1, <2>2, <4>1
    <3> QED  BY <3>1, <3>2
  <2>4. Cardinality(active') \in Nat
    BY <1>1, <2>2, FS_AddElement, FS_CardinalityType
  <2> QED  BY <1>1, <2>2, <2>3, <2>4
<1>4. active' \subseteq active \/ \E s \in Streams : Opens(s)
  <2>1. CASE Quiet \/ Regrants
    BY <2>1 DEF Quiet, Regrants, admission
  <2>2. CASE \E s \in Streams : Ends(s) \/ Parks(s)
    BY <2>2 DEF Ends, Forget, Parks, admission
  <2>3. CASE \E s \in Streams, size \in Sizes : Responds(s, size)
    <3>1. PICK s \in Streams, size \in Sizes : Responds(s, size)
      BY <2>3
    <3>2. size \in Nat /\ size /= 0
      BY <3>1, H2Assumption DEF Responds
    <3> QED  BY <3>1, <3>2 DEF Responds, Respond
  <2>4. CASE \E s \in Streams, n \in Nat : Transmits(s, n)
    BY <2>4 DEF Transmits, admission
  <2> QED  BY <2>1, <2>2, <2>3, <2>4 DEF Effect
<1> QED  BY <1>2, <1>3, <1>4

\* What a frame can do to the windows.
Rebased(value) ==
  LET delta == value - peerWindow
  IN /\ \A s \in DOMAIN windows : windows[s] + delta <= MaxWindow
     /\ windows' = Shifted(windows, delta) /\ peerWindow' = value /\ connWindow' = connWindow
     /\ credit' = [s \in Streams |-> IF s \in active THEN credit[s] + delta ELSE credit[s]]

Widened(s, n) ==
  /\ StreamWindow(s) + n <= MaxWindow
  /\ windows' = [o \in DOMAIN windows \cup {s} |-> IF o = s THEN StreamWindow(s) + n ELSE windows[o]]
  /\ credit' = [credit EXCEPT ![s] = @ + n]
  /\ UNCHANGED <<peerWindow, connWindow>>

LEMMA RegrantCases ==
  ASSUME TypeOK, Regrants
  PROVE  \/ connWindow' \in 0 .. MaxWindow /\ UNCHANGED <<windows, peerWindow, credit>>
         \/ \E value \in 0 .. MaxWindow : Rebased(value)
         \/ \E s \in active, n \in 1 .. MaxWindow : Widened(s, n)
<1>1. connWindow \in 0 .. MaxWindow /\ MaxWindow \in Nat /\ active \subseteq Streams
  BY H2Assumption DEF TypeOK
<1>2. CASE UNCHANGED flow
  BY <1>1, <1>2 DEF flow
<1>3. ASSUME NEW value \in -1 .. (MaxWindow + 1), Settings(value), ~UNCHANGED flow
      PROVE  (value \in 0 .. MaxWindow /\ Rebased(value)) \/ UNCHANGED <<windows, peerWindow, credit, connWindow>>
  <2> DEFINE delta == value - peerWindow
             fits == \A s \in DOMAIN windows : windows[s] + delta <= MaxWindow
  <2>1. \/ /\ ~(~Allowed \/ (value >= 0 /\ (value > MaxWindow \/ ~fits))) /\ connWindow' = connWindow
           /\ IF value < 0 THEN UNCHANGED <<windows, peerWindow, credit>>
              ELSE /\ windows' = Shifted(windows, delta)
                   /\ peerWindow' = value
                   /\ credit' = [s \in Streams |->
                                   IF s \in active THEN credit[s] + delta ELSE credit[s]]
    BY <1>3 DEF Settings
  <2>2. CASE value < 0
    BY <2>1, <2>2
  <2>3. CASE value >= 0
    <3>1. value \in 0 .. MaxWindow /\ fits
      BY <1>1, <2>1, <2>3
    <3>2. ~(value < 0)
      BY <2>3
    <3> QED  BY <2>1, <3>1, <3>2 DEF Rebased
  <2> QED  BY <1>1, <2>2, <2>3
<1>4. ASSUME NEW s \in Streams \cup {0}, NEW n \in 1 .. MaxWindow, WindowUpdate(s, n), ~UNCHANGED flow
      PROVE  \/ connWindow' \in 0 .. MaxWindow /\ UNCHANGED <<windows, peerWindow, credit>>
             \/ s \in active /\ Widened(s, n)
  <2>1. CASE s = 0
    <3>1. /\ ~(connWindow + n > MaxWindow) /\ connWindow' = connWindow + n
          /\ UNCHANGED <<windows, peerWindow, credit>>
      BY <1>4, <2>1 DEF WindowUpdate
    <3> QED  BY <1>1, <3>1
  <2>2. CASE s /= 0
    <3>1. StreamWindow(s) \in Int
      BY <1>1, StreamWindowTyped
    <3>2. s \in active /\ ~(StreamWindow(s) + n > MaxWindow)
      BY <1>4, <2>2 DEF WindowUpdate
    <3>3. StreamWindow(s) + n <= MaxWindow
      BY <1>1, <3>1, <3>2
    <3> QED  BY <1>4, <2>2, <3>2, <3>3 DEF WindowUpdate, Widened
  <2> QED  BY <2>1, <2>2
<1> QED  BY <1>1, <1>2, <1>3, <1>4 DEF Regrants

LEMMA WindowsKept ==
  ASSUME H2Inv, Effect
  PROVE  /\ peerWindow' \in 0 .. MaxWindow /\ connWindow' \in 0 .. MaxWindow
         /\ \A s \in DOMAIN windows' :
              windows'[s] \in -MaxWindow .. MaxWindow /\ windows'[s] >= peerWindow' - MaxWindow
<1>1. /\ MaxWindow \in Nat /\ peerWindow \in 0 .. MaxWindow /\ connWindow \in 0 .. MaxWindow
      /\ \A s \in DOMAIN windows :
           windows[s] \in -MaxWindow .. MaxWindow /\ windows[s] >= peerWindow - MaxWindow
      /\ Listed /\ Belongs /\ TypeOK
  BY H2Assumption DEF H2Inv, TypeOK, WindowsBounded
<1>2. \A s : StreamWindow(s) \in -MaxWindow .. MaxWindow /\ StreamWindow(s) >= peerWindow - MaxWindow
  BY <1>1 DEF StreamWindow
<1> DEFINE Goal == /\ peerWindow' \in 0 .. MaxWindow /\ connWindow' \in 0 .. MaxWindow
                   /\ \A s \in DOMAIN windows' :
                        windows'[s] \in -MaxWindow .. MaxWindow /\ windows'[s] >= peerWindow' - MaxWindow
<1>3. ASSUME UNCHANGED <<windows, peerWindow>>, connWindow' \in 0 .. MaxWindow PROVE Goal
  <2>1. windows' = windows /\ peerWindow' = peerWindow
    BY <1>3
  <2> QED  BY <1>1, <1>3, <2>1
<1>4. ASSUME NEW value \in 0 .. MaxWindow, Rebased(value) PROVE Goal
  <2>1. /\ DOMAIN windows' = DOMAIN windows /\ peerWindow' = value /\ connWindow' = connWindow
        /\ \A s \in DOMAIN windows : windows'[s] = windows[s] + (value - peerWindow)
        /\ \A s \in DOMAIN windows : windows[s] + (value - peerWindow) <= MaxWindow
    BY <1>4 DEF Rebased, Shifted
  <2> QED  BY <1>1, <2>1
<1>5. ASSUME NEW s \in active, NEW n \in 1 .. MaxWindow, Widened(s, n) PROVE Goal
  <2>1. /\ DOMAIN windows' = DOMAIN windows \cup {s} /\ UNCHANGED <<peerWindow, connWindow>>
        /\ windows'[s] = StreamWindow(s) + n /\ StreamWindow(s) + n <= MaxWindow
        /\ \A o \in DOMAIN windows' : o /= s => o \in DOMAIN windows /\ windows'[o] = windows[o]
    BY <1>5 DEF Widened
  <2>2. windows'[s] \in -MaxWindow .. MaxWindow /\ windows'[s] >= peerWindow - MaxWindow
    BY <1>1, <1>2, <2>1
  <2>3. \A o \in DOMAIN windows' : o /= s =>
          windows'[o] \in -MaxWindow .. MaxWindow /\ windows'[o] >= peerWindow - MaxWindow
    BY <1>1, <2>1
  <2> QED  BY <1>1, <2>1, <2>2, <2>3
<1>6. ASSUME NEW s \in Streams, Ends(s) PROVE Goal
  <2>1. /\ DOMAIN windows' = DOMAIN windows \ {s} /\ \A o \in DOMAIN windows' : windows'[o] = windows[o]
        /\ peerWindow' = peerWindow /\ connWindow' \in 0 .. connWindow
    BY <1>1, <1>6, Forgotten DEF Ends
  <2> QED  BY <1>1, <2>1
<1>7. ASSUME NEW s \in Streams, NEW size \in Sizes, Responds(s, size) PROVE Goal
  <2>1. size \in Nat /\ size /= 0
    BY <1>7, H2Assumption DEF Responds
  <2>2. /\ windows' = [o \in DOMAIN windows \cup {s} |-> StreamWindow(o)]
        /\ peerWindow' = peerWindow /\ connWindow' = connWindow
    BY <1>7, <2>1 DEF Responds, Respond
  <2> QED  BY <1>1, <1>2, <2>2
<1>8. ASSUME NEW s \in Streams, NEW n \in Nat, Transmits(s, n) PROVE Goal
  <2>1. /\ peerWindow' = peerWindow /\ connWindow' = connWindow - n /\ n \in 1 .. connWindow
        /\ n <= StreamWindow(s) /\ windows' = [windows EXCEPT ![s] = @ - n] /\ n < left[s]
    BY <1>8 DEF Transmits
  <2>2. s \in DOMAIN windows
    <3>1. left[s] > 0
      BY <2>1 DEF H2Inv, TypeOK
    <3> QED  BY <1>1, <3>1 DEF Belongs
  <2>3. windows'[s] = windows[s] - n /\ n <= windows[s]
    BY <2>1, <2>2 DEF StreamWindow
  <2>4. windows'[s] \in -MaxWindow .. MaxWindow /\ windows'[s] >= peerWindow - MaxWindow
    <3>1. windows'[s] \in 0 .. MaxWindow
      BY <1>1, <2>2, <2>3
    <3> QED  BY <1>1, <3>1
  <2>5. \A o \in DOMAIN windows' : o /= s => o \in DOMAIN windows /\ windows'[o] = windows[o]
    BY <2>1
  <2>6. connWindow' \in 0 .. MaxWindow
    BY <1>1, <2>1
  <2> QED  BY <1>1, <2>1, <2>4, <2>5, <2>6
<1>9. CASE Quiet \/ \E s \in Streams : Opens(s) \/ Parks(s)
  <2>1. UNCHANGED <<windows, peerWindow>> /\ connWindow' = connWindow
    BY <1>9 DEF Quiet, Opens, Parks, flow
  <2> QED  BY <1>1, <1>3, <2>1
<1>10. CASE Regrants
  BY <1>1, <1>3, <1>4, <1>5, <1>10, RegrantCases
<1> QED  BY <1>6, <1>7, <1>8, <1>9, <1>10 DEF Effect

LEMMA CreditKept == ASSUME H2Inv, Effect, fault => fault' PROVE CreditAgrees'
<1>1. /\ credit \in [Streams -> Int] /\ active \subseteq Streams /\ peerWindow \in Int /\ TypeOK
      /\ Listed /\ Belongs /\ \A s : StreamWindow(s) \in Int
  <2>1. \A s : StreamWindow(s) \in Int
    BY StreamWindowTyped, H2Assumption DEF H2Inv
  <2> QED  BY <2>1 DEF H2Inv, TypeOK, CreditAgrees
<1>2. ~fault' => \A s \in active : credit[s] = StreamWindow(s)
  BY DEF H2Inv, CreditAgrees
<1> DEFINE Goal == /\ credit' \in [Streams -> Int]
                   /\ ~fault' => \A s \in active' : credit'[s] = StreamWindow(s)'
<1>3. CASE UNCHANGED <<windows, peerWindow, credit, active>>
  <2>1. \A s : StreamWindow(s)' = StreamWindow(s)
    BY <1>3 DEF StreamWindow
  <2> QED  BY <1>1, <1>2, <1>3, <2>1 DEF CreditAgrees
<1>4. ASSUME NEW value \in 0 .. MaxWindow, Rebased(value), UNCHANGED active PROVE Goal
  <2> DEFINE delta == value - peerWindow
  <2>1. /\ DOMAIN windows' = DOMAIN windows /\ peerWindow' = value
        /\ \A s \in DOMAIN windows : windows'[s] = windows[s] + delta
        /\ credit' = [s \in Streams |-> IF s \in active THEN credit[s] + delta ELSE credit[s]]
    BY <1>4 DEF Rebased, Shifted
  <2>2. delta \in Int /\ value = peerWindow + delta
    BY <1>1
  <2>3. \A s : StreamWindow(s)' = StreamWindow(s) + delta
    BY <2>1, <2>2 DEF StreamWindow
  <2> HIDE DEF delta
  <2>4. credit' \in [Streams -> Int]
    BY <1>1, <2>1, <2>2
  <2>5. ~fault' => \A s \in active' : credit'[s] = StreamWindow(s)'
    BY <1>1, <1>2, <1>4, <2>1, <2>3
  <2> QED  BY <2>4, <2>5
<1>5. ASSUME NEW s \in active, NEW n \in 1 .. MaxWindow, Widened(s, n), UNCHANGED active PROVE Goal
  <2>1. /\ DOMAIN windows' = DOMAIN windows \cup {s} /\ peerWindow' = peerWindow
        /\ windows'[s] = StreamWindow(s) + n /\ credit' = [credit EXCEPT ![s] = @ + n]
        /\ \A o \in DOMAIN windows : o /= s => windows'[o] = windows[o]
    BY <1>5 DEF Widened
  <2>2. StreamWindow(s)' = StreamWindow(s) + n /\ \A o : o /= s => StreamWindow(o)' = StreamWindow(o)
    BY <2>1 DEF StreamWindow
  <2>3. credit' \in [Streams -> Int] /\ credit'[s] = credit[s] + n
    BY <1>1, <2>1
  <2>4. \A o \in active : o /= s => credit'[o] = credit[o]
    BY <1>1, <2>1
  <2>5. ~fault' => \A o \in active' : credit'[o] = StreamWindow(o)'
    BY <1>1, <1>2, <1>5, <2>2, <2>3, <2>4
  <2> QED  BY <2>3, <2>5
<1>6. ASSUME NEW s \in Streams, Ends(s) PROVE Goal
  <2>1. /\ active' = active \ {s} /\ credit' = [credit EXCEPT ![s] = 0] /\ peerWindow' = peerWindow
        /\ DOMAIN windows' = DOMAIN windows \ {s} /\ \A o \in DOMAIN windows' : windows'[o] = windows[o]
    BY <1>1, <1>6, Forgotten DEF Ends, Forget
  <2>2. \A o : o /= s => StreamWindow(o)' = StreamWindow(o)
    BY <2>1 DEF StreamWindow
  <2> QED  BY <1>1, <1>2, <2>1, <2>2
<1>7. ASSUME NEW s \in Streams, Opens(s) PROVE Goal
  <2>1. /\ active' = active \cup {s} /\ credit' = [credit EXCEPT ![s] = peerWindow]
        /\ UNCHANGED <<peerWindow, windows>> /\ s > lastClient
    BY <1>7 DEF Opens
  <2>2. s \notin DOMAIN windows
    <3>1. \A o \in DOMAIN windows : o <= lastClient
      BY <1>1 DEF Belongs
    <3>2. s \in Int /\ lastClient \in Int
      BY <1>1, StreamNumbers DEF TypeOK
    <3> QED  BY <2>1, <3>1, <3>2
  <2>3. \A o : StreamWindow(o)' = StreamWindow(o)
    BY <2>1 DEF StreamWindow
  <2>4. StreamWindow(s) = peerWindow
    BY <2>2 DEF StreamWindow
  <2> QED  BY <1>1, <1>2, <2>1, <2>3, <2>4
<1>8. ASSUME NEW s \in Streams, NEW size \in Sizes, Responds(s, size) PROVE Goal
  <2>1. size \in Nat /\ size /= 0
    BY <1>8, H2Assumption DEF Responds
  <2>2. /\ windows' = [o \in DOMAIN windows \cup {s} |-> StreamWindow(o)]
        /\ UNCHANGED <<peerWindow, active, credit>>
    BY <1>8, <2>1 DEF Responds, Respond
  <2>3. \A o : StreamWindow(o)' = StreamWindow(o)
    BY <2>2 DEF StreamWindow
  <2> QED  BY <1>1, <1>2, <2>2, <2>3
<1>9. ASSUME NEW s \in Streams, NEW n \in Nat, Transmits(s, n) PROVE Goal
  <2>1. /\ UNCHANGED <<peerWindow, active>> /\ windows' = [windows EXCEPT ![s] = @ - n]
        /\ credit' = [credit EXCEPT ![s] = @ - n] /\ n < left[s]
    BY <1>9 DEF Transmits, admission
  <2>2. s \in DOMAIN windows
    <3>1. left[s] > 0
      BY <2>1 DEF H2Inv, TypeOK
    <3> QED  BY <1>1, <3>1 DEF Belongs
  <2>3. StreamWindow(s)' = StreamWindow(s) - n /\ \A o : o /= s => StreamWindow(o)' = StreamWindow(o)
    BY <2>1, <2>2 DEF StreamWindow
  <2>4. credit' \in [Streams -> Int] /\ credit'[s] = credit[s] - n
    BY <1>1, <2>1
  <2>5. \A o \in active : o /= s => credit'[o] = credit[o]
    BY <1>1, <2>1
  <2>6. ~fault' => \A o \in active' : credit'[o] = StreamWindow(o)'
    BY <1>1, <1>2, <2>1, <2>3, <2>4, <2>5
  <2> QED  BY <2>4, <2>6
<1>10. CASE Regrants
  <2>1. UNCHANGED active
    BY <1>10 DEF Regrants, admission
  <2>2. CASE UNCHANGED <<windows, peerWindow, credit>>
    BY <1>3, <2>1, <2>2
  <2>3. CASE \/ \E value \in 0 .. MaxWindow : Rebased(value)
             \/ \E s \in active, n \in 1 .. MaxWindow : Widened(s, n)
    BY <1>4, <1>5, <2>1, <2>3 DEF CreditAgrees
  <2> QED  BY <1>1, <1>10, <2>2, <2>3, RegrantCases
<1>11. CASE Quiet \/ \E s \in Streams : Parks(s)
  BY <1>3, <1>11 DEF Quiet, Parks, flow, admission
<1> QED  BY <1>6, <1>7, <1>8, <1>9, <1>10, <1>11 DEF Effect, CreditAgrees

LEMMA LeftKept == ASSUME H2Inv, Effect PROVE left' \in [Streams -> Nat]
<1>1. left \in [Streams -> Nat]
  BY DEF H2Inv, TypeOK
<1>2. CASE UNCHANGED left
  BY <1>1, <1>2
<1>3. ASSUME NEW s \in Streams, NEW n \in Nat, left' = [left EXCEPT ![s] = n] PROVE left' \in [Streams -> Nat]
  BY <1>1, <1>3
<1>4. ASSUME NEW s \in Streams, NEW size \in Sizes, Responds(s, size) PROVE left' \in [Streams -> Nat]
  <2>1. size \in Nat /\ size /= 0
    BY <1>4, H2Assumption DEF Responds
  <2>2. left' = [left EXCEPT ![s] = size]
    BY <1>4, <2>1 DEF Responds, Respond
  <2> QED  BY <1>3, <2>1, <2>2
<1>5. ASSUME NEW s \in Streams, NEW n \in Nat, Transmits(s, n) PROVE left' \in [Streams -> Nat]
  <2>1. left' = [left EXCEPT ![s] = left[s] - n] /\ n < left[s]
    BY <1>5 DEF Transmits
  <2>2. left[s] - n \in Nat
    BY <1>1, <2>1
  <2> QED  BY <1>3, <2>1, <2>2
<1>6. ASSUME NEW s \in Streams, Ends(s) PROVE left' \in [Streams -> Nat]
  BY <1>3, <1>6 DEF Ends, Forget
<1>7. UNCHANGED left \/ (\E s \in Streams : Ends(s))
      \/ (\E s \in Streams, size \in Sizes : Responds(s, size))
      \/ (\E s \in Streams, n \in Nat : Transmits(s, n))
  BY DEF Effect, Quiet, Regrants, Opens, Parks, bodies
<1> QED  BY <1>2, <1>4, <1>5, <1>6, <1>7

-----------------------------------------------------------------------------
(* The loop, its budgets and the drain                                     *)

\* The connection stops once, for an error or because nothing is left.
Stops ==
  /\ running' \in BOOLEAN /\ fault' \in BOOLEAN
  /\ running' => running
  /\ fault => fault'
  /\ running /\ ~running' /\ ~fault' => active' = {}

LEMMA CompleteStops ==
  ASSUME H2Inv, NEW s \in Streams, Complete(s), UNCHANGED fault PROVE Stops
BY DEF H2Inv, TypeOK, Complete, Drained, Stops

LEMMA DispatchStops ==
  ASSUME H2Inv, NEW s \in Streams, NEW wellformed \in BOOLEAN, Dispatch(s, wellformed), UNCHANGED fault
  PROVE  Stops
<1>1. Complete(s) \/ UNCHANGED running
  <2>1. CASE wellformed
    BY <2>1 DEF Dispatch, Respond
  <2>2. CASE ~wellformed
    BY <2>2 DEF Dispatch, Reset
  <2> QED  BY <2>1, <2>2
<1>2. CASE UNCHANGED running
  BY <1>2 DEF H2Inv, TypeOK, Stops
<1> QED  BY <1>1, <1>2, CompleteStops

LEMMA Stopping == ASSUME H2Inv, Next PROVE Stops
<1>1. running \in BOOLEAN /\ fault \in BOOLEAN /\ idle \in BOOLEAN /\ (idle => active = {})
  BY DEF H2Inv, TypeOK, DrainKept
<1>2. CASE Goaway
  BY <1>1, <1>2 DEF Goaway, Stops
<1>3. CASE UNCHANGED <<running, fault>>
  BY <1>1, <1>3 DEF Stops
<1>4. CASE Preface \/ EndOfChunk \/ EndOfPass \/ Read \/ Terminated \/ Wake \/ BeginDraining
  <2>1. UNCHANGED <<running, fault>>
    BY <1>4 DEF Preface, EndOfChunk, EndOfPass, Read, Terminated, vars, Wake, BeginDraining
  <2> QED  BY <1>3, <2>1
<1>5. CASE DecodeError \/ Fail \/ Unexpected \/ ClientGoaway
  BY <1>2, <1>5 DEF DecodeError, Fail, Unexpected, ClientGoaway
<1>6. CASE EndOfFile
  BY <1>1, <1>6 DEF EndOfFile, Stops
<1>7. CASE SendGoaway
  <2>1. UNCHANGED <<fault, active>> /\ (running' = (running /\ ~idle) \/ running' = running)
    BY <1>7 DEF SendGoaway, admission
  <2>2. CASE running' = (running /\ ~idle)
    BY <1>1, <2>1, <2>2 DEF Stops
  <2>3. CASE running' = running
    BY <1>1, <2>1, <2>3 DEF Stops
  <2> QED  BY <2>1, <2>2, <2>3
<1>8. CASE \E value \in -1 .. (MaxWindow + 1) : Settings(value)
  <2>1. Goaway \/ UNCHANGED <<running, fault>>
    BY <1>8 DEF Settings
  <2> QED  BY <1>2, <1>3, <2>1
<1>9. CASE \E s \in Streams \cup {0}, n \in 1 .. MaxWindow : WindowUpdate(s, n)
  <2>1. Goaway \/ UNCHANGED <<running, fault>>
    BY <1>9 DEF WindowUpdate
  <2> QED  BY <1>2, <1>3, <2>1
<1>10. ASSUME NEW s \in Streams, RstStream(s) PROVE Stops
  <2>1. Goaway \/ (Complete(s) /\ UNCHANGED fault)
    BY <1>10 DEF RstStream
  <2> QED  BY <1>2, <2>1, CompleteStops
<1>11. ASSUME NEW s \in Streams, NEW end \in BOOLEAN, Data(s, end) PROVE Stops
  <2>1. \/ Goaway
        \/ Reset(s) /\ UNCHANGED fault
        \/ UNCHANGED <<running, fault>>
        \/ UNCHANGED fault /\ \E wellformed \in BOOLEAN : Dispatch(s, wellformed)
    BY <1>11 DEF Data
  <2> QED  BY <1>2, <1>3, <2>1, CompleteStops, DispatchStops DEF Reset
<1>12. ASSUME NEW s \in Streams, NEW endHeaders \in BOOLEAN, ContinuationFrame(s, endHeaders) PROVE Stops
  <2>1. Goaway \/ UNCHANGED <<running, fault>>
    BY <1>12 DEF ContinuationFrame, Extend
  <2> QED  BY <1>2, <1>3, <2>1
<1>13. ASSUME NEW s \in Streams, NEW endHeaders \in BOOLEAN, NEW end \in BOOLEAN, Headers(s, end, endHeaders)
       PROVE  Stops
  <2>1. Goaway \/ UNCHANGED <<running, fault>> \/ (Complete(s) /\ UNCHANGED fault)
    BY <1>13 DEF Headers, Extend
  <2> QED  BY <1>2, <1>3, <2>1, CompleteStops
<1>14. CASE DecodeBlock
  <2>1. UNCHANGED fault /\ assembling \in Streams
    BY <1>14 DEF DecodeBlock, H2Inv, TypeOK, Belongs
  <2>2. UNCHANGED running \/ \E wellformed \in BOOLEAN : Dispatch(assembling, wellformed)
    BY <1>14 DEF DecodeBlock
  <2> QED  BY <1>3, <2>1, <2>2, DispatchStops
<1>15. CASE SendData
  <2>1. round \in Seq(Streams) /\ round /= <<>> /\ UNCHANGED fault
    BY <1>15 DEF SendData, H2Inv, Listed
  <2>2. Head(round) \in Streams
    BY <2>1
  <2>3. UNCHANGED running \/ Complete(Head(round))
    BY <1>15 DEF SendData, Reset
  <2> QED  BY <1>3, <2>1, <2>2, <2>3, CompleteStops
<1> QED
  BY <1>4, <1>5, <1>6, <1>7, <1>8, <1>9, <1>10, <1>11, <1>12, <1>13, <1>14, <1>15
  DEF Next, Reader, HandleFrame, Drainer

LEMMA DrainKeptOn == ASSUME H2Inv, Next PROVE DrainKept'
<1>1. DrainKept /\ Stops /\ Effect
  BY Effects, Stopping DEF H2Inv
<1>2. \/ active' \subseteq active /\ lastAccepted' = lastAccepted
      \/ running /\ ~draining
  <2>1. CASE Quiet \/ Regrants \/ \E s \in Streams : Parks(s)
    BY <2>1 DEF Quiet, Regrants, Parks, admission
  <2>2. CASE \E s \in Streams : Ends(s)
    BY <2>2 DEF Ends, Forget
  <2>3. CASE \E s \in Streams : Opens(s)
    BY <2>3 DEF Opens, Refused
  <2>4. CASE \E s \in Streams, size \in Sizes : Responds(s, size)
    <3>1. PICK s \in Streams, size \in Sizes : Responds(s, size)
      BY <2>4
    <3>2. size \in Nat /\ size /= 0
      BY <3>1, H2Assumption DEF Responds
    <3> QED  BY <3>1, <3>2 DEF Responds, Respond
  <2>5. CASE \E s \in Streams, n \in Nat : Transmits(s, n)
    BY <2>5 DEF Transmits, admission
  <2> QED  BY <1>1, <2>1, <2>2, <2>3, <2>4, <2>5 DEF Effect
<1>3. CASE BeginDraining
  BY <1>1, <1>3 DEF BeginDraining, admission, DrainKept
<1>4. CASE ~BeginDraining
  <2>1. UNCHANGED <<draining, idle, told>>
    BY <1>4
    DEF Next, Reader, HandleFrame, Drainer, Preface, EndOfChunk, DecodeBlock, DecodeError, SendData, EndOfPass,
        Read, EndOfFile, Fail, End, Unexpected, ClientGoaway, Settings, WindowUpdate, RstStream, Data,
        ContinuationFrame, Headers, SendGoaway, Wake, Terminated, vars, Untouched, drain
  <2> QED  BY <1>1, <1>2, <2>1 DEF DrainKept, Stops
<1> QED  BY <1>3, <1>4

LEMMA InOwn == ASSUME NEW S, NEW q \in Seq(S) PROVE q \in Seq(ToSet(q)) /\ Len(q) \in Nat
<1>1. /\ Len(q) \in Nat /\ DOMAIN q = 1 .. Len(q) /\ q = [i \in 1 .. Len(q) |-> q[i]]
      /\ \A i \in 1 .. Len(q) : q[i] \in ToSet(q)
  BY DEF ToSet
<1> QED  BY <1>1

\* A frame brings at most one representation to a block.
LEMMA FragmentShort ==
  ASSUME NEW fragment \in Fragments
  PROVE  fragment \in Seq(ToSet(fragment)) /\ Len(fragment) \in 0 .. 1
<1>1. fragment = <<>> \/ \E r : fragment = <<r>>
  BY DEF Fragments
<1>2. CASE fragment = <<>>
  BY <1>2, InOwn
<1>3. CASE \E r : fragment = <<r>>
  <2>1. PICK r : fragment = <<r>>
    BY <1>3
  <2>2. <<r>> \in Seq({r}) /\ Len(<<r>>) = 1
    OBVIOUS
  <2>3. <<r>> \in Seq(ToSet(<<r>>))
    BY <2>2, InOwn, Zenon
  <2>4. Len(<<r>>) \in 0 .. 1
    BY <2>2
  <2> QED  BY <2>1, <2>3, <2>4, Zenon
<1> QED  BY <1>1, <1>2, <1>3

LEMMA BlockGrows ==
  ASSUME NEW b, b \in Seq(ToSet(b)), NEW fragment \in Fragments
  PROVE  b \o fragment \in Seq(ToSet(b \o fragment)) /\ Len(b \o fragment) \in Len(b) .. Len(b) + 1
<1> DEFINE S == ToSet(b) \cup ToSet(fragment)
<1>1. b \in Seq(S) /\ fragment \in Seq(S) /\ Len(fragment) \in 0 .. 1 /\ Len(b) \in Nat
  BY FragmentShort
<1> HIDE DEF S
<1>2. b \o fragment \in Seq(S) /\ Len(b \o fragment) = Len(b) + Len(fragment)
  BY <1>1, ConcatProperties
<1> DEFINE more == b \o fragment
<1>3. Len(more) \in Len(b) .. Len(b) + 1
  <2> DEFINE n == Len(b)
             m == Len(fragment)
             k == Len(more)
  <2>1. k = n + m /\ n \in Nat /\ m \in 0 .. 1
    BY <1>1, <1>2
  <2> HIDE DEF n, m, k
  <2>2. k \in n .. n + 1
    BY <2>1
  <2> QED  BY <2>2 DEF n, k
<1>4. b \o fragment \in Seq(ToSet(b \o fragment))
  BY <1>2, InOwn, Zenon
<1> QED  BY <1>3, <1>4

\* The budgets, and the block that one of them is about.
Budgets ==
  /\ continuations \in 0 .. (MaxContinuation + 1) /\ endStream \in BOOLEAN
  /\ block \in Seq(ToSet(block)) /\ Len(block) <= MaxBlock + 1
  /\ rstCount \in 0 .. (MaxRst + 1) /\ controlCount \in 0 .. (MaxControl + 1)
  /\ InBudget

LEMMA BudgetsKept == ASSUME H2Inv, Next PROVE Budgets'
<1>1. /\ Budgets /\ Stops /\ Len(block) \in Nat
      /\ MaxBlock \in Nat /\ MaxContinuation \in Nat /\ MaxRst \in Nat /\ MaxControl \in Nat
  BY Stopping, H2Assumption, InOwn DEF H2Inv, TypeOK, Listed, Budgets
<1>2. CASE UNCHANGED <<continuations, endStream, block, rstCount, controlCount>>
  BY <1>1, <1>2 DEF Budgets, InBudget, Stops
<1>3. CASE \E value \in -1 .. (MaxWindow + 1) : Settings(value)
  <2>1. /\ UNCHANGED <<continuations, endStream, block, rstCount>> /\ running
        /\ controlCount' = controlCount + 1 /\ (running' => controlCount < MaxControl)
    BY <1>3 DEF Settings, Goaway, Budgeted, Allowed, assembly, Handling
  <2> QED  BY <1>1, <2>1 DEF Budgets, InBudget
<1>4. ASSUME NEW s \in Streams, RstStream(s) PROVE Budgets'
  <2>1. UNCHANGED <<continuations, endStream, block, controlCount>> /\ running
    BY <1>4 DEF RstStream, assembly, budgets, Handling
  <2>2. \/ UNCHANGED rstCount
        \/ rstCount' = rstCount + 1 /\ (running' => ~(rstCount' > MaxRst))
    BY <1>4 DEF RstStream, budgets, Goaway
  <2>3. rstCount \in 0 .. MaxRst
    BY <1>1, <2>1 DEF Budgets, InBudget
  <2> QED  BY <1>1, <2>1, <2>2, <2>3 DEF Budgets, InBudget
<1>5. ASSUME NEW s \in Streams, NEW end \in BOOLEAN, NEW endHeaders \in BOOLEAN, Headers(s, end, endHeaders)
      PROVE  Budgets'
  <2>1. UNCHANGED <<rstCount, controlCount>> /\ running
    BY <1>5 DEF Headers, budgets, Handling
  <2>2. CASE UNCHANGED <<continuations, endStream, block>>
    BY <1>2, <2>1, <2>2
  <2>3. CASE ~UNCHANGED <<continuations, endStream, block>>
    <3>1. PICK fragment \in Fragments :
            continuations' = 0 /\ endStream' = end /\ Extend(s, fragment, endHeaders)
      BY <1>5, <2>3 DEF Headers, assembly
    <3>2. fragment \in Seq(ToSet(fragment)) /\ Len(fragment) \in 0 .. 1
      BY FragmentShort
    <3>3. block' = fragment /\ (running' => ~(Len(fragment) > MaxBlock))
      BY <3>1 DEF Extend, Goaway
    <3> QED  BY <1>1, <2>1, <3>1, <3>2, <3>3 DEF Budgets, InBudget
  <2> QED  BY <2>2, <2>3
<1>6. ASSUME NEW s \in Streams, NEW endHeaders \in BOOLEAN, ContinuationFrame(s, endHeaders) PROVE Budgets'
  <2>1. UNCHANGED <<rstCount, controlCount, endStream>> /\ running /\ continuations' = continuations + 1
    BY <1>6 DEF ContinuationFrame, budgets, Handling
  <2>2. PICK fragment \in Fragments :
          IF s /= assembling \/ continuations' > MaxContinuation
            THEN Goaway /\ UNCHANGED <<reader, assembling, block, asked>>
            ELSE Extend(s, block \o fragment, endHeaders)
    BY <1>6 DEF ContinuationFrame
  <2>3. continuations' \in 0 .. (MaxContinuation + 1) /\ Len(block) \in 0 .. MaxBlock
    BY <1>1, <2>1 DEF Budgets, InBudget
  <2>4. CASE s /= assembling \/ continuations' > MaxContinuation
    <3>1. ~running' /\ UNCHANGED block
      BY <2>2, <2>4 DEF Goaway
    <3> QED  BY <1>1, <2>1, <2>3, <3>1 DEF Budgets, InBudget
  <2>5. CASE ~(s /= assembling \/ continuations' > MaxContinuation)
    <3> DEFINE more == block \o fragment
    <3>1. more \in Seq(ToSet(more)) /\ Len(more) \in Len(block) .. Len(block) + 1
      BY <1>1, BlockGrows DEF Budgets
    <3> HIDE DEF more
    <3>2. block' = more /\ (running' => ~(Len(more) > MaxBlock))
      BY <2>2, <2>5 DEF Extend, Goaway, more
    <3>3. Len(more) \in 0 .. MaxBlock + 1 /\ (running' => Len(more) <= MaxBlock)
      BY <1>1, <2>3, <3>1, <3>2
    <3>4. continuations' <= MaxContinuation
      BY <1>1, <2>3, <2>5
    <3> QED  BY <1>1, <2>1, <2>3, <3>1, <3>2, <3>3, <3>4 DEF Budgets, InBudget
  <2> QED  BY <2>4, <2>5
<1>7. CASE DecodeBlock
  <2>1. /\ rstCount' = rstCount /\ controlCount' = controlCount
        /\ block' = <<>> /\ endStream' = FALSE /\ continuations' = 0
    BY <1>7 DEF DecodeBlock, budgets
  <2>2. block' \in Seq(ToSet(block')) /\ Len(block') = 0
    <3>1. <<>> \in Seq(Streams) /\ Len(<<>>) = 0
      OBVIOUS
    <3>2. <<>> \in Seq(ToSet(<<>>))
      BY <3>1, InOwn, Zenon
    <3> QED  BY <2>1, <3>1, <3>2, Zenon
  <2>3. running' => /\ running /\ continuations' <= MaxContinuation /\ Len(block') <= MaxBlock
                    /\ controlCount' <= MaxControl /\ rstCount' <= MaxRst
    BY <1>1, <2>1, <2>2 DEF Budgets, InBudget, Stops
  <2>4. InBudget'
    BY <2>3 DEF InBudget
  <2> HIDE DEF InBudget
  <2>5. /\ continuations' \in 0 .. (MaxContinuation + 1) /\ endStream' \in BOOLEAN
        /\ rstCount' \in 0 .. (MaxRst + 1) /\ controlCount' \in 0 .. (MaxControl + 1)
        /\ Len(block') <= MaxBlock + 1
    <3>1. Len(block') <= MaxBlock + 1
      BY <1>1, <2>2
    <3>2. continuations' \in 0 .. (MaxContinuation + 1) /\ endStream' \in BOOLEAN
      <4>1. 0 \in 0 .. (MaxContinuation + 1)
        BY <1>1
      <4> QED  BY <2>1, <4>1
    <3>3. rstCount' \in 0 .. (MaxRst + 1) /\ controlCount' \in 0 .. (MaxControl + 1)
      BY <1>1, <2>1 DEF Budgets
    <3> QED  BY <3>1, <3>2, <3>3
  <2> QED  BY <2>2, <2>4, <2>5 DEF Budgets
<1>8. \/ UNCHANGED <<continuations, endStream, block, rstCount, controlCount>>
      \/ DecodeBlock
      \/ \E value \in -1 .. (MaxWindow + 1) : Settings(value)
      \/ \E s \in Streams : RstStream(s)
      \/ \E s \in Streams, endHeaders \in BOOLEAN : ContinuationFrame(s, endHeaders)
      \/ \E s \in Streams, endHeaders \in BOOLEAN, end \in BOOLEAN : Headers(s, end, endHeaders)
  BY DEF Next, Reader, HandleFrame, Drainer, Preface, EndOfChunk, DecodeError, SendData, EndOfPass, Read,
         EndOfFile, Fail, End, Unexpected, ClientGoaway, WindowUpdate, Data, BeginDraining, SendGoaway, Wake,
         Terminated, vars, assembly, budgets
<1> QED  BY <1>2, <1>3, <1>4, <1>5, <1>6, <1>7, <1>8

LEMMA RoundKept == ASSUME H2Inv, Next PROVE round' \in Seq(Streams)
<1>1. round \in Seq(Streams) /\ outbound \in Seq(Streams)
  BY DEF H2Inv, Listed
<1>2. \/ round' = round \/ round' = outbound \/ round' = <<>>
      \/ round /= <<>> /\ round' = Tail(round)
  BY DEF Next, Reader, HandleFrame, Drainer, Preface, EndOfChunk, DecodeBlock, DecodeError, SendData, EndOfPass,
         Read, EndOfFile, Fail, End, Unexpected, ClientGoaway, Settings, WindowUpdate, RstStream, Data,
         ContinuationFrame, Headers, BeginDraining, SendGoaway, Wake, Terminated, vars, Untouched, flushing
<1>3. CASE round /= <<>> /\ round' = Tail(round)
  <2>1. Tail(round) \in Seq(Streams)
    BY <1>1, <1>3
  <2> QED  BY <1>3, <2>1
<1>4. <<>> \in Seq(Streams)
  OBVIOUS
<1> QED  BY <1>1, <1>2, <1>3, <1>4

\* The loop itself.
LoopTyped ==
  /\ reader \in Readers /\ woken \in BOOLEAN /\ draining \in BOOLEAN /\ idle \in BOOLEAN
  /\ skipped \in BOOLEAN /\ progress \in BOOLEAN
  /\ drainer \in {"off", "goaway", "wake", "done", "failed"} /\ told \in Streams \cup {0, NotTold}

LEMMA LoopTypedKept == ASSUME H2Inv, Next PROVE LoopTyped'
<1>1. LoopTyped /\ lastAccepted \in Streams \cup {0}
  BY DEF H2Inv, TypeOK, LoopTyped
<1>2. CASE BeginDraining
  BY <1>1, <1>2 DEF BeginDraining, LoopTyped, codec, flushing
<1>3. CASE SendGoaway \/ Wake
  BY <1>1, <1>3 DEF SendGoaway, Wake, LoopTyped, codec, flushing
<1>4. CASE ~Drainer
  <2>1. UNCHANGED drain
    BY <1>4
    DEF Next, Reader, HandleFrame, Drainer, Preface, EndOfChunk, DecodeBlock, DecodeError, SendData, EndOfPass,
        Read, EndOfFile, Fail, End, Unexpected, ClientGoaway, Settings, WindowUpdate, RstStream, Data,
        ContinuationFrame, Headers, Terminated, vars, Untouched
  <2>2. \/ UNCHANGED progress \/ progress' \in BOOLEAN
    BY <1>4
    DEF Next, Reader, HandleFrame, Drainer, Preface, EndOfChunk, DecodeBlock, DecodeError, SendData, EndOfPass,
        Read, EndOfFile, Fail, End, Unexpected, ClientGoaway, Settings, WindowUpdate, RstStream, Data,
        ContinuationFrame, Headers, Terminated, vars, Untouched, flushing
  <2>3. \/ UNCHANGED skipped \/ skipped' = TRUE
    BY <1>4
    DEF Next, Reader, HandleFrame, Drainer, Preface, EndOfChunk, DecodeBlock, DecodeError, SendData, EndOfPass,
        Read, EndOfFile, Fail, End, Unexpected, ClientGoaway, Settings, WindowUpdate, RstStream, Data,
        ContinuationFrame, Headers, Terminated, vars, codec
  <2>4. \/ UNCHANGED reader
        \/ reader' \in {"reading", "handling", "decoding", "flushing", "ended"}
    <3>1. ASSUME NEW s \in Streams, NEW endHeaders \in BOOLEAN, NEW end \in BOOLEAN,
                 Headers(s, end, endHeaders) \/ ContinuationFrame(s, endHeaders)
          PROVE  UNCHANGED reader \/ reader' = "decoding"
      BY <3>1 DEF Headers, ContinuationFrame, Extend
    <3>2. ASSUME NEW s \in Streams, NEW end \in BOOLEAN, RstStream(s) \/ Data(s, end)
          PROVE  UNCHANGED reader
      BY <3>2 DEF RstStream, Data
    <3>3. CASE HandleFrame
      BY <3>1, <3>2, <3>3 DEF HandleFrame, Unexpected, ClientGoaway, Settings, WindowUpdate, Handling
    <3>4. CASE ~HandleFrame
      BY <1>4, <3>4
      DEF Next, Reader, Preface, EndOfChunk, DecodeBlock, DecodeError, SendData, EndOfPass, Read, EndOfFile, Fail,
          End, Terminated, vars
    <3> QED  BY <3>3, <3>4
  <2>5. reader' \in Readers
    BY <1>1, <2>4 DEF Readers, LoopTyped
  <2> QED  BY <1>1, <2>1, <2>2, <2>3, <2>5 DEF LoopTyped, drain
<1> QED  BY <1>2, <1>3, <1>4 DEF Drainer

LEMMA NumbersKept ==
  ASSUME H2Inv, Effect
  PROVE  /\ lastClient' \in Streams \cup {0} /\ lastAccepted' \in Streams \cup {0}
         /\ assembling' \in Streams \cup {NoStream}
         /\ wire' \in [Streams -> {"idle", "open", "done", "reset", "broken"}]
<1>1. /\ lastClient \in Streams \cup {0} /\ lastAccepted \in Streams \cup {0}
      /\ assembling \in Streams \cup {NoStream}
      /\ wire \in [Streams -> {"idle", "open", "done", "reset", "broken"}]
  BY DEF H2Inv, TypeOK
<1>2. CASE Quiet \/ Regrants
  BY <1>1, <1>2 DEF Quiet, Regrants, admission
<1>3. CASE \E s \in Streams : Ends(s)
  <2>1. PICK s \in Streams : Ends(s)
    BY <1>3
  <2>2. wire' = [wire EXCEPT ![s] = wire'[s]] /\ wire'[s] \in {"done", "reset"}
    BY <2>1 DEF Ends
  <2>3. wire' \in [Streams -> {"idle", "open", "done", "reset", "broken"}]
    <3> DEFINE v == wire'[s]
    <3>1. wire' = [wire EXCEPT ![s] = v] /\ v \in {"idle", "open", "done", "reset", "broken"}
      BY <2>2
    <3> HIDE DEF v
    <3> QED  BY <1>1, <3>1
  <2> QED  BY <1>1, <2>1, <2>3 DEF Ends
<1>4. CASE \E s \in Streams : Opens(s) \/ Parks(s)
  BY <1>1, <1>4 DEF Opens, Parks, admission
<1>5. CASE \E s \in Streams, size \in Sizes : Responds(s, size)
  <2>1. PICK s \in Streams, size \in Sizes : Responds(s, size)
    BY <1>5
  <2>2. /\ UNCHANGED <<lastClient, lastAccepted>> /\ assembling' = NoStream
        /\ wire' = [wire EXCEPT ![s] = HeadersSeen(@)]
    <3>1. size \in Nat /\ size /= 0
      BY <2>1, H2Assumption DEF Responds
    <3> QED  BY <2>1, <3>1 DEF Responds, Respond
  <2> QED  BY <1>1, <2>2 DEF HeadersSeen
<1>6. CASE \E s \in Streams, n \in Nat : Transmits(s, n)
  BY <1>1, <1>6 DEF Transmits, admission, DataSeen
<1> QED  BY <1>2, <1>3, <1>4, <1>5, <1>6 DEF Effect

-----------------------------------------------------------------------------

LEMMA H2Starts == ASSUME Init PROVE H2Inv
<1>1. /\ MaxWindow \in Nat /\ InitialWindow \in 0 .. MaxWindow /\ MaxStreams \in Nat /\ MaxBlock \in Nat
      /\ MaxContinuation \in Nat /\ MaxRst \in Nat /\ MaxControl \in Nat
  BY H2Assumption
<1>2. DOMAIN windows = {} /\ outbound \in Seq(Streams) /\ round \in Seq(Streams) /\ DOMAIN outbound = {}
  BY DEF Init
<1>3. Waiting = {}
  BY <1>2 DEF Waiting, ToSet
<1>4. block \in Seq(ToSet(block)) /\ Len(block) = 0
  <2>1. <<>> \in Seq(Streams) /\ Len(<<>>) = 0
    OBVIOUS
  <2>2. <<>> \in Seq(ToSet(<<>>))
    BY <2>1, InOwn, Zenon
  <2> QED  BY <2>1, <2>2, Zenon DEF Init
<1>5. TypeOK
  <2>1. /\ reader \in Readers /\ running \in BOOLEAN /\ fault \in BOOLEAN /\ woken \in BOOLEAN
        /\ draining \in BOOLEAN /\ idle \in BOOLEAN /\ skipped \in BOOLEAN /\ progress \in BOOLEAN
        /\ endStream \in BOOLEAN
        /\ drainer \in {"off", "goaway", "wake", "done", "failed"} /\ told \in Streams \cup {0, NotTold}
    BY DEF Init, Readers
  <2>2. /\ active \subseteq Streams /\ pending \subseteq Streams /\ files \subseteq Streams
        /\ lastClient \in Streams \cup {0} /\ lastAccepted \in Streams \cup {0}
        /\ assembling \in Streams \cup {NoStream}
    BY DEF Init
  <2>3. /\ continuations \in 0 .. (MaxContinuation + 1) /\ Len(block) <= MaxBlock + 1
        /\ rstCount \in 0 .. (MaxRst + 1) /\ controlCount \in 0 .. (MaxControl + 1)
        /\ peerWindow \in 0 .. MaxWindow /\ connWindow \in 0 .. MaxWindow
    BY <1>1, <1>4 DEF Init
  <2>4. /\ left \in [Streams -> Nat]
        /\ wire \in [Streams -> {"idle", "open", "done", "reset", "broken"}]
    BY DEF Init
  <2>5. /\ DOMAIN windows \subseteq Streams /\ ToSet(outbound) \subseteq Streams
        /\ \A s \in DOMAIN windows : windows[s] \in -MaxWindow .. MaxWindow
    BY <1>2, <1>3 DEF Waiting
  <2> QED  BY <2>1, <2>2, <2>3, <2>4, <2>5 DEF TypeOK
<1>6. Listed /\ InBudget
  BY <1>1, <1>2, <1>4 DEF Init, Listed, InBudget
<1>7. Cardinality(active) <= MaxStreams
  BY <1>1, FS_EmptySet DEF Init
<1>8. Belongs /\ FilesClosed /\ Answered
  BY <1>2, <1>3, StreamNumbers DEF Init, Belongs, FilesClosed, Answered
<1>9. WindowsBounded /\ CreditAgrees /\ DrainKept
  BY <1>2 DEF Init, WindowsBounded, CreditAgrees, DrainKept, NotTold
<1> QED  BY <1>5, <1>6, <1>7, <1>8, <1>9 DEF H2Inv

LEMMA H2Step == ASSUME H2Inv, [Next]_vars PROVE H2Inv'
<1>1. CASE Next
  <2>1. Effect /\ Stops
    BY <1>1, Effects, Stopping
  <2>2. Belongs' /\ Answered' /\ FilesClosed' /\ CreditAgrees' /\ DrainKept'
    BY <1>1, <2>1, BelongsKept, AnsweredKept, FilesKept, CreditKept, DrainKeptOn DEF Stops
  <2>3. Budgets' /\ LoopTyped' /\ round' \in Seq(Streams)
    BY <1>1, BudgetsKept, LoopTypedKept, RoundKept
  <2>4. /\ active' \subseteq Streams /\ Cardinality(active') <= MaxStreams
        /\ outbound' \in Seq(Streams) /\ Waiting' \subseteq Streams
        /\ \A i, j \in DOMAIN outbound' : outbound'[i] = outbound'[j] => i = j
    BY <2>1, CapKept, OrderKept
  <2>5. Listed' /\ InBudget'
    BY <2>3, <2>4 DEF Listed, Budgets
  <2>6. WindowsBounded'
    BY <2>1, WindowsKept DEF WindowsBounded
  <2>7. TypeOK'
    <3>1. /\ peerWindow' \in 0 .. MaxWindow /\ connWindow' \in 0 .. MaxWindow
          /\ \A s \in DOMAIN windows' : windows'[s] \in -MaxWindow .. MaxWindow
      BY <2>1, WindowsKept
    <3>2. pending' \subseteq Streams /\ DOMAIN windows' \subseteq Streams /\ files' \subseteq Streams
      BY <2>2, <2>4 DEF Belongs, FilesClosed
    <3>3. left' \in [Streams -> Nat]
      BY <2>1, LeftKept
    <3>4. /\ lastClient' \in Streams \cup {0} /\ lastAccepted' \in Streams \cup {0}
          /\ assembling' \in Streams \cup {NoStream}
          /\ wire' \in [Streams -> {"idle", "open", "done", "reset", "broken"}]
      BY <2>1, NumbersKept
    <3> QED  BY <2>1, <2>3, <2>4, <3>1, <3>2, <3>3, <3>4 DEF TypeOK, Stops, Budgets, LoopTyped, Waiting
  <2> QED  BY <2>2, <2>4, <2>5, <2>6, <2>7 DEF H2Inv
<1>2. CASE UNCHANGED vars
  <2> USE <1>2 DEF vars, admission, assembly, flow, bodies, budgets, flushing, drain, codec
  <2>1. TypeOK' /\ Listed' /\ InBudget' /\ Cardinality(active') <= MaxStreams
    BY DEF H2Inv, TypeOK, Listed, InBudget
  <2>2. Belongs' /\ FilesClosed' /\ Answered'
    BY DEF H2Inv, Belongs, FilesClosed, Answered, Waiting
  <2>3. WindowsBounded' /\ CreditAgrees' /\ DrainKept'
    BY DEF H2Inv, WindowsBounded, CreditAgrees, StreamWindow, DrainKept
  <2> QED  BY <2>1, <2>2, <2>3 DEF H2Inv
<1> QED  BY <1>1, <1>2

LEMMA H2Invariant == Spec => []H2Inv
BY H2Starts, H2Step, PTL DEF Spec

\* No stream of a client takes more than its place, none leaves anything behind,
\* and each is answered once, from start to end (connection.py:293-323,
\* 411-459).
THEOREM EveryStreamAccounted == Spec => []StreamsAccounted
<1>1. H2Inv => StreamsAccounted
  <2> SUFFICES ASSUME H2Inv PROVE StreamsAccounted
    OBVIOUS
  <2>1. TypeOK /\ Cardinality(active) <= MaxStreams
    BY DEF H2Inv
  <2>2. pending \cup DOMAIN windows \cup ToSet(outbound) \subseteq active /\ assembling \in active \cup {NoStream}
    BY DEF H2Inv, Belongs, Waiting
  <2>3. files \subseteq ToSet(outbound) /\ (reader = "ended" => files = {})
    BY DEF H2Inv, FilesClosed, Waiting
  <2>4. \A s \in Streams : wire[s] /= "broken" /\ (s \in ToSet(outbound) => wire[s] \in {"open", "reset"})
    BY DEF H2Inv, Answered, Waiting
  <2> QED  BY <2>1, <2>2, <2>3, <2>4 DEF StreamsAccounted
<1> QED  BY <1>1, H2Invariant, PTL

\* While the connection is in order, each body is sent as far as the client has
\* granted and no further (connection.py:241-257, 411-442).
THEOREM GrantedIsSent == Spec => []SendsWhatIsGranted
<1>1. H2Inv => SendsWhatIsGranted
  <2> SUFFICES ASSUME H2Inv, ~fault, NEW s \in ToSet(outbound)
               PROVE  Budget(s) = Min({FrameLimit, left[s], connWindow, Max({credit[s], 0})})
    BY DEF SendsWhatIsGranted
  <2>1. s \in active
    BY DEF H2Inv, Belongs, Waiting
  <2>2. credit[s] = StreamWindow(s)
    BY <2>1 DEF H2Inv, CreditAgrees
  <2> QED  BY <2>2 DEF Budget
<1> QED  BY <1>1, H2Invariant, PTL

\* Once the last stream is announced no other is accepted, and a drain stops a
\* connection only when none is left (connection.py:141-161, 444-454).
THEOREM DrainPromises == Spec => []PromisesKept
<1>1. H2Inv => PromisesKept
  BY DEF H2Inv, DrainKept, PromisesKept
<1> QED  BY <1>1, H2Invariant, PTL
=============================================================================
