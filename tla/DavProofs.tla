------------------------------ MODULE DavProofs ------------------------------
(***************************************************************************)
(* Theorems about Dav, for all sets of requests, all trees of paths and    *)
(* any number of tokens.  The argument for the locks: what a write touches *)
(* is at or below a path that was checked, or a collection above one that  *)
(* has gone and is made again, or astray; so a lock that guards what is    *)
(* touched is related to what was checked.  For the answers: each place of *)
(* a handler knows the operation it serves, and the last call before the   *)
(* answer has made it true.                                                *)
(***************************************************************************)
EXTENDS Dav, TLAPS

-----------------------------------------------------------------------------
(* Paths                                                                   *)

Path == Seq(STRING)

LEMMA TargetsArePath == Targets \subseteq Path
  BY TargetsArePaths DEF Path

\* Covers, element by element.
LEMMA CoversElements ==
  ASSUME NEW p \in Path, NEW q \in Path
  PROVE  Covers(p, q) <=> Len(p) <= Len(q) /\ \A i \in 1..Len(p) : p[i] = q[i]
  <1>1. CASE Len(p) <= Len(q)
    <2>1. SubSeq(p, 1, Len(p)) = p
      BY DEF Path
    <2>2. /\ SubSeq(q, 1, Len(p)) \in Seq(STRING) /\ Len(SubSeq(q, 1, Len(p))) = Len(p)
          /\ \A i \in 1..Len(p) : SubSeq(q, 1, Len(p))[i] = q[i]
      BY <1>1 DEF Path
    <2>3. (\A i \in 1..Len(p) : p[i] = q[i]) => SubSeq(q, 1, Len(p)) = p
      BY <2>2 DEF Path
    <2>4. SubSeq(q, 1, Len(p)) = p => \A i \in 1..Len(p) : p[i] = q[i]
      BY <2>2
    <2> QED BY <1>1, <2>1, <2>3, <2>4 DEF Covers, IsPrefix
  <1>2. CASE ~(Len(p) <= Len(q))
    BY <1>2 DEF Covers, IsPrefix
  <1> QED BY <1>1, <1>2

LEMMA RelatedSymmetric ==
  ASSUME NEW p, NEW q PROVE Related(p, q) <=> Related(q, p)
  BY DEF Related

\* What is related to a path below p is related to p.
LEMMA RelatedBelow ==
  ASSUME NEW l \in Path, NEW p \in Path, NEW q \in Path, Covers(p, q), Related(l, q)
  PROVE  Related(l, p)
  <1>1. Len(p) <= Len(q) /\ \A i \in 1..Len(p) : p[i] = q[i]
    BY CoversElements
  <1>2. CASE Covers(q, l)
    <2>1. Len(q) <= Len(l) /\ \A i \in 1..Len(q) : q[i] = l[i]
      BY <1>2, CoversElements
    <2>2. Len(p) <= Len(l) /\ \A i \in 1..Len(p) : p[i] = l[i]
      BY <1>1, <2>1 DEF Path
    <2> QED BY <2>2, CoversElements DEF Related
  <1>3. CASE Covers(l, q)
    <2>1. Len(l) <= Len(q) /\ \A i \in 1..Len(l) : l[i] = q[i]
      BY <1>3, CoversElements
    <2>2. CASE Len(l) <= Len(p)
      <3>1. \A i \in 1..Len(l) : l[i] = p[i]
        BY <1>1, <2>1, <2>2 DEF Path
      <3> QED BY <2>2, <3>1, CoversElements DEF Related
    <2>3. CASE Len(p) <= Len(l)
      <3>1. \A i \in 1..Len(p) : p[i] = l[i]
        BY <1>1, <2>1, <2>3 DEF Path
      <3> QED BY <2>3, <3>1, CoversElements DEF Related
    <2>4. Len(l) \in Nat /\ Len(p) \in Nat
      BY DEF Path
    <2> QED BY <2>2, <2>3, <2>4
  <1> QED BY <1>2, <1>3 DEF Related

\* A transfer takes paths to paths below its destination.
LEMMA ImageBelow ==
  ASSUME NEW q \in Operations, NEW p \in Path
  PROVE  Image(q, p) \in Path /\ Covers(q.dst, Image(q, p))
  <1>1. q.src \in Path /\ q.dst \in Path
    BY TargetsArePath DEF Operations
  <1>2. Len(q.src) \in Nat
    BY <1>1 DEF Path
  <1> DEFINE x == SubSeq(p, Len(q.src) + 1, Len(p))
  <1>3. x \in Path
    BY <1>1, <1>2 DEF Path
  <1>4. /\ q.dst \o x \in Path
        /\ Len(q.dst) <= Len(q.dst \o x)
        /\ \A i \in 1..Len(q.dst) : q.dst[i] = (q.dst \o x)[i]
    <2> HIDE DEF x
    <2> QED BY <1>1, <1>3 DEF Path
  <1>5. Covers(q.dst, q.dst \o x)
    BY <1>1, <1>4, CoversElements
  <1> QED BY <1>4, <1>5 DEF Image

LEMMA CoversTransitive ==
  ASSUME NEW p \in Path, NEW q \in Path, NEW x \in Path, Covers(p, q), Covers(q, x)
  PROVE  Covers(p, x)
  <1>1. Len(p) <= Len(q) /\ \A i \in 1..Len(p) : p[i] = q[i]
    BY CoversElements
  <1>2. Len(q) <= Len(x) /\ \A i \in 1..Len(q) : q[i] = x[i]
    BY CoversElements
  <1>3. Len(p) <= Len(x) /\ \A i \in 1..Len(p) : p[i] = x[i]
    BY <1>1, <1>2 DEF Path
  <1> QED BY <1>3, CoversElements

\* A path covers what is inside it.
LEMMA CoversInside ==
  ASSUME NEW p \in Path, NEW n \in STRING
  PROVE  Append(p, n) \in Path /\ Covers(p, Append(p, n))
  <1>1. /\ Append(p, n) \in Path /\ Len(p) <= Len(Append(p, n))
        /\ \A i \in 1..Len(p) : p[i] = Append(p, n)[i]
    BY DEF Path
  <1> QED BY <1>1, CoversElements

LEMMA CoversItself ==
  ASSUME NEW p \in Path
  PROVE  Covers(p, p)
  BY CoversElements DEF Path

\* What is in the tree has a parent there, or is at the top.
LEMMA ParentFacts ==
  ASSUME NEW p \in Targets
  PROVE  /\ p \in Path /\ Len(p) \in Nat \ {0}
         /\ Len(p) = 1 => Parent(p) = NoPath
         /\ Parent(p) /= NoPath => Parent(p) \in Targets /\ Parent(p) /= p
         /\ Parent(p) \in Path /\ Len(Parent(p)) = Len(p) - 1
         /\ \A i \in 1..Len(p) - 1 : Parent(p)[i] = p[i]
  <1>1. p \in Seq(STRING) /\ (Len(p) = 1 \/ (Len(p) > 1 /\ Front(p) \in Targets))
    BY TargetsArePaths
  <1>2. Len(p) \in Nat \ {0} /\ Len(p) - 1 \in Nat /\ Len(p) - 1 <= Len(p)
    <2>1. Len(p) \in Nat
      BY <1>1
    <2>2. Len(p) = 1 \/ Len(p) > 1
      BY <1>1
    <2> QED BY <2>1, <2>2
  <1>3. /\ Front(p) \in Seq(STRING) /\ Len(Front(p)) = Len(p) - 1
        /\ \A i \in 1..Len(p) - 1 : Front(p)[i] = p[i]
    BY <1>1, <1>2 DEF Front
  <1>4. Len(p) = 1 => Front(p) = <<>>
    BY <1>3
  <1>5. Front(p) /= p
    BY <1>2, <1>3
  <1> QED BY <1>1, <1>2, <1>3, <1>4, <1>5 DEF Parent, Path, NoPath

\* A path that covers another's parent covers it too.
LEMMA CoversBelowParent ==
  ASSUME NEW p \in Targets, NEW a \in Path, Covers(a, Parent(p))
  PROVE  Covers(a, p)
  <1>1. /\ p \in Path /\ Parent(p) \in Path /\ Len(p) \in Nat \ {0} /\ Len(Parent(p)) = Len(p) - 1
        /\ \A i \in 1..Len(p) - 1 : Parent(p)[i] = p[i]
    BY ParentFacts
  <1>2. Len(a) \in Nat
    BY DEF Path
  <1> QED BY <1>1, <1>2, CoversElements

LEMMA LastName ==
  ASSUME NEW p \in Targets
  PROVE  Last(p) \in STRING
  <1>1. p \in Seq(STRING) /\ Len(p) \in 1..Len(p)
    BY ParentFacts DEF Path
  <1> QED BY <1>1 DEF Last

-----------------------------------------------------------------------------
(* The invariant                                                           *)

Types ==
  /\ tree \in [Targets -> Nodes]
  /\ lock \in [Tokens -> Targets \cup {NoPath}]
  /\ issued \in 0..MaxTokens
  /\ at \in [Requests -> Places]
  /\ req \in [Requests -> Operations \cup {None}]
  /\ todo \in [Requests -> SUBSET Targets]
  /\ foreign \in [Requests -> SUBSET Tokens]

\* A token that was not granted locks nothing.
Granted == \A k \in Tokens : Live(k) => k <= issued

\* The operations that a handler is busy with at a place.
Serves(place, op) ==
  CASE place = "locking" -> op = "lock"
    [] place = "feeding" -> op = "put"
    [] place = "clearing" -> op \in {"delete", "copy", "move"}
    [] place \in {"moving", "uprooting"} -> op = "move"
    [] place \in {"copying", "filling"} -> op \in {"copy", "move"}
    [] OTHER -> op /= "lock"

Busy(r) == at[r] \notin Resting => req[r] \in Operations /\ Serves(at[r], req[r].op)

\* What a check has found stays true of the locks it has seen.
StillAuthorized(r) ==
  /\ at[r] \in Resting \cup {"locking"} => foreign[r] = {}
  /\ \A k \in foreign[r] : k <= issued
  /\ \A k \in foreign[r] : Live(k) =>
       \A p \in LockPaths(req[r]) : ~Related(lock[k], p)

IInv ==
  /\ Types
  /\ Granted
  /\ LocksDisjoint
  /\ \A r \in Requests : Busy(r) /\ StillAuthorized(r)

LEMMA InitIInv == Init => IInv
  <1> SUFFICES ASSUME Init PROVE IInv
    OBVIOUS
  <1>1. Types
    <2>1. tree \in [Targets -> Nodes]
      BY DEF Init, Nodes
    <2>2. 0 \in 0..MaxTokens
      BY TokensAssumption
    <2> QED BY <2>1, <2>2 DEF Init, Types, Places, Resting
  <1>2. \A k \in Tokens : ~Live(k)
    BY DEF Init, Live
  <1>3. ASSUME NEW r \in Requests PROVE Busy(r) /\ StillAuthorized(r)
    BY DEF Init, Busy, StillAuthorized, Resting
  <1> QED BY <1>1, <1>2, <1>3 DEF IInv, Granted, LocksDisjoint

LEMMA OperationFacts ==
  ASSUME NEW q \in Operations
  PROVE  /\ q.src \in Targets /\ q.dst \in Targets /\ q.dst \in LockPaths(q)
         /\ q.op = "move" => q.src \in LockPaths(q)
         /\ q.op /= "copy" => q.src \in LockPaths(q)
         /\ LockPaths(q) \subseteq {q.src, q.dst}
         /\ q.op \notin {"copy", "move"} => q.src = q.dst
         /\ q.op \in Ops
         /\ LockPaths(q) \subseteq Targets
  BY DEF Operations, LockPaths

\* A node that is a file, a collection or absent has a place in the tree.
LEMMA NodeFacts ==
  /\ Absent \in Nodes /\ Collection \in Nodes /\ Whole \in Nodes /\ Short \in Nodes
  /\ \A r \in Requests : Filling(r) \in Nodes
  BY DEF Nodes

LEMMA NodesDiffer == Absent /= Whole /\ Absent /= Collection
  <1>1. Absent.kind = "absent" /\ Whole.kind = "whole" /\ Collection.kind = "collection"
    BY DEF Absent, Whole, Collection
  <1> QED BY <1>1

-----------------------------------------------------------------------------
(* Where a handler goes, and for what                                      *)

\* The request goes on, if a MOVE then below its destination.
Onward(r, place, q) ==
  /\ q \in Operations /\ q.op = req[r].op /\ q.src = req[r].src
  /\ q.dst \in Targets /\ Covers(req[r].dst, q.dst)
  /\ place \in Places \ (Resting \cup {"locking"}) /\ Serves(place, q.op)
  /\ req' = [req EXCEPT ![r] = q] /\ GoTo(r, place)
  /\ UNCHANGED foreign

\* What an action of a write does to its handler.
Turn(r) ==
  \/ Done(r, TRUE) \/ Done(r, FALSE)
  \/ \E place \in Places, q \in Operations : Onward(r, place, q)

LEMMA StayedOnward ==
  ASSUME IInv, NEW r \in Requests, at[r] \notin Resting, UNCHANGED <<req, foreign>>,
         NEW place \in Places \ (Resting \cup {"locking"}), Serves(place, req[r].op), GoTo(r, place)
  PROVE  Turn(r)
  <1>1. req[r] \in Operations
    BY DEF IInv, Busy
  <1>2. Covers(req[r].dst, req[r].dst) /\ req[r].dst \in Targets
    BY <1>1, OperationFacts, TargetsArePath, CoversItself
  <1>3. req' = [req EXCEPT ![r] = req[r]]
    BY DEF IInv, Types
  <1>4. Onward(r, place, req[r])
    BY <1>1, <1>2, <1>3 DEF Onward
  <1> QED BY <1>1, <1>4 DEF Turn

LEMMA StayedPut ==
  ASSUME IInv, NEW r \in Requests, at[r] \notin Resting \cup {"locking"}, UNCHANGED <<at, req, foreign>>
  PROVE  Turn(r)
  <1>1. at[r] \in Places /\ GoTo(r, at[r])
    BY DEF IInv, Types, GoTo
  <1>2. Serves(at[r], req[r].op)
    BY DEF IInv, Busy
  <1> QED BY <1>1, <1>2, StayedOnward

\* The requests that a MOVE can become.
LEMMA AimsBelow ==
  ASSUME IInv, NEW r \in Requests, at[r] = "moving", NEW q \in Aims(r)
  PROVE  /\ q \in Operations /\ q.op = "move" /\ q.src = req[r].src
         /\ q.dst \in Targets /\ Covers(req[r].dst, q.dst)
  <1>1. req[r] \in Operations /\ req[r].op = "move"
    BY DEF IInv, Busy, Serves, Resting
  <1> DEFINE here == req[r].dst
             there == Into(req[r].dst, req[r].src)
  <1>2. PICK d \in {here, there} : q = [req[r] EXCEPT !.dst = d]
    BY DEF Aims
  <1>3. q.dst \in Targets /\ q.dst /= q.src
    BY DEF Aims
  <1>4. q.op = "move" /\ q.src = req[r].src /\ q.dst = d
    BY <1>1, <1>2 DEF Operations
  <1>5. q \in Operations
    BY <1>1, <1>2, <1>3, <1>4 DEF Operations
  <1>6. Covers(here, d)
    <2>1. here \in Path /\ Last(req[r].src) \in STRING
      BY <1>1, OperationFacts, TargetsArePath, LastName
    <2>2. d = here \/ d = Append(here, Last(req[r].src))
      BY <1>2 DEF Into
    <2> QED BY <2>1, <2>2, CoversItself, CoversInside
  <1> QED BY <1>3, <1>4, <1>5, <1>6

LEMMA RemovedTurn ==
  ASSUME IInv, NEW r \in Requests, Removing(r), Removed(r)
  PROVE  Turn(r)
  <1>1. CASE Done(r, TRUE)
    BY <1>1 DEF Turn
  <1>2. CASE ~Done(r, TRUE)
    <2>1. /\ at[r] = "clearing" /\ req[r].op \in {"copy", "move"}
          /\ GoTo(r, IF req[r].op = "move" THEN "moving" ELSE "copying")
          /\ UNCHANGED <<req, foreign>>
      BY <1>2 DEF Removed
    <2> DEFINE place == IF req[r].op = "move" THEN "moving" ELSE "copying"
    <2>2. place \in Places \ (Resting \cup {"locking"}) /\ Serves(place, req[r].op)
      BY <2>1 DEF Places, Resting, Serves
    <2>3. at[r] \notin Resting
      BY <2>1 DEF Resting
    <2>4. GoTo(r, place)
      BY <2>1
    <2> HIDE DEF place
    <2> QED BY <2>1, <2>2, <2>3, <2>4, StayedOnward
  <1> QED BY <1>1, <1>2

LEMMA HandleTurn ==
  ASSUME IInv, NEW r \in Requests, Handle(r), ~Acquire(r)
  PROVE  /\ at[r] \notin Resting \cup {"locking"}
         /\ UNCHANGED <<lock, issued>>
         /\ Turn(r)
  <1> USE DEF Resting
  <1>1. CASE Refused(r) \/ PutReplace(r) \/ PutAbort(r) \/ Mkcol(r) \/ Stop(r)
    <2>1. Done(r, TRUE) \/ Done(r, FALSE)
      BY <1>1, Zenon DEF Refused, PutReplace, PutAbort, Mkcol, Stop, Answer
    <2> QED BY <1>1, <2>1 DEF Refused, PutReplace, PutAbort, Mkcol, Stop, Turn
  <1>2. CASE PutOpen(r)
    <2>1. /\ at[r] = "checked" /\ req[r].op = "put" /\ GoTo(r, "feeding")
          /\ UNCHANGED <<lock, issued, req, foreign>>
      BY <1>2 DEF PutOpen, Hold
    <2>2. "feeding" \in Places \ (Resting \cup {"locking"}) /\ Serves("feeding", req[r].op)
      BY <2>1 DEF Places, Serves
    <2> QED BY <2>1, <2>2, StayedOnward
  <1>3. CASE Begin(r)
    <2> DEFINE place == CASE Exists(req[r].dst) -> "clearing"
                          [] req[r].op = "move" -> "moving"
                          [] OTHER -> "copying"
    <2>1. /\ at[r] = "checked" /\ req[r].op \in {"delete", "copy", "move"}
          /\ Exists(req[r].dst) \/ req[r].op /= "delete"
          /\ UNCHANGED <<lock, issued, req, foreign>>
      BY <1>3 DEF Begin, Hold
    <2>2. GoTo(r, place)
      BY <1>3 DEF Begin
    <2>3. place \in Places \ (Resting \cup {"locking"}) /\ Serves(place, req[r].op)
      <3>1. \/ place = "clearing"
            \/ place = "moving" /\ req[r].op = "move"
            \/ place = "copying" /\ req[r].op = "copy"
        BY <2>1
      <3> QED BY <2>1, <3>1 DEF Places, Serves
    <2> HIDE DEF place
    <2> QED BY <2>1, <2>2, <2>3, StayedOnward
  <1>4. CASE RemoveFile(r) \/ RemoveTop(r)
    <2>1. Removing(r) /\ Removed(r) /\ UNCHANGED <<lock, issued>>
      BY <1>4 DEF RemoveFile, RemoveTop
    <2> QED BY <2>1, RemovedTurn DEF Removing
  <1>5. CASE OpenTop(r) \/ Unlink(r) \/ Descend(r) \/ Ascend(r)
    <2>1. Removing(r) /\ UNCHANGED <<lock, issued, at, req, foreign>>
      BY <1>5 DEF OpenTop, Unlink, Descend, Ascend, InLast
    <2> QED BY <2>1, StayedPut DEF Removing
  <1>6. CASE Rename(r)
    BY <1>6 DEF Rename, Turn
  <1>7. CASE Across(r)
    <2>1. PICK q \in Aims(r) : req' = [req EXCEPT ![r] = q]
      BY <1>7 DEF Across
    <2>2. at[r] = "moving" /\ GoTo(r, "copying") /\ UNCHANGED <<lock, issued, foreign>>
      BY <1>7 DEF Across
    <2>3. /\ q \in Operations /\ q.op = "move" /\ q.src = req[r].src
          /\ q.dst \in Targets /\ Covers(req[r].dst, q.dst)
      BY <2>1, <2>2, AimsBelow
    <2>4. req[r].op = "move"
      BY <2>2 DEF IInv, Busy, Serves
    <2>5. "copying" \in Places \ (Resting \cup {"locking"}) /\ Serves("copying", q.op)
      BY <2>3 DEF Places, Serves
    <2>6. Onward(r, "copying", q)
      BY <2>1, <2>2, <2>3, <2>4, <2>5 DEF Onward
    <2> QED BY <2>2, <2>3, <2>5, <2>6 DEF Turn
  <1>8. CASE MakeParent(r) \/ CopyCollection(r) \/ LeaveOut(r)
    <2>1. at[r] = "copying" /\ UNCHANGED <<lock, issued, at, req, foreign>>
      BY <1>8 DEF MakeParent, CopyCollection, LeaveOut, clients
    <2> QED BY <2>1, StayedPut
  <1>9. CASE CopyFile(r) \/ Fill(r)
    <2>1. PICK place \in {"copying", "filling"} :
            /\ at[r] \in {"copying", "filling"} /\ GoTo(r, place)
            /\ UNCHANGED <<lock, issued, req, foreign>>
      BY <1>9 DEF CopyFile, Fill
    <2>2. req[r].op \in {"copy", "move"}
      BY <2>1 DEF IInv, Busy, Serves
    <2>3. place \in Places \ (Resting \cup {"locking"}) /\ Serves(place, req[r].op)
      BY <2>1, <2>2 DEF Places, Serves
    <2> QED BY <2>1, <2>3, StayedOnward
  <1>10. CASE Finish(r)
    <2>1. CASE Done(r, TRUE)
      BY <1>10, <2>1 DEF Finish, Turn
    <2>2. CASE ~Done(r, TRUE)
      <3>1. /\ at[r] = "copying" /\ req[r].op = "move" /\ GoTo(r, "uprooting")
            /\ UNCHANGED <<lock, issued, req, foreign>>
        BY <1>10, <2>2 DEF Finish
      <3>2. "uprooting" \in Places \ (Resting \cup {"locking"}) /\ Serves("uprooting", req[r].op)
        BY <3>1 DEF Places, Serves
      <3> QED BY <3>1, <3>2, StayedOnward
    <2> QED BY <2>1, <2>2
  <1> QED BY <1>1, <1>2, <1>3, <1>4, <1>5, <1>6, <1>7, <1>8, <1>9, <1>10 DEF Handle

-----------------------------------------------------------------------------
(* What a write touches                                                    *)

LEMMA SettledType ==
  ASSUME IInv, NEW r \in Requests, NEW file \in {Whole, Short}
  PROVE  Settled(r, file) \in [Targets -> Nodes]
  BY NodeFacts DEF IInv, Types, Settled

\* What a Rename leaves at a path is what was at one below its source.
LEMMA RenameTree ==
  ASSUME IInv, NEW r \in Requests, Rename(r)
  PROVE  /\ tree' \in [Targets -> Nodes]
         /\ \A p \in Targets : tree'[p] /= tree[p] =>
              Covers(req[r].src, p) \/ Covers(req[r].dst, p)
  <1>0. PICK q \in Aims(r) :
           LET moved == {p \in Targets : Covers(q.src, p)}
               from(p) == CHOOSE o \in moved : Image(q, o) = p
               image == {Image(q, p) : p \in moved}
           IN tree' = [p \in Targets |-> IF p \in image THEN tree[from(p)]
                                         ELSE IF p \in moved THEN Absent ELSE tree[p]]
    BY DEF Rename
  <1> DEFINE moved == {p \in Targets : Covers(q.src, p)}
             from(p) == CHOOSE o \in moved : Image(q, o) = p
             image == {Image(q, p) : p \in moved}
  <1>1. q \in Operations /\ q.src = req[r].src /\ Covers(req[r].dst, q.dst)
    BY AimsBelow DEF Rename
  <1>2. tree' = [p \in Targets |-> IF p \in image THEN tree[from(p)]
                                   ELSE IF p \in moved THEN Absent ELSE tree[p]]
    BY <1>0
  <1>3. ASSUME NEW p \in image PROVE from(p) \in moved
    BY <1>3
  <1>4. ASSUME NEW p \in image PROVE Covers(req[r].dst, p)
    <2>1. PICK o \in moved : Image(q, o) = p
      BY <1>4
    <2>2. o \in Path
      BY TargetsArePath
    <2>3. p \in Path /\ Covers(q.dst, p)
      BY <1>1, <2>1, <2>2, ImageBelow
    <2>4. req[r].dst \in Path /\ q.dst \in Path
      BY <1>1, OperationFacts, TargetsArePath DEF Rename, IInv, Busy, Resting
    <2> QED BY <1>1, <2>3, <2>4, CoversTransitive
  <1>5. ASSUME NEW p \in Targets PROVE tree'[p] \in Nodes
    BY <1>2, <1>3, NodeFacts DEF IInv, Types
  <1>6. tree' \in [Targets -> Nodes]
    <2>1. DOMAIN tree' = Targets /\ tree' = [p \in Targets |-> tree'[p]]
      BY <1>2
    <2> QED BY <1>5, <2>1
  <1>7. ASSUME NEW p \in Targets, tree'[p] /= tree[p]
        PROVE  Covers(q.src, p) \/ Covers(req[r].dst, p)
    BY <1>2, <1>4, <1>7
  <1> QED BY <1>1, <1>6, <1>7

\* p may be touched by r: it is below a path that was checked, or the removal
\* of it has gone astray, or it was not there and is above the destination.
Reached(r, p) ==
  \/ \E a \in LockPaths(req[r]) : Covers(a, p)
  \/ Astray(r, p)
  \/ ~Exists(p) /\ Covers(p, req[r].dst)

\* One node changes, and may.
LEMMA TouchedOne ==
  ASSUME IInv, NEW r \in Requests, NEW p \in Targets, NEW n \in Nodes,
         tree' = [tree EXCEPT ![p] = n], Reached(r, p)
  PROVE  tree' \in [Targets -> Nodes] /\ \A x \in Targets : Changed(x) => Reached(r, x)
  <1>1. \A x \in Targets : tree'[x] /= tree[x] => x = p
    BY DEF IInv, Types
  <1> QED BY <1>1 DEF IInv, Types, Changed

\* What is in an open directory is below what was checked, or astray.
LEMMA OpenReached ==
  ASSUME NEW r \in Requests, req[r] \in Operations, NEW p \in Targets,
         NEW i \in DOMAIN opened[r], opened[r][i].dir = Parent(p)
  PROVE  Reached(r, p)
  <1>1. CASE \A b \in LockPaths(req[r]) : ~Covers(b, Parent(p))
    BY <1>1 DEF Reached, Astray
  <1>2. CASE \E b \in LockPaths(req[r]) : Covers(b, Parent(p))
    <2>1. PICK b \in LockPaths(req[r]) : Covers(b, Parent(p))
      BY <1>2
    <2>2. b \in Path
      BY OperationFacts, TargetsArePath
    <2> QED BY <2>1, <2>2, CoversBelowParent DEF Reached
  <1> QED BY <1>1, <1>2

LEMMA BaseReached ==
  ASSUME IInv, NEW r \in Requests, Removing(r)
  PROVE  Base(r) \in Targets /\ Reached(r, Base(r))
  <1>1. req[r] \in Operations /\ (at[r] = "uprooting" => req[r].op = "move")
    BY DEF Removing, IInv, Busy, Serves, Resting
  <1>2. Base(r) \in LockPaths(req[r]) /\ Base(r) \in Targets
    BY <1>1, OperationFacts DEF Base
  <1> QED BY <1>2, TargetsArePath, CoversItself DEF Reached

\* The image of an entry is below the destination, and what is above that is
\* above the destination or below it.
LEMMA ImageReached ==
  ASSUME IInv, NEW r \in Requests, at[r] = "copying", NEW p \in todo[r]
  PROVE  /\ req[r] \in Operations /\ p \in Targets
         /\ Image(req[r], p) \in Path /\ Covers(req[r].dst, Image(req[r], p))
         /\ \A x \in Targets : Covers(Image(req[r], p), x) => Reached(r, x)
         /\ \A x \in Targets : Covers(x, Image(req[r], p)) /\ ~Exists(x) => Reached(r, x)
  <1>1. req[r] \in Operations /\ p \in Targets
    BY DEF IInv, Busy, Types, Resting
  <1>2. req[r].dst \in Path /\ req[r].dst \in LockPaths(req[r]) /\ p \in Path
    BY <1>1, OperationFacts, TargetsArePath
  <1>3. Image(req[r], p) \in Path /\ Covers(req[r].dst, Image(req[r], p))
    BY <1>1, <1>2, ImageBelow
  <1>4. ASSUME NEW x \in Targets, Covers(Image(req[r], p), x) PROVE Reached(r, x)
    <2>1. x \in Path
      BY TargetsArePath
    <2>2. Covers(req[r].dst, x)
      BY <1>2, <1>3, <1>4, <2>1, CoversTransitive
    <2> QED BY <1>2, <2>2 DEF Reached
  <1>5. ASSUME NEW x \in Targets, Covers(x, Image(req[r], p)), ~Exists(x) PROVE Reached(r, x)
    <2>1. x \in Path
      BY TargetsArePath
    <2>2. Related(x, req[r].dst)
      BY <1>2, <1>3, <1>5, <2>1, RelatedBelow DEF Related
    <2> QED BY <1>2, <1>5, <2>2 DEF Reached, Related
  <1> QED BY <1>1, <1>3, <1>4, <1>5

LEMMA WriteTouches ==
  ASSUME IInv, NEW r \in Requests, Handle(r), ~Acquire(r)
  PROVE  tree' \in [Targets -> Nodes] /\ \A p \in Targets : Changed(p) => Reached(r, p)
  <1>0. /\ at[r] \notin Resting \cup {"locking"}
        /\ req[r] \in Operations /\ req[r].dst \in Targets /\ Reached(r, req[r].dst)
    <2>1. at[r] \notin Resting \cup {"locking"} /\ req[r] \in Operations
      BY HandleTurn DEF IInv, Busy
    <2>2. req[r].dst \in LockPaths(req[r]) /\ req[r].dst \in Targets
      BY <2>1, OperationFacts
    <2> QED BY <2>1, <2>2, TargetsArePath, CoversItself DEF Reached
  <1>1. ASSUME UNCHANGED tree
        PROVE  tree' \in [Targets -> Nodes] /\ \A p \in Targets : Changed(p) => Reached(r, p)
    BY <1>1 DEF Changed, IInv, Types
  <1>2. CASE Refused(r) \/ PutOpen(r) \/ PutAbort(r) \/ Begin(r) \/ OpenTop(r) \/ Descend(r)
             \/ Across(r) \/ LeaveOut(r) \/ Finish(r)
    <2>1. UNCHANGED tree
      BY <1>2 DEF Refused, PutOpen, PutAbort, Begin, OpenTop, Descend, Across, LeaveOut, Finish
    <2> QED BY <1>1, <2>1
  <1>3. CASE PutReplace(r) \/ Mkcol(r)
    <2>1. PICK n \in Nodes : tree' = [tree EXCEPT ![req[r].dst] = n]
      BY <1>3, NodeFacts DEF PutReplace, Mkcol
    <2> QED BY <1>0, <2>1, TouchedOne
  <1>4. CASE RemoveFile(r) \/ RemoveTop(r)
    <2>1. Removing(r) /\ tree' = [tree EXCEPT ![Base(r)] = Absent]
      BY <1>4 DEF RemoveFile, RemoveTop, Rmdir
    <2> QED BY <2>1, BaseReached, TouchedOne, NodeFacts
  <1>5. CASE Unlink(r) \/ Ascend(r)
    <2>1. CASE ~UNCHANGED tree
      <3>1. PICK p \in Targets, i \in DOMAIN opened[r] :
               opened[r][i].dir = Parent(p) /\ tree' = [tree EXCEPT ![p] = Absent]
        <4>1. CASE Unlink(r)
          BY <2>1, <4>1 DEF Unlink, InLast
        <4>2. CASE Ascend(r)
          BY <2>1, <4>2 DEF Ascend, Rmdir
        <4> QED BY <1>5, <4>1, <4>2
      <3>2. Reached(r, p)
        BY <1>0, <3>1, OpenReached
      <3> QED BY <3>1, <3>2, TouchedOne, NodeFacts
    <2> QED BY <1>1, <2>1
  <1>6. CASE Stop(r) \/ Fill(r)
    <2>1. PICK file \in {Whole, Short} : tree' = Settled(r, file)
      BY <1>6 DEF Stop, Fill
    <2>2. tree' \in [Targets -> Nodes]
      BY <2>1, SettledType
    <2>3. \A p \in Targets : tree'[p] /= tree[p] => tree[p] = Filling(r)
      BY <2>1 DEF Settled
    <2>4. Filling(r).kind = "filling"
      BY DEF Filling
    <2> QED BY <2>2, <2>3, <2>4 DEF Changed
  <1>7. CASE Rename(r)
    <2>1. at[r] = "moving"
      BY <1>7 DEF Rename
    <2>2. req[r].op = "move"
      BY <2>1 DEF IInv, Busy, Serves, Resting
    <2>3. req[r].src \in LockPaths(req[r]) /\ req[r].dst \in LockPaths(req[r])
      BY <1>0, <2>2, OperationFacts
    <2> QED BY <1>7, <2>3, RenameTree DEF Changed, Reached
  <1>8. CASE MakeParent(r)
    <2>1. PICK p \in todo[r], a \in Targets :
             /\ Covers(a, Image(req[r], p)) /\ ~Exists(a)
             /\ tree' = [tree EXCEPT ![a] = Collection]
      BY <1>8 DEF MakeParent
    <2>2. at[r] = "copying"
      BY <1>8 DEF MakeParent
    <2>3. Reached(r, a)
      BY <2>1, <2>2, ImageReached
    <2> QED BY <2>1, <2>3, TouchedOne, NodeFacts
  <1>9. CASE CopyCollection(r)
    <2>1. PICK p \in todo[r] :
             /\ Image(req[r], p) \in Targets
             /\ tree' = [tree EXCEPT ![Image(req[r], p)] = Collection]
      BY <1>9 DEF CopyCollection
    <2>2. at[r] = "copying"
      BY <1>9 DEF CopyCollection
    <2>3. Reached(r, Image(req[r], p))
      <3>1. Image(req[r], p) \in Path
        BY <2>2, ImageReached
      <3> QED BY <2>1, <2>2, <3>1, ImageReached, CoversItself
    <2> QED BY <2>1, <2>3, TouchedOne, NodeFacts
  <1>10. CASE CopyFile(r)
    <2>1. PICK p \in todo[r], i \in Targets :
             /\ i = Into(Image(req[r], p), p)
             /\ tree' = [tree EXCEPT ![i] = Filling(r)]
      BY <1>10 DEF CopyFile
    <2>2. at[r] = "copying"
      BY <1>10 DEF CopyFile
    <2>3. Covers(Image(req[r], p), i)
      <3>1. Image(req[r], p) \in Path /\ Last(p) \in STRING
        BY <2>2, ImageReached, LastName
      <3> QED BY <2>1, <3>1, CoversItself, CoversInside DEF Into
    <2>4. Reached(r, i)
      BY <2>2, <2>3, ImageReached
    <2> QED BY <2>1, <2>4, TouchedOne, NodeFacts
  <1> QED BY <1>2, <1>3, <1>4, <1>5, <1>6, <1>7, <1>8, <1>9, <1>10 DEF Handle

LEMMA TodoKept ==
  ASSUME IInv, NEW r \in Requests, Handle(r), ~Acquire(r)
  PROVE  todo' \in [Requests -> SUBSET Targets]
  <1>0. req[r] \in Operations /\ req[r].src \in Targets
    BY HandleTurn, OperationFacts DEF IInv, Busy
  <1>1. ASSUME Done(r, TRUE) \/ Done(r, FALSE)
        PROVE  todo' \in [Requests -> SUBSET Targets]
    BY <1>1 DEF Done, IInv, Types
  <1>2. ASSUME UNCHANGED todo
        PROVE  todo' \in [Requests -> SUBSET Targets]
    BY <1>2 DEF IInv, Types
  <1>3. CASE Refused(r) \/ PutReplace(r) \/ PutAbort(r) \/ Mkcol(r) \/ Stop(r) \/ Rename(r)
    <2>1. Done(r, TRUE) \/ Done(r, FALSE)
      BY <1>3, Zenon DEF Refused, PutReplace, PutAbort, Mkcol, Stop, Rename, Answer
    <2> QED BY <1>1, <2>1
  <1>4. CASE PutOpen(r) \/ OpenTop(r) \/ Unlink(r) \/ Descend(r) \/ Ascend(r) \/ MakeParent(r) \/ Fill(r)
    <2>1. UNCHANGED todo
      BY <1>4 DEF PutOpen, OpenTop, Unlink, Descend, Ascend, MakeParent, Fill, clients
    <2> QED BY <1>2, <2>1
  <1>5. CASE RemoveFile(r) \/ RemoveTop(r) \/ Finish(r)
    <2>1. Done(r, TRUE) \/ UNCHANGED todo
      BY <1>5 DEF RemoveFile, RemoveTop, Removed, Finish
    <2> QED BY <1>1, <1>2, <2>1
  <1>6. CASE Begin(r) \/ Across(r)
    BY <1>0, <1>6 DEF Begin, Across, IInv, Types
  <1>7. CASE CopyCollection(r) \/ CopyFile(r) \/ LeaveOut(r)
    <2>1. PICK x \in SUBSET Targets : todo' = [todo EXCEPT ![r] = x]
      <3>1. CASE CopyCollection(r)
        <4>1. PICK p \in todo[r] :
                 todo' = [todo EXCEPT ![r] = (@ \ {p}) \cup {c \in Targets : Parent(c) = p /\ Exists(c)}]
          BY <3>1 DEF CopyCollection
        <4> QED BY <4>1 DEF IInv, Types
      <3>2. CASE CopyFile(r) \/ LeaveOut(r)
        <4>1. PICK p \in todo[r] : todo' = [todo EXCEPT ![r] = @ \ {p}]
          BY <3>2 DEF CopyFile, LeaveOut
        <4> QED BY <4>1 DEF IInv, Types
      <3> QED BY <1>7, <3>1, <3>2
    <2> QED BY <2>1 DEF IInv, Types
  <1> QED BY <1>3, <1>4, <1>5, <1>6, <1>7 DEF Handle

-----------------------------------------------------------------------------
(* The invariant is kept                                                   *)

\* The steps of a write leave the DAV locks alone.
LEMMA HandleKeeps ==
  ASSUME IInv, NEW r \in Requests, Handle(r), ~Acquire(r)
  PROVE  IInv'
  <1>1. tree' \in [Targets -> Nodes] /\ todo' \in [Requests -> SUBSET Targets]
    BY WriteTouches, TodoKept
  <1>2. /\ at[r] \notin Resting \cup {"locking"} /\ req[r] \in Operations
        /\ UNCHANGED <<lock, issued>> /\ Turn(r)
    BY HandleTurn DEF IInv, Busy
  <1>3. Granted' /\ LocksDisjoint'
    BY <1>2 DEF IInv, Granted, LocksDisjoint, Live
  <1>4. CASE Done(r, TRUE) \/ Done(r, FALSE)
    <2>1. PICK place \in Resting : at' = [at EXCEPT ![r] = place]
      BY <1>4 DEF Done, GoTo, Resting
    <2>2. req' = [req EXCEPT ![r] = None] /\ foreign' = [foreign EXCEPT ![r] = {}]
      BY <1>4 DEF Done
    <2>3. Types'
      BY <1>1, <1>2, <2>1, <2>2 DEF IInv, Types, Places
    <2>4. ASSUME NEW s \in Requests PROVE Busy(s)' /\ StillAuthorized(s)'
      <3>0. Busy(s) /\ StillAuthorized(s)
        BY DEF IInv
      <3>1. CASE s = r
        BY <2>1, <2>2, <3>1 DEF IInv, Types, Busy, StillAuthorized
      <3>2. CASE s /= r
        <4>1. at'[s] = at[s] /\ req'[s] = req[s] /\ foreign'[s] = foreign[s]
          BY <2>1, <2>2, <3>2 DEF IInv, Types
        <4> QED BY <1>2, <3>0, <4>1 DEF Busy, StillAuthorized, Live
      <3> QED BY <3>1, <3>2
    <2> QED BY <1>3, <2>3, <2>4 DEF IInv
  <1>5. CASE \E place \in Places, q \in Operations : Onward(r, place, q)
    <2>1. PICK place \in Places, q \in Operations : Onward(r, place, q)
      BY <1>5
    <2>2. /\ req' = [req EXCEPT ![r] = q] /\ at' = [at EXCEPT ![r] = place] /\ UNCHANGED foreign
          /\ place \notin Resting \cup {"locking"} /\ Serves(place, q.op)
          /\ q.op = req[r].op /\ q.src = req[r].src /\ Covers(req[r].dst, q.dst)
      BY <2>1 DEF Onward, GoTo
    <2>3. Types'
      BY <1>1, <1>2, <2>2 DEF IInv, Types
    <2>4. ASSUME NEW s \in Requests PROVE Busy(s)' /\ StillAuthorized(s)'
      <3>0. Busy(s) /\ StillAuthorized(s)
        BY DEF IInv
      <3>1. CASE s = r
        <4>1. at'[s] = place /\ req'[s] = q /\ foreign'[s] = foreign[r]
          BY <2>2, <3>1 DEF IInv, Types
        <4>2. Busy(s)'
          BY <2>2, <4>1 DEF Busy
        <4>3. ASSUME NEW k \in foreign[r], Live(k), NEW p \in LockPaths(q)
              PROVE  ~Related(lock[k], p)
          <5>1. \A x \in LockPaths(req[r]) : ~Related(lock[k], x)
            BY <3>0, <3>1, <4>3 DEF StillAuthorized
          <5>2. k \in Tokens /\ lock[k] \in Path
            BY <4>3, TargetsArePath DEF IInv, Types, Live
          <5>3. req[r].dst \in LockPaths(req[r]) /\ req[r].dst \in Path /\ q.dst \in Path
            BY <1>2, OperationFacts, TargetsArePath
          <5>4. ~Related(lock[k], q.dst)
            BY <2>2, <5>1, <5>2, <5>3, RelatedBelow
          <5>5. p = q.dst \/ p \in LockPaths(req[r])
            BY <2>2 DEF LockPaths
          <5> QED BY <5>1, <5>4, <5>5
        <4> QED BY <1>2, <2>2, <3>0, <3>1, <4>1, <4>2, <4>3 DEF StillAuthorized, Live
      <3>2. CASE s /= r
        <4>1. at'[s] = at[s] /\ req'[s] = req[s] /\ foreign'[s] = foreign[s]
          BY <2>2, <3>2 DEF IInv, Types
        <4> QED BY <1>2, <3>0, <4>1 DEF Busy, StillAuthorized, Live
      <3> QED BY <3>1, <3>2
    <2> QED BY <1>3, <2>3, <2>4 DEF IInv
  <1> QED BY <1>2, <1>4, <1>5 DEF Turn

\* A new lock is related to none that is live.
LEMMA AcquireKeeps ==
  ASSUME IInv, NEW r \in Requests, Acquire(r)
  PROVE  IInv'
  <1>1. at[r] = "locking" /\ req[r].src \in Targets /\ foreign[r] = {}
    BY OperationFacts DEF Acquire, IInv, Busy, StillAuthorized, Resting
  <1>2. PICK place \in Resting :
          /\ at' = [at EXCEPT ![r] = place] /\ req' = [req EXCEPT ![r] = None]
          /\ UNCHANGED <<tree, todo, foreign>>
    BY DEF Acquire, GoTo, Resting
  <1>3. CASE UNCHANGED <<lock, issued>>
    <2>1. Types'
      BY <1>2, <1>3 DEF IInv, Types, Places
    <2>2. Granted' /\ LocksDisjoint'
      BY <1>3 DEF IInv, Granted, LocksDisjoint, Live
    <2>3. ASSUME NEW s \in Requests PROVE Busy(s)' /\ StillAuthorized(s)'
      BY <1>1, <1>2, <1>3 DEF IInv, Types, Busy, StillAuthorized, Live
    <2> QED BY <2>1, <2>2, <2>3 DEF IInv
  <1>4. CASE ~Conflict(req[r].src) /\ issued /= MaxTokens
    <2> DEFINE n == issued + 1
    <2>1. /\ issued' = n /\ lock' = [lock EXCEPT ![n] = req[r].src]
      BY <1>4 DEF Acquire
    <2>2. n \in Tokens /\ n \in 0..MaxTokens /\ issued \in Nat
      BY <1>4, TokensAssumption DEF IInv, Types, Tokens
    <2>3. ~Live(n)
      BY <2>2 DEF IInv, Granted
    <2>4. \A k \in Tokens : k /= n => lock'[k] = lock[k]
      BY <2>1 DEF IInv, Types
    <2>5. lock'[n] = req[r].src
      BY <2>1, <2>2 DEF IInv, Types
    <2>6. \A k \in Tokens : Live(k) => ~Related(lock[k], req[r].src)
      BY <1>4 DEF Conflict
    <2>7. Types'
      BY <1>1, <1>2, <2>1, <2>2 DEF IInv, Types, Places
    <2>8. Granted'
      <3> SUFFICES ASSUME NEW k \in Tokens, Live(k)' PROVE k <= issued'
        BY DEF Granted
      <3>1. CASE k = n
        BY <2>1, <2>2, <3>1
      <3>2. CASE k /= n
        <4>1. k <= issued
          BY <2>4, <3>2 DEF Live, IInv, Granted
        <4>2. k \in Nat
          BY DEF Tokens
        <4> HIDE DEF n
        <4>3. k <= issued + 1
          BY <2>2, <4>1, <4>2
        <4> QED BY <2>1, <4>3 DEF n
      <3> QED BY <3>1, <3>2
    <2>9. LocksDisjoint'
      <3> HIDE DEF n
      <3> QED BY <2>3, <2>4, <2>5, <2>6, RelatedSymmetric DEF LocksDisjoint, Live, IInv
    <2>10. ASSUME NEW s \in Requests PROVE Busy(s)' /\ StillAuthorized(s)'
      <3>1. CASE s = r
        BY <1>1, <1>2, <3>1 DEF IInv, Types, Busy, StillAuthorized
      <3>2. CASE s /= r
        <4>1. at'[s] = at[s] /\ req'[s] = req[s] /\ foreign'[s] = foreign[s]
          BY <1>2, <3>2 DEF IInv, Types
        <4>2. \A k \in foreign[s] : k \in Tokens /\ k \in Nat /\ k <= issued
          BY DEF IInv, Types, StillAuthorized, Tokens
        <4>3. \A k \in foreign[s] : k /= n /\ k <= issued'
          BY <2>1, <2>2, <4>2
        <4>4. Busy(s) /\ StillAuthorized(s)
          BY DEF IInv
        <4> HIDE DEF n
        <4> QED BY <2>4, <4>1, <4>2, <4>3, <4>4 DEF Busy, StillAuthorized, Live
      <3> QED BY <3>1, <3>2
    <2> QED BY <2>7, <2>8, <2>9, <2>10 DEF IInv
  <1> QED BY <1>3, <1>4 DEF Acquire

LEMMA LockStartKeeps ==
  ASSUME IInv, NEW r \in Requests, NEW q \in Operations, LockStart(r, q)
  PROVE  IInv'
  <1>1. /\ at[r] \in Resting /\ at' = [at EXCEPT ![r] = "locking"]
        /\ req' = [req EXCEPT ![r] = q] /\ q.op = "lock"
        /\ UNCHANGED <<tree, lock, issued, todo, foreign>>
    BY DEF LockStart, GoTo
  <1>2. Types'
    BY <1>1 DEF IInv, Types, Places
  <1>3. Granted' /\ LocksDisjoint'
    BY <1>1 DEF IInv, Granted, LocksDisjoint, Live
  <1>4. ASSUME NEW s \in Requests PROVE Busy(s)' /\ StillAuthorized(s)'
    <2>0. Busy(s) /\ StillAuthorized(s)
      BY DEF IInv
    <2>1. CASE s = r
      <3>1. at'[s] = "locking" /\ req'[s] = q /\ foreign'[s] = {}
        BY <1>1, <2>0, <2>1 DEF IInv, Types, StillAuthorized
      <3> QED BY <1>1, <3>1 DEF Busy, Serves, StillAuthorized
    <2>2. CASE s /= r
      <3>1. at'[s] = at[s] /\ req'[s] = req[s] /\ foreign'[s] = foreign[s]
        BY <1>1, <2>2 DEF IInv, Types
      <3> QED BY <1>1, <2>0, <3>1 DEF Busy, StillAuthorized, Live
    <2> QED BY <2>1, <2>2
  <1> QED BY <1>2, <1>3, <1>4 DEF IInv

\* What the check finds: the live locks whose tokens are missing are related
\* to nothing that it covers.
LEMMA CheckKeeps ==
  ASSUME IInv, NEW r \in Requests, NEW q \in Operations, Check(r, q)
  PROVE  IInv'
  <1>1. /\ at' = [at EXCEPT ![r] = "checked"] /\ req' = [req EXCEPT ![r] = q]
        /\ UNCHANGED <<tree, lock, issued, todo>> /\ q.op /= "lock"
    BY DEF Check, GoTo
  <1>2. PICK tokens \in SUBSET {k \in Tokens : Live(k)} :
          /\ Authorized(q, tokens)
          /\ foreign' = [foreign EXCEPT ![r] = {k \in Tokens : Live(k)} \ tokens]
    BY DEF Check
  <1>3. Types'
    BY <1>1, <1>2 DEF IInv, Types, Places
  <1>4. Granted' /\ LocksDisjoint'
    BY <1>1 DEF IInv, Granted, LocksDisjoint, Live
  <1>5. ASSUME NEW s \in Requests PROVE Busy(s)' /\ StillAuthorized(s)'
    <2>0. Busy(s) /\ StillAuthorized(s)
      BY DEF IInv
    <2>1. CASE s = r
      <3>1. /\ at'[s] = "checked" /\ req'[s] = q
            /\ foreign'[s] = {k \in Tokens : Live(k)} \ tokens
        BY <1>1, <1>2, <2>1 DEF IInv, Types
      <3>2. \A k \in foreign'[s] : k <= issued'
        BY <1>1, <3>1 DEF IInv, Granted
      <3>3. \A k \in foreign'[s] : \A p \in LockPaths(q) : ~Related(lock[k], p)
        BY <1>2, <3>1 DEF Authorized
      <3> QED BY <1>1, <3>1, <3>2, <3>3 DEF Busy, Serves, StillAuthorized, Resting
    <2>2. CASE s /= r
      <3>1. at'[s] = at[s] /\ req'[s] = req[s] /\ foreign'[s] = foreign[s]
        BY <1>1, <1>2, <2>2 DEF IInv, Types
      <3> QED BY <1>1, <2>0, <3>1 DEF Busy, StillAuthorized, Live
    <2> QED BY <2>1, <2>2
  <1> QED BY <1>3, <1>4, <1>5 DEF IInv

LEMMA ReleaseKeeps ==
  ASSUME IInv, NEW k \in Tokens, Release(k)
  PROVE  IInv'
  <1>1. lock' = [lock EXCEPT ![k] = NoPath] /\ UNCHANGED <<tree, issued, at, req, todo, foreign>>
    BY DEF Release, clients
  <1>2. Types'
    BY <1>1 DEF IInv, Types
  <1>3. \A j \in Tokens : Live(j)' => Live(j) /\ lock'[j] = lock[j]
    BY <1>1 DEF Live, IInv, Types
  <1>4. Granted'
    BY <1>1, <1>3 DEF IInv, Granted
  <1>5. LocksDisjoint'
    BY <1>3 DEF IInv, LocksDisjoint
  <1>6. ASSUME NEW s \in Requests PROVE Busy(s)' /\ StillAuthorized(s)'
    <2>1. foreign[s] \subseteq Tokens /\ Busy(s) /\ StillAuthorized(s)
      BY DEF IInv, Types
    <2> QED BY <1>1, <1>3, <2>1 DEF Busy, StillAuthorized
  <1> QED BY <1>2, <1>4, <1>5, <1>6 DEF IInv

LEMMA NextKeeps == IInv /\ [Next]_vars => IInv'
  <1> SUFFICES ASSUME IInv, [Next]_vars PROVE IInv'
    OBVIOUS
  <1>1. ASSUME NEW r \in Requests, Handle(r) PROVE IInv'
    BY <1>1, HandleKeeps, AcquireKeeps
  <1>2. ASSUME NEW r \in Requests, NEW q \in Operations, LockStart(r, q) \/ Check(r, q)
        PROVE  IInv'
    BY <1>2, LockStartKeeps, CheckKeeps
  <1>3. ASSUME NEW k \in Tokens, Release(k) PROVE IInv'
    BY <1>3, ReleaseKeeps
  <1>4. CASE UNCHANGED vars
    <2>1. Types' /\ Granted' /\ LocksDisjoint'
      BY <1>4 DEF vars, clients, IInv, Types, Granted, LocksDisjoint, Live
    <2>2. ASSUME NEW s \in Requests PROVE Busy(s)' /\ StillAuthorized(s)'
      BY <1>4 DEF vars, clients, IInv, Busy, StillAuthorized, Live
    <2> QED BY <2>1, <2>2 DEF IInv
  <1> QED BY <1>1, <1>2, <1>3, <1>4, AskedAssumption DEF Next

-----------------------------------------------------------------------------
(* The locks                                                               *)

\* The invariant is inductive.
THEOREM Inductive == Spec => []IInv
  <1> QED BY InitIInv, NextKeeps, PTL DEF Spec

\* DAV locks are exclusive and of infinite depth: no two live ones overlap, on
\* any tree and for any number of locks (_webdav.py:73-86).
THEOREM ExclusiveLocks == Spec => []LocksDisjoint
  <1>1. IInv => LocksDisjoint
    BY DEF IInv
  <1> QED BY <1>1, Inductive, PTL

\* No system call of a write touches what a live lock guards that the check of
\* the write has seen and has had no token for, the removal of a collection,
\* the copy of one and the collections made again above it included; but for
\* what an rmtree removes astray (_webdav.py:117-130).
THEOREM LocksRespected == Spec => WritesAuthorized
  <1> DEFINE Respected == \A r \in Requests : Trespass(r) => ~Handle(r)
  <1>1. IInv => [Respected]_vars
    <2> SUFFICES ASSUME IInv, NEW r \in Requests, Handle(r), NEW k \in foreign[r], Live(k),
                        NEW p \in Targets, Changed(p), Guards(k, p), ~Astray(r, p)
                 PROVE  FALSE
      BY DEF Respected, Trespass
    <2>1. ~Acquire(r)
      BY DEF Changed, Acquire
    <2>2. Reached(r, p) /\ req[r] \in Operations
      BY <2>1, WriteTouches, HandleTurn DEF IInv, Busy
    <2>3. \A a \in LockPaths(req[r]) : ~Related(lock[k], a)
      BY DEF IInv, StillAuthorized
    <2>4. k \in Tokens /\ lock[k] \in Path /\ p \in Path
      BY TargetsArePath DEF IInv, Types, Live
    <2>5. \A a \in LockPaths(req[r]) : a \in Path
      BY <2>2, OperationFacts, TargetsArePath
    <2>6. CASE \E a \in LockPaths(req[r]) : Covers(a, p)
      <3>1. Related(lock[k], p)
        BY DEF Guards, Related
      <3> QED BY <2>3, <2>4, <2>5, <2>6, <3>1, RelatedBelow
    <2>7. CASE ~Exists(p) /\ Covers(p, req[r].dst)
      <3>1. req[r].dst \in LockPaths(req[r])
        BY <2>2, OperationFacts
      <3>2. Covers(lock[k], p)
        BY <2>7 DEF Guards
      <3>3. Covers(lock[k], req[r].dst)
        BY <2>4, <2>5, <2>7, <3>1, <3>2, CoversTransitive
      <3> QED BY <2>3, <3>1, <3>3 DEF Related
    <2> QED BY <2>2, <2>6, <2>7 DEF Reached
  <1> QED BY <1>1, Inductive, PTL DEF WritesAuthorized

\* DAV locks are granted one at a time and respected by every call of a write
\* that saw them.
THEOREM LocksAreHeld == Spec => LocksHold
  <1>1. LocksHold <=> []LocksDisjoint /\ WritesAuthorized
    BY DEF LocksHold
  <1> QED BY <1>1, ExclusiveLocks, LocksRespected, PTL

-----------------------------------------------------------------------------
(* The answers                                                             *)

LEMMA GoesTo ==
  ASSUME IInv, NEW s \in Requests, NEW place, GoTo(s, place)
  PROVE  at'[s] = place /\ \A r \in Requests \ {s} : at'[r] = at[r]
  BY DEF GoTo, IInv, Types

LEMMA SamePath ==
  ASSUME NEW p \in Path, NEW q \in Path, Len(p) = Len(q), \A i \in 1..Len(p) : q[i] = p[i]
  PROVE  p = q
  BY DEF Path

LEMMA SuffixElements ==
  ASSUME NEW s \in Path, NEW m \in Nat, m <= Len(s)
  PROVE  LET x == SubSeq(s, m + 1, Len(s))
         IN /\ x \in Path
            /\ Len(x) = Len(s) - m
            /\ \A i \in 1..Len(s) - m : x[i] = s[m + i]
  <1>1. Len(s) \in Nat /\ \A i \in m + 1..Len(s) : i \in 1..Len(s)
    BY DEF Path
  <1>2. SubSeq(s, m + 1, Len(s)) \in Path
    BY <1>1 DEF Path
  <1>3. Len(SubSeq(s, m + 1, Len(s))) = Len(s) - m
    BY <1>1 DEF Path
  <1>4. ASSUME NEW i \in 1..Len(s) - m PROVE SubSeq(s, m + 1, Len(s))[i] = s[m + i]
    BY <1>1 DEF Path
  <1> QED BY <1>2, <1>3, <1>4

LEMMA JoinedElements ==
  ASSUME NEW s \in Path, NEW x \in Path
  PROVE  /\ s \o x \in Path
         /\ Len(s \o x) = Len(s) + Len(x)
         /\ \A i \in 1..Len(s) : (s \o x)[i] = s[i]
         /\ \A i \in 1..Len(x) : (s \o x)[Len(s) + i] = x[i]
  <1>1. Len(s) \in Nat /\ Len(x) \in Nat
    BY DEF Path
  <1>2. s \o x \in Path /\ Len(s \o x) = Len(s) + Len(x)
    BY DEF Path
  <1>3. \A i \in 1..Len(s) : (s \o x)[i] = s[i]
    BY <1>1 DEF Path
  <1>4. ASSUME NEW i \in 1..Len(x) PROVE (s \o x)[Len(s) + i] = x[i]
    BY <1>1 DEF Path
  <1> QED BY <1>2, <1>3, <1>4

\* Image, element by element.
LEMMA ImageElements ==
  ASSUME NEW q \in Operations, NEW p \in Targets, Covers(q.src, p)
  PROVE  /\ Image(q, p) \in Path
         /\ Len(q.src) <= Len(p)
         /\ Len(Image(q, p)) = Len(q.dst) + Len(p) - Len(q.src)
         /\ \A i \in 1..Len(q.dst) : Image(q, p)[i] = q.dst[i]
         /\ \A i \in 1..Len(p) - Len(q.src) : Image(q, p)[Len(q.dst) + i] = p[Len(q.src) + i]
  <1>1. /\ q.src \in Path /\ q.dst \in Path /\ p \in Path
        /\ Len(q.src) \in Nat /\ Len(q.dst) \in Nat /\ Len(p) \in Nat
    BY OperationFacts, ParentFacts
  <1>2. Len(q.src) <= Len(p)
    BY <1>1, CoversElements
  <1> DEFINE x == SubSeq(p, Len(q.src) + 1, Len(p))
  <1>3. /\ x \in Path /\ Len(x) = Len(p) - Len(q.src)
        /\ \A i \in 1..Len(p) - Len(q.src) : x[i] = p[Len(q.src) + i]
    BY <1>1, <1>2, SuffixElements
  <1>4. /\ q.dst \o x \in Path
        /\ Len(q.dst \o x) = Len(q.dst) + Len(x)
        /\ \A i \in 1..Len(q.dst) : (q.dst \o x)[i] = q.dst[i]
        /\ \A i \in 1..Len(x) : (q.dst \o x)[Len(q.dst) + i] = x[i]
    BY <1>1, <1>3, JoinedElements
  <1>5. Image(q, p) = q.dst \o x
    BY DEF Image
  <1> HIDE DEF x
  <1> QED BY <1>1, <1>2, <1>3, <1>4, <1>5

\* Different paths below the source go to different paths.
LEMMA ImageInjective ==
  ASSUME NEW q \in Operations, NEW o \in Targets, NEW p \in Targets,
         Covers(q.src, o), Covers(q.src, p), Image(q, o) = Image(q, p)
  PROVE  o = p
  <1>1. /\ q.src \in Path /\ o \in Path /\ p \in Path
        /\ Len(q.src) \in Nat /\ Len(q.dst) \in Nat /\ Len(p) \in Nat /\ Len(o) \in Nat
    BY OperationFacts, ParentFacts
  <1>2. Len(o) = Len(p)
    <2>1. Len(q.dst) + Len(o) - Len(q.src) = Len(q.dst) + Len(p) - Len(q.src)
      BY ImageElements
    <2> QED BY <1>1, <2>1
  <1>3. Len(q.src) <= Len(p)
    BY ImageElements
  <1>4. ASSUME NEW i \in 1..Len(o) PROVE p[i] = o[i]
    <2>1. CASE i <= Len(q.src)
      <3>1. i \in 1..Len(q.src)
        BY <1>1, <2>1
      <3> QED BY <1>1, <3>1, CoversElements
    <2>2. CASE i > Len(q.src)
      <3> DEFINE j == i - Len(q.src)
      <3>1. j \in 1..Len(o) - Len(q.src) /\ Len(q.src) + j = i
        BY <1>1, <1>3, <2>2
      <3>2. Image(q, o)[Len(q.dst) + j] = o[i] /\ Image(q, p)[Len(q.dst) + j] = p[i]
        <4> HIDE DEF j
        <4> QED BY <1>2, <3>1, ImageElements
      <3> QED BY <3>2
    <2> QED BY <1>1, <2>1, <2>2
  <1> QED BY <1>1, <1>2, <1>4, SamePath

\* A handler moves by its own actions.
LEMMA OthersStay ==
  ASSUME IInv, NEW r \in Requests, [Next]_vars, ~Handle(r), at[r] \notin Resting
  PROVE  at'[r] = at[r]
  <1>1. ASSUME NEW s \in Requests, s /= r, NEW place, GoTo(s, place)
        PROVE  at'[r] = at[r]
    BY <1>1, GoesTo
  <1>2. ASSUME NEW s \in Requests, Handle(s) PROVE at'[r] = at[r]
    <2>1. CASE Acquire(s)
      BY <1>1, <1>2, <2>1 DEF Acquire
    <2>2. CASE ~Acquire(s)
      <3>1. Turn(s)
        BY <1>2, <2>2, HandleTurn
      <3>2. \E place : GoTo(s, place)
        BY <3>1 DEF Turn, Done, Onward
      <3> QED BY <1>1, <1>2, <3>2
    <2> QED BY <2>1, <2>2
  <1>3. ASSUME NEW s \in Requests, NEW q \in Asked, LockStart(s, q) \/ Check(s, q)
        PROVE  at'[r] = at[r]
    <2>1. s /= r
      BY <1>3 DEF LockStart, Check
    <2> QED BY <1>1, <1>3, <2>1 DEF LockStart, Check
  <1>4. ASSUME NEW k \in Tokens, Release(k) PROVE at'[r] = at[r]
    BY <1>4 DEF Release, clients
  <1>5. CASE UNCHANGED vars
    BY <1>5 DEF vars, clients
  <1> QED BY <1>2, <1>3, <1>4, <1>5 DEF Next

\* After a Rename there is something at the destination.
LEMMA RenameArrives ==
  ASSUME IInv, NEW r \in Requests, Rename(r)
  PROVE  tree'[req[r].dst] /= Absent
  <1>0. PICK q \in Aims(r) :
           /\ LET moved == {p \in Targets : Covers(q.src, p)}
                  from(p) == CHOOSE o \in moved : Image(q, o) = p
                  image == {Image(q, p) : p \in moved}
              IN tree' = [p \in Targets |-> IF p \in image THEN tree[from(p)]
                                            ELSE IF p \in moved THEN Absent ELSE tree[p]]
           /\ Exists(q.src) /\ ~Covers(q.src, q.dst)
    BY DEF Rename
  <1> DEFINE moved == {p \in Targets : Covers(q.src, p)}
             from(p) == CHOOSE o \in moved : Image(q, o) = p
             image == {Image(q, p) : p \in moved}
  <1>1. q \in Operations /\ q.src = req[r].src /\ Covers(req[r].dst, q.dst) /\ req[r] \in Operations
    BY AimsBelow DEF Rename, IInv, Busy, Resting
  <1>2. tree' = [p \in Targets |-> IF p \in image THEN tree[from(p)]
                                   ELSE IF p \in moved THEN Absent ELSE tree[p]]
    BY <1>0
  <1>3. /\ q.src \in Targets /\ q.dst \in Targets /\ req[r].dst \in Targets
        /\ q.src \in Path /\ q.dst \in Path /\ req[r].dst \in Path
    BY <1>1, OperationFacts, TargetsArePath
  <1>4. CASE q.dst = req[r].dst
    <2>1. q.src \in moved /\ Image(q, q.src) = q.dst
      <3>1. SubSeq(q.src, Len(q.src) + 1, Len(q.src)) = <<>>
        BY <1>3 DEF Path
      <3>2. q.dst \o <<>> = q.dst
        BY <1>3 DEF Path
      <3> QED BY <1>3, <3>1, <3>2, CoversItself DEF Image
    <2>2. ASSUME NEW o \in moved, Image(q, o) = q.dst PROVE o = q.src
      BY <1>1, <1>3, <2>1, <2>2, ImageInjective
    <2>3. q.dst \in image /\ from(q.dst) = q.src
      BY <2>1, <2>2
    <2>4. tree'[q.dst] = tree[q.src]
      BY <1>2, <1>3, <2>3
    <2> QED BY <1>0, <1>4, <2>4 DEF Exists
  <1>5. CASE q.dst /= req[r].dst
    <2>1. PICK d \in {req[r].dst, Into(req[r].dst, req[r].src)} : q = [req[r] EXCEPT !.dst = d]
      BY DEF Aims
    <2>2. q.dst = Into(req[r].dst, req[r].src)
      BY <1>1, <1>5, <2>1 DEF Operations
    <2>3. tree[req[r].dst] = Collection
      BY <1>5, <2>2 DEF Into
    <2>4. req[r].dst \notin moved
      BY <1>0, <1>1, <1>3, CoversTransitive
    <2>5. req[r].dst \notin image
      <3> SUFFICES ASSUME NEW o \in moved, Image(q, o) = req[r].dst PROVE FALSE
        OBVIOUS
      <3>1. Covers(q.dst, req[r].dst)
        BY <1>1, TargetsArePath, ImageBelow
      <3>2. Len(q.dst) <= Len(req[r].dst)
        BY <1>3, <3>1, CoversElements
      <3>3. q.dst = Append(req[r].dst, Last(req[r].src)) /\ Last(req[r].src) \in STRING
        BY <1>1, <2>2, <2>3, OperationFacts, LastName DEF Into
      <3>4. Len(q.dst) = Len(req[r].dst) + 1 /\ Len(req[r].dst) \in Nat
        BY <1>3, <3>3 DEF Path
      <3> QED BY <3>2, <3>4
    <2>6. tree'[req[r].dst] = Collection
      BY <1>2, <1>3, <2>3, <2>4, <2>5
    <2> QED BY <2>6, NodesDiffer
  <1> QED BY <1>4, <1>5

\* The end of a removal is that nothing is at its path.
LEMMA RemovedTold ==
  ASSUME IInv, NEW r \in Requests, RemoveFile(r) \/ RemoveTop(r), at'[r] = "told"
  PROVE  Fulfilled(r, req[r])
  <1>1. /\ Removing(r) /\ Removed(r) /\ tree' = [tree EXCEPT ![Base(r)] = Absent]
    BY DEF RemoveFile, RemoveTop, Rmdir
  <1>2. Base(r) \in Targets
    BY <1>1, BaseReached
  <1>3. tree'[Base(r)] = Absent
    BY <1>1, <1>2 DEF IInv, Types
  <1>4. req[r] \in Operations /\ Serves(at[r], req[r].op)
    BY <1>1 DEF Removing, Resting, IInv, Busy
  <1>5. CASE at[r] = "uprooting"
    BY <1>3, <1>4, <1>5 DEF Base, Serves, Fulfilled
  <1>6. CASE at[r] = "clearing" /\ req[r].op = "delete"
    BY <1>3, <1>6 DEF Base, Fulfilled
  <1>7. CASE at[r] = "clearing" /\ req[r].op \in {"copy", "move"}
    <2>1. PICK place \in {"moving", "copying"} : at' = [at EXCEPT ![r] = place]
      BY <1>1, <1>7 DEF Removed, GoTo
    <2> QED BY <2>1 DEF IInv, Types
  <1> QED BY <1>1, <1>4, <1>5, <1>6, <1>7 DEF Removing, Serves

LEMMA Told ==
  ASSUME IInv, NEW r \in Requests, Handle(r), at'[r] = "told"
  PROVE  Fulfilled(r, req[r])
  <1>0. \A place : GoTo(r, place) => place = "told"
    BY GoesTo
  <1>1. CASE Acquire(r)
    <2>1. /\ at[r] = "locking" /\ issued' = issued + 1 /\ issued /= MaxTokens
          /\ lock' = [lock EXCEPT ![issued'] = req[r].src]
      BY <1>0, <1>1 DEF Acquire
    <2>2. issued + 1 \in Tokens
      BY <2>1, TokensAssumption DEF IInv, Types, Tokens
    <2>3. lock'[issued + 1] = req[r].src
      BY <2>1, <2>2 DEF IInv, Types
    <2>4. req[r].op = "lock"
      BY <2>1 DEF IInv, Busy, Serves, Resting
    <2> QED BY <2>2, <2>3, <2>4 DEF Fulfilled
  <1>2. CASE PutReplace(r)
    <2>1. PICK file \in {Whole, Short} :
            tree' = [tree EXCEPT ![req[r].dst] = file] /\ Done(r, Answer(file))
      BY <1>2 DEF PutReplace
    <2>2. file = Whole
      <3>1. Answer(file) \/ GoTo(r, "idle")
        BY <2>1 DEF Done
      <3> QED BY <1>0, <3>1 DEF Answer
    <2>3. at[r] = "feeding"
      BY <1>2 DEF PutReplace
    <2>4. req[r].op = "put" /\ req[r].dst \in Targets
      BY <2>3, OperationFacts DEF IInv, Busy, Serves, Resting
    <2>5. tree'[req[r].dst] = Whole
      BY <2>1, <2>2, <2>4 DEF IInv, Types
    <2> QED BY <2>4, <2>5 DEF Fulfilled
  <1>3. CASE Mkcol(r)
    <2>1. at[r] = "checked" /\ req[r].op = "mkcol" /\ tree' = [tree EXCEPT ![req[r].dst] = Collection]
      BY <1>3 DEF Mkcol
    <2>2. req[r].dst \in Targets
      BY <2>1, OperationFacts DEF IInv, Busy, Resting
    <2>3. tree'[req[r].dst] = Collection
      BY <2>1, <2>2 DEF IInv, Types
    <2> QED BY <2>1, <2>3 DEF Fulfilled
  <1>4. CASE RemoveFile(r) \/ RemoveTop(r)
    BY <1>4, RemovedTold
  <1>5. CASE Rename(r)
    <2>1. req[r].op = "move" /\ at[r] = "moving"
      BY <1>5 DEF Rename, IInv, Busy, Serves, Resting
    <2>2. tree'[req[r].dst] /= Absent
      BY <1>5, RenameArrives
    <2> QED BY <2>1, <2>2 DEF Fulfilled
  <1>6. CASE Finish(r)
    <2>1. /\ at[r] = "copying" /\ todo[r] = {} /\ intact[r] /\ UNCHANGED tree
          /\ Exists(req[r].src) /\ Exists(req[r].dst)
      BY <1>6 DEF Finish
    <2>2. req[r].op /= "move"
      BY <1>0, <1>6 DEF Finish
    <2>3. req[r].op = "copy"
      BY <2>1, <2>2 DEF IInv, Busy, Serves, Resting
    <2> QED BY <2>1, <2>3 DEF Fulfilled, Exists
  <1>7. CASE Refused(r) \/ PutAbort(r) \/ Stop(r)
    <2>1. GoTo(r, "idle")
      BY <1>7 DEF Refused, PutAbort, Stop, Done
    <2> QED BY <1>0, <2>1
  <1>8. CASE PutOpen(r) \/ Begin(r) \/ Across(r) \/ CopyFile(r) \/ Fill(r)
    <2>1. PICK place \in {"feeding", "clearing", "moving", "copying", "filling"} : GoTo(r, place)
      BY <1>8 DEF PutOpen, Begin, Across, CopyFile, Fill
    <2> QED BY <1>0, <2>1
  <1>9. CASE OpenTop(r) \/ Unlink(r) \/ Descend(r) \/ Ascend(r) \/ MakeParent(r) \/ CopyCollection(r)
             \/ LeaveOut(r)
    <2>1. UNCHANGED at /\ (Removing(r) \/ at[r] = "copying")
      BY <1>9 DEF OpenTop, Unlink, Descend, Ascend, InLast, MakeParent, CopyCollection, LeaveOut, clients
    <2> QED BY <2>1 DEF Removing
  <1> QED BY <1>1, <1>2, <1>3, <1>4, <1>5, <1>6, <1>7, <1>8, <1>9 DEF Handle

\* What is copied is removed only when the copy is complete.
LEMMA Uprooted ==
  ASSUME IInv, NEW r \in Requests, Handle(r), at[r] = "copying", at'[r] = "uprooting"
  PROVE  Finish(r)
  <1>0. \A place : GoTo(r, place) => place = "uprooting"
    BY GoesTo
  <1>1. CASE Stop(r)
    <2>1. GoTo(r, "idle")
      BY <1>1 DEF Stop, Done
    <2> QED BY <1>0, <2>1
  <1>2. CASE CopyFile(r)
    BY <1>0, <1>2 DEF CopyFile
  <1>3. CASE MakeParent(r) \/ CopyCollection(r) \/ LeaveOut(r)
    BY <1>3 DEF MakeParent, CopyCollection, LeaveOut, clients
  <1>4. ~Acquire(r) /\ ~Refused(r) /\ ~PutOpen(r) /\ ~PutReplace(r) /\ ~PutAbort(r) /\ ~Mkcol(r)
        /\ ~Begin(r) /\ ~RemoveFile(r) /\ ~OpenTop(r) /\ ~Unlink(r) /\ ~Descend(r) /\ ~Ascend(r)
        /\ ~RemoveTop(r) /\ ~Rename(r) /\ ~Across(r) /\ ~Fill(r)
    BY DEF Acquire, Refused, PutOpen, PutReplace, PutAbort, Mkcol, Begin, Hold, RemoveFile, OpenTop,
           Unlink, InLast, Descend, Ascend, RemoveTop, Removing, Rename, Across, Fill
  <1> QED BY <1>1, <1>2, <1>3, <1>4 DEF Handle

\* A success is true as the write lock is given back, whatever the other
\* requests did to the tree, and a MOVE that had to copy removes its source
\* only after a copy that left nothing out; for any tree and any number of
\* clients (_webdav.py:309-446, 545-567).
THEOREM SuccessIsTrue == Spec => AnswersTrue
  <1> DEFINE True == \A r \in Requests :
               /\ at[r] \notin Resting /\ at'[r] = "told" => Fulfilled(r, req[r])
               /\ at[r] = "copying" /\ at'[r] = "uprooting" =>
                    Exists(req[r].src) /\ Exists(req[r].dst) /\ todo[r] = {} /\ intact[r]
  <1>1. IInv /\ [Next]_vars => [True]_vars
    <2> SUFFICES ASSUME IInv, [Next]_vars, NEW r \in Requests
                 PROVE  /\ at[r] \notin Resting /\ at'[r] = "told" => Fulfilled(r, req[r])
                        /\ at[r] = "copying" /\ at'[r] = "uprooting" =>
                             Exists(req[r].src) /\ Exists(req[r].dst) /\ todo[r] = {} /\ intact[r]
      OBVIOUS
    <2>1. ASSUME at[r] \notin Resting, at'[r] = "told" PROVE Fulfilled(r, req[r])
      <3>1. Handle(r)
        BY <2>1, OthersStay DEF Resting
      <3> QED BY <2>1, <3>1, Told
    <2>2. ASSUME at[r] = "copying", at'[r] = "uprooting"
          PROVE  Exists(req[r].src) /\ Exists(req[r].dst) /\ todo[r] = {} /\ intact[r]
      <3>1. Handle(r)
        BY <2>2, OthersStay DEF Resting
      <3> QED BY <2>2, <3>1, Uprooted DEF Finish
    <2> QED BY <2>1, <2>2
  <1> QED BY <1>1, Inductive, PTL DEF Spec, AnswersTrue
=============================================================================
