--------------------------- MODULE ResumableProofs ---------------------------
(***************************************************************************)
(* Theorems about Resumable, for all sets of requests and targets and      *)
(* every size limit and budget.  The argument: a handler that is past the  *)
(* lock is the only one on its target; so the size it read before the body *)
(* stays the size of the sidecar but for what it appends, every sidecar is *)
(* a prefix of the client's file at all times, and what is committed is    *)
(* the prefix of the declared size.                                        *)
(* And about Tftp, whose writers share the locks: its argument is below,   *)
(* before its lemmas.                                                      *)
(***************************************************************************)
EXTENDS Resumable, Tftp, FiniteSetTheorems, TLAPS

\* A prefix of the client's file that respects the size limit.
InOrder(b) ==
  /\ b \in Seq(Nat)
  /\ Len(b) <= MaxUploadSize
  /\ \A i \in 1..Len(b) : b[i] = i - 1

PartsInOrder == \A t \in Targets : Exists(part[t]) => InOrder(part[t])

TargetsWhole ==
  \A t \in Targets : Exists(target[t]) =>
     /\ target[t].total \in Sizes
     /\ target[t].body = [i \in 1..target[t].total |-> i - 1]

\* What the place of a handler says about its lock, its sidecar and its body.
RequestOK(r) ==
  /\ at[r] = "idle" => held[r] = {}
  /\ at[r] /= "idle" => put[r] \in Puts /\ held[r] = {put[r].t}
  /\ at[r] \in {"idle", "locked", "claiming", "opening"} => written[r] = 0
  /\ at[r] = "claiming" => put[r].kind = "ranged"
  /\ at[r] \in {"opening", "feeding", "appended", "committing"} => put[r].kind \in {"whole", "ranged"}
  /\ at[r] \in {"claiming", "opening"} =>
       put[r].start = Stored(put[r].t) /\ put[r].start + put[r].len <= MaxUploadSize
  /\ at[r] \in {"feeding", "appended", "committing"} =>
       /\ Exists(part[put[r].t])
       /\ Len(part[put[r].t]) = put[r].start + written[r]
       /\ written[r] <= put[r].len
       /\ put[r].start + put[r].len <= MaxUploadSize
  /\ at[r] = "committing" =>
       put[r].total \in Sizes /\ put[r].total = Len(part[put[r].t])
  /\ at[r] \in {"opening", "feeding", "appended", "committing"} /\ put[r].kind = "whole" =>
       MayReplace(put[r].t)

IInv ==
  /\ TypeOK
  /\ MutualExclusion
  /\ PartsInOrder
  /\ TargetsWhole
  /\ \A r \in Requests : RequestOK(r)

-----------------------------------------------------------------------------
(* Lemmas about files and requests                                         *)

LEMMA PutFacts ==
  ASSUME NEW p \in Puts
  PROVE  /\ p.kind \in {"whole", "ranged", "query"} /\ p.t \in Targets
         /\ p.start \in Nat /\ p.len \in Nat
         /\ p.start \in Sizes /\ p.len \in Sizes
         /\ p.total \in Sizes \cup {None}
         /\ p.kind = "whole" => p.start = 0 /\ p.total = p.len
         /\ p.kind = "ranged" /\ p.total /= None => p.start + p.len <= p.total
  <1>1. /\ p.kind \in Kinds /\ p.t \in Targets /\ p.start \in Sizes /\ p.len \in Sizes
        /\ p.total \in Sizes \cup {None}
    BY DEF Puts
  <1>2. p.start \in Nat /\ p.len \in Nat
    BY <1>1, SizesAssumption DEF Sizes
  <1>3. /\ p.kind = "whole" => p.start = 0 /\ p.total = p.len
        /\ p.kind = "ranged" /\ p.total /= None => p.start + p.len <= p.total
    BY DEF Puts
  <1> QED BY <1>1, <1>2, <1>3, KindsAssumption

LEMMA InOrderIsBody ==
  ASSUME NEW b, InOrder(b)
  PROVE  b \in Bodies /\ Exists(b) /\ Len(b) \in Sizes
  <1>1. Len(b) \in Sizes
    BY SizesAssumption DEF InOrder, Sizes
  <1>2. b \in [1..Len(b) -> Sizes]
    <2>1. b = [i \in 1..Len(b) |-> b[i]]
      BY DEF InOrder
    <2>2. \A i \in 1..Len(b) : b[i] \in Sizes
      BY <1>1, SizesAssumption DEF InOrder, Sizes
    <2> QED BY <2>1, <2>2
  <1> QED BY <1>1, <1>2, NoneIsNoBody DEF Bodies, Exists

LEMMA InOrderIsPrefix ==
  ASSUME NEW b, InOrder(b)
  PROVE  b = [i \in 1..Len(b) |-> i - 1]
  <1>1. b = [i \in 1..Len(b) |-> b[i]]
    BY DEF InOrder
  <1>2. \A i \in 1..Len(b) : b[i] = i - 1
    BY DEF InOrder
  <1> QED BY <1>1, <1>2

LEMMA EmptyInOrder == InOrder(<<>>) /\ Len(<<>>) = 0
  BY SizesAssumption DEF InOrder

LEMMA AppendInOrder ==
  ASSUME NEW b, InOrder(b), Len(b) < MaxUploadSize
  PROVE  InOrder(Append(b, Len(b))) /\ Len(Append(b, Len(b))) = Len(b) + 1
  BY SizesAssumption DEF InOrder

\* What a step of another handler does to its own target leaves mine alone.
LEMMA OthersKeep ==
  ASSUME IInv, NEW r \in Requests, NEW s \in Requests, s /= r, at[r] /= "idle",
         at'[s] = at[s], put'[s] = put[s], written'[s] = written[s], held'[s] = held[s],
         overwrite' = overwrite,
         \A t \in Targets : t /= put[r].t => part'[t] = part[t] /\ target'[t] = target[t]
  PROVE  RequestOK(s)'
  <1>1. CASE at[s] = "idle"
    BY <1>1 DEF IInv, RequestOK
  <1>2. CASE at[s] /= "idle"
    <2>1. put[s] \in Puts /\ put[s].t \in Targets /\ put[s].t \in held[s] /\ put[r].t \in held[r]
      BY <1>2, PutFacts DEF IInv, RequestOK
    <2>2. put[s].t /= put[r].t
      BY <2>1 DEF IInv, MutualExclusion
    <2>3. part'[put[s].t] = part[put[s].t] /\ target'[put[s].t] = target[put[s].t]
      BY <2>1, <2>2
    <2>4. /\ Stored(put[s].t)' = Stored(put[s].t)
          /\ Exists(part[put[s].t])' <=> Exists(part[put[s].t])
          /\ MayReplace(put[s].t)' <=> MayReplace(put[s].t)
      BY <2>3 DEF Stored, MayReplace, Exists
    <2>5. RequestOK(s)
      BY DEF IInv
    <2> HIDE DEF IInv
    <2> QED BY <2>3, <2>4, <2>5 DEF RequestOK
  <1> QED BY <1>1, <1>2

LEMMA InitIInv == Init => IInv
  <1> SUFFICES ASSUME Init PROVE IInv
    OBVIOUS
  <1>1. TypeOK
    BY SizesAssumption DEF Init, HeldByNone, TypeOK, Places, Sizes
  <1>2. MutualExclusion
    BY DEF Init, HeldByNone, MutualExclusion
  <1>3. PartsInOrder /\ TargetsWhole
    BY DEF Init, PartsInOrder, TargetsWhole, Exists
  <1>4. ASSUME NEW r \in Requests PROVE RequestOK(r)
    BY DEF Init, HeldByNone, RequestOK
  <1> QED BY <1>1, <1>2, <1>3, <1>4 DEF IInv

-----------------------------------------------------------------------------
(* Steps                                                                   *)

\* A handler past the lock has a request and the lock of its target.
LEMMA Facts ==
  ASSUME IInv, NEW r \in Requests, at[r] /= "idle"
  PROVE  /\ put[r] \in Puts /\ put[r].t \in Targets /\ held[r] = {put[r].t}
         /\ put[r].start \in Nat /\ put[r].len \in Nat /\ put[r].kind \in {"whole", "ranged", "query"}
         /\ put[r].total \in Sizes \cup {None}
         /\ put[r].kind = "whole" => put[r].start = 0 /\ put[r].total = put[r].len
         /\ put[r].kind = "ranged" /\ put[r].total /= None => put[r].start + put[r].len <= put[r].total
         /\ written[r] \in Nat
         /\ Exists(part[put[r].t]) => InOrder(part[put[r].t])
  <1>1. put[r] \in Puts /\ held[r] = {put[r].t}
    BY DEF IInv, RequestOK
  <1>2. written[r] \in Nat
    BY SizesAssumption DEF IInv, TypeOK, Sizes
  <1>3. put[r].t \in Targets
    BY <1>1, PutFacts
  <1>4. Exists(part[put[r].t]) => InOrder(part[put[r].t])
    BY <1>3 DEF IInv, PartsInOrder
  <1> QED BY <1>1, <1>2, <1>3, <1>4, PutFacts

\* Files do not change, r moves on to a place that asks nothing new of it.
LEMMA QuietKeeps ==
  ASSUME IInv, NEW r \in Requests, at[r] /= "idle", NEW place \in {"leaving", "appended"},
         place = "appended" => at[r] = "feeding",
         GoTo(r, place), known' \in (SUBSET Targets) \cup {None},
         UNCHANGED <<held, target, part, overwrite, put, written>>
  PROVE  IInv'
  <1>1. TypeOK'
    BY DEF IInv, TypeOK, GoTo, Places
  <1>2. MutualExclusion' /\ PartsInOrder' /\ TargetsWhole'
    BY DEF IInv, MutualExclusion, PartsInOrder, TargetsWhole
  <1>3. ASSUME NEW s \in Requests PROVE RequestOK(s)'
    <2>1. CASE s /= r
      BY <2>1, OthersKeep DEF GoTo, IInv, TypeOK
    <2>2. CASE s = r
      <3>1. at'[s] = place
        BY <2>2 DEF GoTo, IInv, TypeOK
      <3>2. RequestOK(s)
        BY DEF IInv
      <3> QED BY <2>2, <3>1, <3>2 DEF RequestOK, MayReplace
    <2> QED BY <2>1, <2>2
  <1> QED BY <1>1, <1>2, <1>3 DEF IInv

\* r throws its sidecar away and leaves.
LEMMA DiscardKeeps ==
  ASSUME IInv, NEW r \in Requests, at[r] /= "idle", GoTo(r, "leaving"),
         part' = [part EXCEPT ![put[r].t] = None],
         known' \in (SUBSET Targets) \cup {None},
         UNCHANGED <<held, target, overwrite, put, written>>
  PROVE  IInv'
  <1>1. put[r].t \in Targets
    BY Facts
  <1>2. TypeOK'
    BY DEF IInv, TypeOK, GoTo, Places
  <1>3. MutualExclusion' /\ TargetsWhole'
    BY DEF IInv, MutualExclusion, TargetsWhole
  <1>4. PartsInOrder'
    BY <1>1 DEF IInv, TypeOK, PartsInOrder, Exists
  <1>5. ASSUME NEW s \in Requests PROVE RequestOK(s)'
    <2>1. CASE s /= r
      BY <2>1, OthersKeep DEF GoTo, IInv, TypeOK
    <2>2. CASE s = r
      <3>1. at'[s] = "leaving"
        BY <2>2 DEF GoTo, IInv, TypeOK
      <3>2. RequestOK(s)
        BY DEF IInv
      <3> QED BY <2>2, <3>1, <3>2 DEF RequestOK
    <2> QED BY <2>1, <2>2
  <1> QED BY <1>2, <1>3, <1>4, <1>5 DEF IInv

LEMMA ReleasedType ==
  ASSUME IInv, NEW t \in Targets PROVE Released(t) \in (SUBSET Targets) \cup {None}
  BY DEF IInv, TypeOK, Released

LEMMA LockKeeps ==
  ASSUME IInv, NEW r \in Requests, NEW p \in Puts, Lock(r, p)
  PROVE  IInv'
  <1>1. p.t \in Targets /\ at[r] = "idle" /\ held[r] = {} /\ written[r] = 0
    BY PutFacts DEF Lock, IInv, RequestOK
  <1>2. /\ held' = [held EXCEPT ![r] = @ \cup {p.t}]
        /\ put' = [put EXCEPT ![r] = p]
        /\ at' = [at EXCEPT ![r] = "locked"]
        /\ UNCHANGED <<target, part, known, overwrite, written>>
        /\ \A s \in Requests : p.t \notin held[s]
    BY DEF Lock, Take, Free, GoTo
  <1>3. TypeOK'
    BY <1>1, <1>2 DEF IInv, TypeOK, Places
  <1>4. MutualExclusion'
    BY <1>1, <1>2 DEF IInv, TypeOK, MutualExclusion
  <1>5. PartsInOrder' /\ TargetsWhole'
    BY <1>2 DEF IInv, PartsInOrder, TargetsWhole
  <1>6. ASSUME NEW s \in Requests PROVE RequestOK(s)'
    <2>0. RequestOK(s)
      BY DEF IInv
    <2>1. CASE s /= r
      <3>1. at'[s] = at[s] /\ put'[s] = put[s] /\ written'[s] = written[s] /\ held'[s] = held[s]
        BY <1>2, <2>1 DEF IInv, TypeOK
      <3> QED BY <1>2, <2>0, <3>1 DEF RequestOK, Stored, MayReplace
    <2>2. CASE s = r
      <3>1. at'[s] = "locked" /\ put'[s] = p /\ written'[s] = 0 /\ held'[s] = {p.t}
        BY <1>1, <1>2, <2>2 DEF IInv, TypeOK
      <3> QED BY <3>1 DEF RequestOK
    <2> QED BY <2>1, <2>2
  <1> QED BY <1>3, <1>4, <1>5, <1>6 DEF IInv

LEMMA InspectKeeps ==
  ASSUME IInv, NEW r \in Requests, Inspect(r)
  PROVE  IInv'
  <1> DEFINE t == put[r].t
  <1>0. at[r] = "locked" /\ written[r] = 0
    BY DEF Inspect, IInv, RequestOK
  <1>1. t \in Targets
    BY <1>0, Facts
  <1>2. Released(t) \in (SUBSET Targets) \cup {None}
    BY <1>1, ReleasedType
  <1>3. ASSUME NEW place \in {"claiming", "leaving"},
               GoTo(r, place),
               part' = part \/ part' = [part EXCEPT ![t] = None],
               place = "claiming" => Fits(put[r], Stored(t)'),
               known' \in (SUBSET Targets) \cup {None},
               UNCHANGED <<held, target, overwrite, put, written>>
        PROVE  IInv'
    <2>1. TypeOK'
      BY <1>1, <1>3 DEF IInv, TypeOK, GoTo, Places
    <2>2. MutualExclusion' /\ TargetsWhole'
      BY <1>3 DEF IInv, MutualExclusion, TargetsWhole
    <2>3. PartsInOrder'
      BY <1>1, <1>3 DEF IInv, TypeOK, PartsInOrder, Exists
    <2>4. ASSUME NEW s \in Requests PROVE RequestOK(s)'
      <3>1. CASE s /= r
        <4>1. \A u \in Targets : u /= t => part'[u] = part[u] /\ target'[u] = target[u]
          BY <1>1, <1>3 DEF IInv, TypeOK
        <4> QED BY <1>0, <1>3, <3>1, <4>1, OthersKeep DEF GoTo, IInv, TypeOK
      <3>2. CASE s = r
        <4>1. at'[s] = place /\ put'[s] = put[s] /\ held'[s] = held[s] /\ written'[s] = 0
          BY <1>0, <1>3, <3>2 DEF GoTo, IInv, TypeOK
        <4>2. put[s] \in Puts /\ held[s] = {put[s].t}
          BY <1>0, <3>2, Facts
        <4>3. place = "claiming" =>
                 /\ put[s].kind = "ranged" /\ put[s].start = Stored(put[s].t)'
                 /\ put[s].start + put[s].len <= MaxUploadSize
          BY <1>3, <3>2 DEF Fits
        <4> QED BY <4>1, <4>2, <4>3 DEF RequestOK
      <3> QED BY <3>1, <3>2
    <2> QED BY <2>1, <2>2, <2>3, <2>4 DEF IInv
  <1>4. CASE /\ GoTo(r, IF Fits(put[r], Stored(t)) THEN "claiming" ELSE "leaving")
             /\ UNCHANGED <<part, known>>
    <2>1. Stored(t)' = Stored(t)
      BY <1>4 DEF Stored, Inspect
    <2>2. known' \in (SUBSET Targets) \cup {None}
      BY <1>4 DEF IInv, TypeOK
    <2> QED BY <1>3, <1>4, <2>1, <2>2 DEF Inspect
  <1>5. CASE /\ Exists(part[t])
             /\ part' = [part EXCEPT ![t] = None]
             /\ known' = Released(t)
             /\ GoTo(r, IF Fits(put[r], 0) THEN "claiming" ELSE "leaving")
    <2>1. Stored(t)' = 0
      BY <1>1, <1>5 DEF Stored, Exists, Inspect, IInv, TypeOK
    <2> QED BY <1>2, <1>3, <1>5, <2>1 DEF Inspect
  <1> QED BY <1>4, <1>5 DEF Inspect

LEMMA ClaimKeeps ==
  ASSUME IInv, NEW r \in Requests, Claim(r)
  PROVE  IInv'
  <1>0. /\ at[r] = "claiming" /\ put[r].t \in Targets
        /\ UNCHANGED <<held, target, part, overwrite, put, written>>
    BY Facts DEF Claim
  <1>1. Inventory \in SUBSET Targets /\ Pruned(Inventory) \in SUBSET Targets
    <2>1. Inventory \in SUBSET Targets
      BY DEF Inventory, IInv, TypeOK
    <2> QED BY <2>1 DEF Pruned
  <1>2. known' \in (SUBSET Targets) \cup {None} /\ (GoTo(r, "opening") \/ GoTo(r, "leaving"))
    BY <1>0, <1>1 DEF Claim, IInv, TypeOK
  <1>3. CASE GoTo(r, "leaving")
    BY <1>0, <1>2, <1>3, QuietKeeps
  <1>4. CASE GoTo(r, "opening")
    <2>1. TypeOK'
      BY <1>0, <1>2, <1>4 DEF IInv, TypeOK, GoTo, Places
    <2>2. MutualExclusion' /\ PartsInOrder' /\ TargetsWhole'
      BY <1>0 DEF IInv, MutualExclusion, PartsInOrder, TargetsWhole
    <2>3. ASSUME NEW s \in Requests PROVE RequestOK(s)'
      <3>1. CASE s /= r
        BY <1>0, <1>4, <3>1, OthersKeep DEF GoTo, IInv, TypeOK
      <3>2. CASE s = r
        <4>1. at'[s] = "opening"
          BY <1>4, <3>2 DEF GoTo, IInv, TypeOK
        <4>2. RequestOK(s)
          BY DEF IInv
        <4> QED BY <1>0, <3>2, <4>1, <4>2 DEF RequestOK, Stored
      <3> QED BY <3>1, <3>2
    <2> QED BY <2>1, <2>2, <2>3 DEF IInv
  <1> QED BY <1>2, <1>3, <1>4

LEMMA StartWholeKeeps ==
  ASSUME IInv, NEW r \in Requests, StartWhole(r)
  PROVE  IInv'
  <1> DEFINE t == put[r].t
  <1>0. /\ at[r] = "locked" /\ put[r].kind = "whole" /\ written[r] = 0
        /\ UNCHANGED <<held, target, overwrite, put, written>>
    BY DEF StartWhole, IInv, RequestOK
  <1>1. t \in Targets /\ put[r].start = 0 /\ put[r].len \in Sizes
    BY <1>0, Facts, PutFacts
  <1>2. CASE ~MayReplace(t)
    <2>1. GoTo(r, "leaving") /\ UNCHANGED part /\ known' \in (SUBSET Targets) \cup {None}
      BY <1>2 DEF StartWhole, IInv, TypeOK
    <2> QED BY <1>0, <2>1, QuietKeeps
  <1>3. CASE MayReplace(t)
    <2>0. /\ part' = [part EXCEPT ![t] = None]
          /\ known' \in (SUBSET Targets) \cup {None}
          /\ at' = [at EXCEPT ![r] = "opening"]
      BY <1>1, <1>3, ReleasedType DEF StartWhole, GoTo
    <2>1. TypeOK'
      BY <1>0, <1>1, <2>0 DEF IInv, TypeOK, Places
    <2>2. MutualExclusion' /\ TargetsWhole'
      BY <1>0 DEF IInv, MutualExclusion, TargetsWhole
    <2>3. PartsInOrder'
      BY <1>1, <2>0 DEF IInv, TypeOK, PartsInOrder, Exists
    <2>4. ASSUME NEW s \in Requests PROVE RequestOK(s)'
      <3>1. CASE s /= r
        <4>1. \A u \in Targets : u /= t => part'[u] = part[u] /\ target'[u] = target[u]
          BY <1>0, <1>1, <2>0 DEF IInv, TypeOK
        <4> QED BY <1>0, <2>0, <3>1, <4>1, OthersKeep DEF IInv, TypeOK
      <3>2. CASE s = r
        <4>1. at'[s] = "opening" /\ put'[s] = put[s] /\ held'[s] = held[s] /\ written'[s] = 0
          BY <1>0, <2>0, <3>2 DEF IInv, TypeOK
        <4>2. put[s] \in Puts /\ held[s] = {put[s].t}
          BY <1>0, <3>2, Facts
        <4>3. Stored(put[s].t)' = 0 /\ MayReplace(put[s].t)'
          BY <1>0, <1>1, <1>3, <2>0, <3>2 DEF Stored, MayReplace, Exists, IInv, TypeOK
        <4>4. put[s].start + put[s].len <= MaxUploadSize
          BY <1>1, <3>2, SizesAssumption DEF Sizes
        <4> QED BY <1>0, <1>1, <3>2, <4>1, <4>2, <4>3, <4>4 DEF RequestOK
      <3> QED BY <3>1, <3>2
    <2> QED BY <2>1, <2>2, <2>3, <2>4 DEF IInv
  <1> QED BY <1>2, <1>3

\* A step that gives r's target a sidecar of written'[r] bytes past its start.
LEMMA BodyKeeps ==
  ASSUME IInv, NEW r \in Requests, at[r] \in {"opening", "feeding"},
         NEW b, InOrder(b), Len(b) = put[r].start + written'[r],
         part' = [part EXCEPT ![put[r].t] = b],
         NEW n \in Nat, n <= put[r].len, written' = [written EXCEPT ![r] = n],
         GoTo(r, "feeding"), UNCHANGED <<held, target, known, overwrite, put>>
  PROVE  IInv'
  <1>1. /\ put[r] \in Puts /\ put[r].t \in Targets /\ held[r] = {put[r].t}
        /\ put[r].start \in Nat /\ put[r].len \in Nat
    BY Facts
  <1>2. b \in Bodies /\ Exists(b)
    BY InOrderIsBody
  <1>3. put[r].start + put[r].len <= MaxUploadSize /\ put[r].kind \in {"whole", "ranged"}
    BY DEF IInv, RequestOK
  <1>4. n \in Sizes
    BY <1>1, <1>3, SizesAssumption DEF Sizes
  <1>5. TypeOK'
    BY <1>1, <1>2, <1>4 DEF IInv, TypeOK, GoTo, Places
  <1>6. MutualExclusion' /\ TargetsWhole'
    BY DEF IInv, MutualExclusion, TargetsWhole
  <1>7. PartsInOrder'
    BY <1>1 DEF IInv, TypeOK, PartsInOrder
  <1>8. ASSUME NEW s \in Requests PROVE RequestOK(s)'
    <2>1. CASE s /= r
      <3>1. \A u \in Targets : u /= put[r].t => part'[u] = part[u] /\ target'[u] = target[u]
        BY <1>1 DEF IInv, TypeOK
      <3>2. at'[s] = at[s] /\ put'[s] = put[s] /\ written'[s] = written[s] /\ held'[s] = held[s]
        BY <2>1 DEF GoTo, IInv, TypeOK
      <3> QED BY <2>1, <3>1, <3>2, OthersKeep
    <2>2. CASE s = r
      <3>1. at'[s] = "feeding" /\ put'[s] = put[s] /\ held'[s] = held[s] /\ written'[s] = n
        BY <2>2 DEF GoTo, IInv, TypeOK
      <3>2. part'[put[s].t] = b
        BY <1>1, <2>2 DEF IInv, TypeOK
      <3>3. put[s].kind = "whole" => MayReplace(put[s].t)'
        BY <2>2 DEF IInv, RequestOK, MayReplace
      <3> QED BY <1>1, <1>2, <1>3, <2>2, <3>1, <3>2, <3>3 DEF RequestOK
    <2> QED BY <2>1, <2>2
  <1> QED BY <1>5, <1>6, <1>7, <1>8 DEF IInv

LEMMA OpenKeeps ==
  ASSUME IInv, NEW r \in Requests, Open(r)
  PROVE  IInv'
  <1> DEFINE b == IF Exists(part[put[r].t]) THEN part[put[r].t] ELSE <<>>
             n == 0
  <1>1. at[r] = "opening" /\ written[r] = 0 /\ put[r].start = Stored(put[r].t)
    BY DEF Open, IInv, RequestOK
  <1>2. InOrder(b) /\ Len(b) = put[r].start
    BY <1>1, Facts, EmptyInOrder DEF Stored
  <1>3. put[r].start \in Nat /\ put[r].len \in Nat /\ put[r].t \in Targets
    BY <1>1, Facts
  <1>4. written' = [written EXCEPT ![r] = n] /\ written'[r] = n
    BY <1>1 DEF Open, IInv, TypeOK
  <1>5. part' = [part EXCEPT ![put[r].t] = b]
    BY <1>3 DEF Open, IInv, TypeOK
  <1>6. Len(b) = put[r].start + written'[r]
    BY <1>2, <1>3, <1>4
  <1>7. UNCHANGED <<held, target, known, overwrite, put>> /\ GoTo(r, "feeding")
    BY DEF Open
  <1>8. n \in Nat /\ n <= put[r].len
    BY <1>3
  <1> HIDE DEF b, n
  <1> QED BY <1>1, <1>2, <1>4, <1>5, <1>6, <1>7, <1>8, BodyKeeps

LEMMA FeedKeeps ==
  ASSUME IInv, NEW r \in Requests, Feed(r)
  PROVE  IInv'
  <1> DEFINE b == Append(part[put[r].t], put[r].start + written[r])
             n == written[r] + 1
  <1>1. /\ at[r] = "feeding" /\ Exists(part[put[r].t]) /\ written[r] < put[r].len
        /\ Len(part[put[r].t]) = put[r].start + written[r]
        /\ put[r].start + put[r].len <= MaxUploadSize
    BY DEF Feed, IInv, RequestOK
  <1>2. /\ put[r].start \in Nat /\ put[r].len \in Nat /\ put[r].t \in Targets
        /\ written[r] \in Nat /\ InOrder(part[put[r].t])
    BY <1>1, Facts
  <1>3. InOrder(b) /\ Len(b) = put[r].start + n
    <2>1. Len(part[put[r].t]) < MaxUploadSize
      BY <1>1, <1>2, SizesAssumption
    <2>2. b = Append(part[put[r].t], Len(part[put[r].t]))
      BY <1>1
    <2>3. InOrder(b) /\ Len(b) = Len(part[put[r].t]) + 1
      BY <1>2, <2>1, <2>2, AppendInOrder
    <2> QED BY <1>1, <1>2, <2>3
  <1>4. written' = [written EXCEPT ![r] = n] /\ written'[r] = n
    BY DEF Feed, IInv, TypeOK
  <1>5. part' = [part EXCEPT ![put[r].t] = b]
    BY <1>2 DEF Feed, IInv, TypeOK
  <1>6. n \in Nat /\ n <= put[r].len
    BY <1>1, <1>2
  <1>7. UNCHANGED <<held, target, known, overwrite, put>> /\ GoTo(r, "feeding")
    BY <1>1 DEF Feed, GoTo, IInv, TypeOK
  <1> HIDE DEF b, n
  <1>8. Len(b) = put[r].start + written'[r]
    BY <1>3, <1>4
  <1> QED BY <1>1, <1>3, <1>4, <1>5, <1>6, <1>7, <1>8, BodyKeeps

LEMMA EndOfBodyKeeps ==
  ASSUME IInv, NEW r \in Requests, EndOfBody(r)
  PROVE  IInv'
  <1>1. at[r] = "feeding" /\ GoTo(r, "appended") /\ known' \in (SUBSET Targets) \cup {None}
    BY DEF EndOfBody, IInv, TypeOK
  <1>2. UNCHANGED <<held, target, part, overwrite, put, written>>
    BY DEF EndOfBody
  <1> QED BY <1>1, <1>2, QuietKeeps

\* The steps that go to "leaving" and leave the files as they are.
LEMMA GiveUpKeeps ==
  ASSUME IInv, NEW r \in Requests,
         Malformed(r) \/ DiskError(r) \/ CommitRefused(r) \/ CommitFails(r) \/ Release(r)
  PROVE  IInv'
  <1>1. at[r] /= "idle" /\ GoTo(r, "leaving")
    BY DEF Malformed, DiskError, CommitRefused, CommitFails, Release
  <1>2. put[r].t \in Targets
    BY <1>1, Facts
  <1>3. known' \in (SUBSET Targets) \cup {None}
    BY <1>2, ReleasedType
       DEF Malformed, DiskError, CommitRefused, CommitFails, Release, IInv, TypeOK
  <1>4. UNCHANGED <<held, target, part, overwrite, put, written>>
    BY DEF Malformed, DiskError, CommitRefused, CommitFails, Release
  <1> QED BY <1>1, <1>3, <1>4, QuietKeeps

LEMMA BodyTimeoutKeeps ==
  ASSUME IInv, NEW r \in Requests, BodyTimeout(r)
  PROVE  IInv'
  <1>1. /\ at[r] /= "idle" /\ GoTo(r, "leaving")
        /\ known' \in (SUBSET Targets) \cup {None}
        /\ UNCHANGED <<held, target, overwrite, put, written>>
    BY DEF BodyTimeout, IInv, TypeOK
  <1>2. part' = [part EXCEPT ![put[r].t] = None] \/ UNCHANGED part
    BY DEF BodyTimeout
  <1>3. CASE part' = [part EXCEPT ![put[r].t] = None]
    BY <1>1, <1>3, DiscardKeeps
  <1>4. CASE UNCHANGED part
    <2>1. UNCHANGED <<held, target, part, overwrite, put, written>>
      BY <1>1, <1>4
    <2> QED BY <1>1, <2>1, QuietKeeps
  <1> QED BY <1>2, <1>3, <1>4

\* A body that is complete has brought the sidecar to the declared size: not
\* below it, for all bytes are there, and not above, for the range ends in it.
LEMMA FinishKeeps ==
  ASSUME IInv, NEW r \in Requests, Finish(r)
  PROVE  IInv'
  <1>1. /\ at[r] = "appended" /\ at[r] /= "idle"
        /\ known' \in (SUBSET Targets) \cup {None}
        /\ UNCHANGED <<held, target, known, overwrite, put, written>>
    BY DEF Finish, IInv, TypeOK
  <1>2. CASE ~Complete(put[r], written[r])
    <2>1. GoTo(r, "leaving")
      BY <1>2 DEF Finish
    <2>2. CASE put[r].kind = "whole"
      <3>1. part' = [part EXCEPT ![put[r].t] = None]
        BY <1>2, <2>2 DEF Finish
      <3> QED BY <1>1, <2>1, <3>1, DiscardKeeps
    <2>3. CASE put[r].kind /= "whole"
      <3>1. UNCHANGED <<held, target, part, overwrite, put, written>>
        BY <1>1, <2>3 DEF Finish
      <3> QED BY <1>1, <2>1, <3>1, QuietKeeps
    <2> QED BY <2>2, <2>3
  <1>3. CASE Complete(put[r], written[r])
    <2>1. at' = [at EXCEPT ![r] = "committing"] /\ UNCHANGED part
      BY <1>3 DEF Finish, GoTo
    <2>2. /\ put[r].start \in Nat /\ put[r].len \in Nat /\ written[r] \in Nat
          /\ put[r].total \in Sizes \cup {None}
          /\ put[r].kind = "whole" => put[r].start = 0 /\ put[r].total = put[r].len
          /\ put[r].kind = "ranged" /\ put[r].total /= None =>
               put[r].start + put[r].len <= put[r].total
          /\ put[r].t \in Targets
      BY <1>1, Facts
    <2>3. /\ put[r].kind \in {"whole", "ranged"}
          /\ Len(part[put[r].t]) = put[r].start + written[r]
          /\ written[r] <= put[r].len
      BY <1>1 DEF IInv, RequestOK
    <2>4. put[r].total \in Sizes /\ put[r].total = Len(part[put[r].t])
      <3>1. CASE put[r].kind = "whole"
        <4>1. put[r].total \in Sizes
          BY <1>1, <3>1, Facts, PutFacts
        <4>2. written[r] = put[r].len
          BY <1>3, <3>1 DEF Complete
        <4> QED BY <2>2, <2>3, <3>1, <4>1, <4>2
      <3>2. CASE put[r].kind = "ranged"
        <4>1. put[r].total /= None /\ put[r].start + written[r] >= put[r].total
          BY <1>3, <3>2 DEF Complete
        <4>2. put[r].total \in Sizes /\ put[r].total \in Nat
          BY <2>2, <4>1, SizesAssumption DEF Sizes
        <4> QED BY <2>2, <2>3, <3>2, <4>1, <4>2
      <3> QED BY <2>3, <3>1, <3>2
    <2>5. TypeOK'
      BY <1>1, <2>1 DEF IInv, TypeOK, Places
    <2>6. MutualExclusion' /\ PartsInOrder' /\ TargetsWhole'
      BY <1>1, <2>1 DEF IInv, MutualExclusion, PartsInOrder, TargetsWhole
    <2>7. ASSUME NEW s \in Requests PROVE RequestOK(s)'
      <3>1. CASE s /= r
        BY <1>1, <2>1, <3>1, OthersKeep DEF IInv, TypeOK
      <3>2. CASE s = r
        <4>1. at'[s] = "committing"
          BY <2>1, <3>2 DEF IInv, TypeOK
        <4>2. RequestOK(s)
          BY DEF IInv
        <4>3. put'[s].total \in Sizes /\ put'[s].total = Len(part'[put'[s].t])
          BY <1>1, <2>1, <2>4, <3>2
        <4> QED BY <1>1, <2>1, <3>2, <4>1, <4>2, <4>3 DEF RequestOK, MayReplace
      <3> QED BY <3>1, <3>2
    <2> QED BY <2>5, <2>6, <2>7 DEF IInv
  <1> QED BY <1>2, <1>3

\* What is renamed over the target is a file in order, of the declared size.
LEMMA CommitKeeps ==
  ASSUME IInv, NEW r \in Requests, Commit(r)
  PROVE  IInv'
  <1> DEFINE t == put[r].t
             f == [body |-> part[t], total |-> put[r].total]
  <1>1. /\ at[r] = "committing" /\ at[r] /= "idle"
        /\ target' = [target EXCEPT ![t] = f]
        /\ part' = [part EXCEPT ![t] = None]
        /\ at' = [at EXCEPT ![r] = "committed"]
        /\ UNCHANGED <<held, known, overwrite, put, written>>
    BY DEF Commit, GoTo
  <1>2. t \in Targets /\ put[r] \in Puts /\ held[r] = {t} /\ InOrder(part[t])
    BY <1>1, Facts DEF IInv, RequestOK
  <1>3. put[r].total \in Sizes /\ put[r].total = Len(part[t])
    BY <1>1 DEF IInv, RequestOK
  <1>4. f.total \in Sizes /\ f.body = [i \in 1..f.total |-> i - 1]
    <2>1. part[t] = [i \in 1..Len(part[t]) |-> i - 1]
      BY <1>2, InOrderIsPrefix
    <2> QED BY <1>3, <2>1
  <1>5. f \in [body : Bodies, total : Sizes]
    BY <1>2, <1>3, InOrderIsBody
  <1> HIDE DEF f
  <1>6. TypeOK'
    BY <1>1, <1>2, <1>5 DEF IInv, TypeOK, Places
  <1>7. MutualExclusion'
    BY <1>1 DEF IInv, MutualExclusion
  <1>8. PartsInOrder'
    BY <1>1, <1>2 DEF IInv, TypeOK, PartsInOrder, Exists
  <1>9. TargetsWhole'
    BY <1>1, <1>2, <1>4 DEF IInv, TypeOK, TargetsWhole
  <1>10. ASSUME NEW s \in Requests PROVE RequestOK(s)'
    <2>1. CASE s /= r
      <3>1. \A u \in Targets : u /= t => part'[u] = part[u] /\ target'[u] = target[u]
        BY <1>1, <1>2 DEF IInv, TypeOK
      <3>2. at'[s] = at[s] /\ put'[s] = put[s] /\ written'[s] = written[s] /\ held'[s] = held[s]
        BY <1>1, <2>1 DEF IInv, TypeOK
      <3>3. UNCHANGED overwrite
        BY <1>1
      <3> QED BY <1>1, <2>1, <3>1, <3>2, <3>3, OthersKeep
    <2>2. CASE s = r
      <3>1. at'[s] = "committed" /\ put'[s] = put[s] /\ held'[s] = held[s]
        BY <1>1, <2>2 DEF IInv, TypeOK
      <3> QED BY <1>2, <2>2, <3>1 DEF RequestOK
    <2> QED BY <2>1, <2>2
  <1> QED BY <1>6, <1>7, <1>8, <1>9, <1>10 DEF IInv

LEMMA LeaveKeeps ==
  ASSUME IInv, NEW r \in Requests, Leave(r)
  PROVE  IInv'
  <1>1. /\ at[r] = "leaving" /\ at[r] /= "idle"
        /\ held' = [held EXCEPT ![r] = @ \ {put[r].t}]
        /\ put' = [put EXCEPT ![r] = None]
        /\ written' = [written EXCEPT ![r] = 0]
        /\ at' = [at EXCEPT ![r] = "idle"]
        /\ UNCHANGED <<target, part, known, overwrite>>
    BY DEF Leave, GiveBack, GoTo
  <1>2. held[r] = {put[r].t}
    BY <1>1, Facts
  <1>3. TypeOK'
    BY <1>1, SizesAssumption DEF IInv, TypeOK, Places, Sizes
  <1>4. MutualExclusion'
    BY <1>1 DEF IInv, TypeOK, MutualExclusion
  <1>5. PartsInOrder' /\ TargetsWhole'
    BY <1>1 DEF IInv, PartsInOrder, TargetsWhole
  <1>6. ASSUME NEW s \in Requests PROVE RequestOK(s)'
    <2>1. CASE s /= r
      BY <1>1, <2>1, OthersKeep DEF IInv, TypeOK
    <2>2. CASE s = r
      <3>1. at'[s] = "idle" /\ held'[s] = {} /\ written'[s] = 0
        BY <1>1, <1>2, <2>2 DEF IInv, TypeOK
      <3> QED BY <3>1 DEF RequestOK
    <2> QED BY <2>1, <2>2
  <1> QED BY <1>3, <1>4, <1>5, <1>6 DEF IInv

LEMMA RestartKeeps ==
  ASSUME IInv, Restart
  PROVE  IInv'
  <1>1. TypeOK'
    BY SizesAssumption DEF IInv, TypeOK, Restart, Places, Sizes
  <1>2. MutualExclusion' /\ PartsInOrder' /\ TargetsWhole'
    BY DEF IInv, MutualExclusion, PartsInOrder, TargetsWhole, Restart
  <1>3. ASSUME NEW s \in Requests PROVE RequestOK(s)'
    BY DEF Restart, RequestOK
  <1> QED BY <1>1, <1>2, <1>3 DEF IInv

LEMMA NextKeeps == IInv /\ [Next]_vars => IInv'
  <1> SUFFICES ASSUME IInv, [Next]_vars PROVE IInv'
    OBVIOUS
  <1>1. ASSUME NEW r \in Requests, Handle(r) PROVE IInv'
    <2>1. CASE Malformed(r) \/ DiskError(r) \/ CommitRefused(r) \/ CommitFails(r) \/ Release(r)
      BY <2>1, GiveUpKeeps
    <2>2. CASE Inspect(r)
      BY <2>2, InspectKeeps
    <2>3. CASE Claim(r)
      BY <2>3, ClaimKeeps
    <2>4. CASE StartWhole(r)
      BY <2>4, StartWholeKeeps
    <2>5. CASE Open(r)
      BY <2>5, OpenKeeps
    <2>6. CASE Feed(r)
      BY <2>6, FeedKeeps
    <2>7. CASE EndOfBody(r)
      BY <2>7, EndOfBodyKeeps
    <2>8. CASE BodyTimeout(r)
      BY <2>8, BodyTimeoutKeeps
    <2>9. CASE Finish(r)
      BY <2>9, FinishKeeps
    <2>10. CASE Commit(r)
      BY <2>10, CommitKeeps
    <2>11. CASE Leave(r)
      BY <2>11, LeaveKeeps
    <2> QED
      BY <1>1, <2>1, <2>2, <2>3, <2>4, <2>5, <2>6, <2>7, <2>8, <2>9, <2>10, <2>11 DEF Handle
  <1>2. ASSUME NEW r \in Requests, NEW p \in Puts, Lock(r, p) PROVE IInv'
    BY <1>2, LockKeeps
  <1>3. CASE Restart
    BY <1>3, RestartKeeps
  <1>4. CASE UNCHANGED vars
    <2>1. TypeOK'
      BY <1>4 DEF vars, IInv, TypeOK
    <2>2. MutualExclusion' /\ PartsInOrder' /\ TargetsWhole'
      BY <1>4 DEF vars, IInv, MutualExclusion, PartsInOrder, TargetsWhole
    <2>3. ASSUME NEW s \in Requests PROVE RequestOK(s)'
      <3>1. RequestOK(s)
        BY DEF IInv
      <3> QED BY <1>4, <3>1 DEF vars, RequestOK, Stored, MayReplace
    <2> QED BY <2>1, <2>2, <2>3 DEF IInv
  <1> QED BY <1>1, <1>2, <1>3, <1>4 DEF Next

-----------------------------------------------------------------------------
(* The theorems                                                            *)

\* The invariant is inductive: it holds at the start, and every step of every
\* handler keeps it, a kill and restart of the process among them.
THEOREM Inductive == Spec => []IInv
  <1>1. Init => IInv
    BY InitIInv
  <1>2. IInv /\ [Next]_vars => IInv'
    BY NextKeeps
  <1> QED BY <1>1, <1>2, PTL DEF Spec

\* Every variable keeps its type: no sidecar ever exceeds max_upload_size,
\* whatever chunks it is made of (handler.py:807).
THEOREM TypeCorrect == Spec => []TypeOK
  <1>1. IInv => TypeOK
    BY DEF IInv
  <1> QED BY <1>1, Inductive, PTL

\* What is served under a name is every byte of the declared size, each once
\* and in order: no partial, doubled or interleaved upload is ever renamed
\* over its target (_resumable.py:17-19).
THEOREM OnlyWholeFiles == Spec => []WholeBodies
  <1>1. IInv => WholeBodies
    BY DEF IInv, TargetsWhole, WholeBodies
  <1> QED BY <1>1, Inductive, PTL

\* The offset a ranged PUT reports to its client is the size of the sidecar,
\* though it computes it from a size read before the body (handler.py:828-834).
THEOREM OffsetsExact == Spec => []ReportExact
  <1>1. IInv => ReportExact
    BY DEF IInv, RequestOK, ReportExact
  <1> QED BY <1>1, Inductive, PTL

\* Types, whole files and exact offsets together: UploadsWhole.
THEOREM UploadsStayWhole == Spec => []UploadsWhole
  <1>1. TypeOK /\ WholeBodies /\ ReportExact => UploadsWhole
    BY DEF UploadsWhole
  <1> QED BY <1>1, TypeCorrect, OnlyWholeFiles, OffsetsExact, PTL

\* Without allow_overwrite an existing file never changes, though a plain PUT
\* checks for it before the body and renames after (handler.py:837-840, 861-866).
THEOREM NeverOverwrites == Spec => NoOverwrite
  <1> DEFINE Kept == \A t \in Targets : Exists(target[t]) /\ ~overwrite => target'[t] = target[t]
  <1>1. IInv /\ [Next]_vars => [Kept]_vars
    <2> SUFFICES ASSUME IInv, [Next]_vars, ~UNCHANGED vars PROVE Kept
      OBVIOUS
    <2>1. ASSUME NEW r \in Requests, Commit(r) PROVE Kept
      <3>1. put[r].t \in Targets /\ put[r].kind \in {"whole", "ranged"} /\ MayReplace(put[r].t)
        <4>1. at[r] = "committing"
          BY <2>1 DEF Commit
        <4>2. put[r].t \in Targets
          BY <4>1, Facts
        <4> QED BY <2>1, <4>1, <4>2 DEF Commit, IInv, RequestOK
      <3>2. \A u \in Targets : u /= put[r].t => target'[u] = target[u]
        BY <2>1, <3>1 DEF Commit, IInv, TypeOK
      <3> QED BY <3>1, <3>2 DEF MayReplace
    <2>2. ASSUME NEW r \in Requests, Handle(r), ~Commit(r) PROVE UNCHANGED target
      BY <2>2 DEF Handle, Malformed, Inspect, Claim, StartWhole, Open, Feed, EndOfBody,
                  BodyTimeout, DiskError, Finish, CommitRefused, CommitFails, Release, Leave
    <2>3. ASSUME NEW r \in Requests, NEW p \in Puts, Lock(r, p) PROVE UNCHANGED target
      BY <2>3 DEF Lock
    <2>4. Restart => UNCHANGED target
      BY DEF Restart
    <2> QED BY <2>1, <2>2, <2>3, <2>4 DEF Next
  <1> QED BY <1>1, Inductive, PTL DEF Spec, NoOverwrite

-----------------------------------------------------------------------------
(***************************************************************************)
(* TFTP.  A packet that counts is not older than a round of the block      *)
(* numbers, and neither side is more than one block ahead of the other: so *)
(* a number stands for one block only, what was read or written so far is  *)
(* the beginning of the file, and each block goes on where it ends.  A     *)
(* writer holds the lock of its file from the look at it to the rename, so *)
(* what it saw stays true.                                                 *)
(***************************************************************************)

\* The first k octets of the file.
Upto(k) == SubSeq(Content, 1, k)
\* Where the n-th block of b octets ends.
Reached(n, b) == IF n * b < Size THEN n * b ELSE Size

\* Division leaves a remainder.
LEMMA Division ==
  ASSUME NEW w \in Nat, w > 0, NEW x \in Int
  PROVE  x \div w \in Int /\ x = w * (x \div w) + (x % w)
  BY SMTT(30)

\* A packet that is not older than the numbers, nor newer than the one that is
\* awaited, and has its number, is that one: the numbers may come round.
LEMMA OnePacket ==
  ASSUME NEW i \in Int, NEW n \in Int, Answers(i, n), i <= n
  PROVE  i = n
  <1>1. Wrap \in Nat /\ Wrap > 0
    BY TftpAssumption
  <1>2. i % Wrap = n % Wrap /\ i > n - Wrap
    BY DEF Answers, Fresh, SameNumber
  <1> DEFINE p == i \div Wrap  q == n \div Wrap  w == Wrap
  <1>3. p \in Int /\ q \in Int /\ i = w * p + (i % w) /\ n = w * q + (n % w)
    BY <1>1, Division
  <1>4. p \in Int /\ q \in Int /\ n - i = w * q - w * p
    <2> HIDE DEF p, q
    <2> QED BY <1>1, <1>2, <1>3
  <1>5. w \in Int /\ w > 0 /\ 0 <= w * q - w * p /\ w * q - w * p < w
    BY <1>1, <1>2, <1>4
  <1> HIDE DEF p, q, w
  <1>6. q - p \in Int /\ w * q - w * p = w * (q - p)
    BY <1>4, <1>5
  <1>7. q - p >= 1 => w * (q - p) >= w
    BY <1>5, <1>6
  <1>8. q - p <= -1 => w * (q - p) <= -w
    BY <1>5, <1>6
  <1>9. q - p = 0
    BY <1>5, <1>6, <1>7, <1>8
  <1>10. w * (q - p) = 0
    BY <1>5, <1>9
  <1> QED BY <1>4, <1>6, <1>10

\* What is assumed of the constants.
LEMMA TftpSizes ==
  /\ Size \in Nat /\ Wrap \in Nat /\ MaxTransfers \in Nat /\ Retries \in Nat /\ WriteLimit \in Nat
  /\ MinBlock \in Nat /\ MinBlock > 0 /\ MaxBlock \in Int /\ DefaultBlock \in MinBlock..MaxBlock
  /\ \A b \in MinBlock..MaxBlock : b \in Nat /\ b > 0
  /\ Transfers \subseteq Requests /\ Path \in Targets /\ Absent \notin Requests /\ Absent \notin Int
  BY TftpAssumption

\* The file is a sequence of Size octets.
LEMMA ContentIs ==
  /\ Content \in Seq(Int) /\ Len(Content) = Size /\ DOMAIN Content = 1..Size
  /\ \A i \in 1..Size : Content[i] = i
  BY TftpSizes DEF Content

\* What lies between two places in the file.
LEMMA PieceIs ==
  ASSUME NEW lo \in Nat, NEW hi \in Nat, lo <= hi, hi <= Size
  PROVE  /\ SubSeq(Content, lo + 1, hi) \in Seq(Int)
         /\ Len(SubSeq(Content, lo + 1, hi)) = hi - lo
         /\ \A i \in 1..(hi - lo) : SubSeq(Content, lo + 1, hi)[i] = lo + i
  BY TftpSizes, ContentIs

\* Two sequences with the same octets are one.
LEMMA SameOctets ==
  ASSUME NEW s \in Seq(Int), NEW u \in Seq(Int), Len(s) = Len(u),
         \A i \in 1..Len(s) : s[i] = u[i]
  PROVE  s = u
  OBVIOUS

\* The beginning of the file is a sequence.
LEMMA UptoIs ==
  ASSUME NEW k \in Nat, k <= Size
  PROVE  /\ Upto(k) \in Seq(Int) /\ Len(Upto(k)) = k
         /\ \A i \in 1..k : Upto(k)[i] = i
  <1>1. /\ SubSeq(Content, 0 + 1, k) \in Seq(Int) /\ Len(SubSeq(Content, 0 + 1, k)) = k - 0
        /\ \A i \in 1..(k - 0) : SubSeq(Content, 0 + 1, k)[i] = 0 + i
    <2>1. 0 \in Nat /\ 0 <= k
      OBVIOUS
    <2> QED BY <2>1, PieceIs
  <1>2. 0 + 1 = 1 /\ k - 0 = k
    OBVIOUS
  <1> QED BY <1>1, <1>2 DEF Upto

\* The beginning of the file is one of its prefixes, up to the whole of it.
LEMMA Whole ==
  /\ Upto(0) = <<>> /\ Upto(Size) = Content /\ Content # NoFile /\ <<>> # NoFile
  /\ \A k \in Nat : k <= Size => Upto(k) # NoFile /\ IsPrefix(Upto(k), Content)
  <1>1. Upto(Size) = Content
    BY ContentIs, TftpSizes, UptoIs
  <1>2. \A k \in Nat : k <= Size => Upto(k) # NoFile
    <2> TAKE k \in Nat
    <2>1. NoFile[1] = -1 /\ Len(NoFile) = 1
      BY DEF NoFile
    <2> QED BY <2>1, UptoIs
  <1>3. \A k \in Nat : k <= Size => IsPrefix(Upto(k), Content)
    <2> SUFFICES ASSUME NEW k \in Nat, k <= Size PROVE IsPrefix(Upto(k), Content)
      OBVIOUS
    <2>1. Len(Upto(k)) = k /\ Upto(k) \in Seq(Int)
      BY UptoIs
    <2>2. SubSeq(Upto(k), 1, k) = Upto(k)
      BY <2>1
    <2> QED BY <2>1, <2>2, ContentIs DEF IsPrefix, Upto
  <1>4. Upto(0) = <<>>
    BY UptoIs, TftpSizes
  <1>5. <<>> # NoFile
    BY DEF NoFile
  <1> QED BY <1>1, <1>2, <1>3, <1>4, <1>5, TftpSizes

\* The next block goes on where the last one ended; one that is shorter than
\* the others ends the file.
LEMMA NextPart ==
  ASSUME NEW n \in Nat, n >= 1, NEW b \in Nat, b >= 1, (n - 1) * b <= Size
  PROVE  /\ Part(n, b) \in Seq(Int)
         /\ Len(Part(n, b)) <= b
         /\ Len(Part(n, b)) < b => Upto((n - 1) * b) \o Part(n, b) = Content
         /\ ~(Len(Part(n, b)) < b) => n * b <= Size /\ Upto((n - 1) * b) \o Part(n, b) = Upto(n * b)
         /\ n * b <= Size => Len(Part(n, b)) = b
  <1> DEFINE lo == (n - 1) * b  hi == Reached(n, b)  piece == SubSeq(Content, lo + 1, hi)
  <1>1. n * b = lo + b /\ lo \in Nat
    BY TftpSizes
  <1>2. Part(n, b) = piece
    BY DEF Part, Reached
  <1>3. hi = IF lo + b < Size THEN lo + b ELSE Size
    BY <1>1 DEF Reached
  <1> HIDE DEF lo, hi
  <1>4. hi \in Nat /\ lo <= hi /\ hi <= Size
    BY <1>1, <1>3, TftpSizes DEF lo
  <1>5. piece \in Seq(Int) /\ Len(piece) = hi - lo /\ \A i \in 1..(hi - lo) : piece[i] = lo + i
    BY <1>1, <1>4, PieceIs
  <1>6. Upto(lo) \in Seq(Int) /\ Len(Upto(lo)) = lo /\ \A i \in 1..lo : Upto(lo)[i] = i
    BY <1>1, <1>4, TftpSizes, UptoIs
  <1>7. Upto(hi) \in Seq(Int) /\ Len(Upto(hi)) = hi /\ \A i \in 1..hi : Upto(hi)[i] = i
    BY <1>4, UptoIs
  <1> HIDE DEF piece
  <1>8. Upto(lo) \o piece = Upto(hi)
    <2> DEFINE a == Upto(lo)  c == Upto(hi)
    <2> HIDE DEF a, c
    <2>1. a \o piece \in Seq(Int) /\ Len(a \o piece) = hi
      BY <1>1, <1>4, <1>5, <1>6 DEF a
    <2>2. \A i \in 1..hi : (a \o piece)[i] = i
      BY <1>1, <1>4, <1>5, <1>6 DEF a
    <2>3. c \in Seq(Int) /\ Len(c) = hi /\ \A i \in 1..hi : c[i] = i
      BY <1>7 DEF c
    <2>4. a \o piece = c
      BY <2>1, <2>2, <2>3, SameOctets
    <2> QED BY <2>4 DEF a, c
  <1>9. hi = Size => Upto(hi) = Content
    BY Whole
  <1>10. CASE hi - lo < b
    BY <1>1, <1>2, <1>3, <1>4, <1>5, <1>8, <1>9, <1>10, TftpSizes DEF lo
  <1>11. CASE ~(hi - lo < b)
    <2>1. hi = lo + b
      BY <1>1, <1>3, <1>4, <1>11, TftpSizes
    <2> QED BY <2>1, <1>1, <1>2, <1>3, <1>4, <1>5, <1>8, <1>11, TftpSizes DEF lo
  <1> QED BY <1>10, <1>11
\* What the place of a thread says about its block, its lock and its file.
StageSound(t) ==
  /\ stage[t] \in {"none", "dispatch", "locking"} => block[t] = -1 /\ acked[t] = -1
  /\ stage[t] = "reading" => kind[t] = "read" /\ block[t] >= 0
  /\ stage[t] \in {"locking", "writing", "committing"} => kind[t] = "write"
  /\ stage[t] \in {"writing", "committing"} =>
       block[t] >= 1 /\ held[t] = {Path} /\ file = Absent
  /\ t \in committed => stage[t] = "over"
  /\ stage[t] \notin {"writing", "committing"} => held[t] = {} /\ temp[t] = NoFile
  /\ stage[t] = "writing" =>
       (block[t] - 1) * blksize[t] <= Size /\ temp[t] = Upto((block[t] - 1) * blksize[t])
  /\ stage[t] = "committing" => temp[t] = Content /\ block[t] <= next[t]

\* What is settled before a client moves.
ClientSound(t) ==
  /\ block[t] = -1 => client[t] = "asking"
  /\ client[t] = "asking" => next[t] = 1 /\ received[t] = <<>> /\ size[t] = DefaultBlock
  /\ client[t] # "asking" => size[t] = blksize[t]
  /\ option[t] = Absent => blksize[t] = DefaultBlock

\* Server and reader are at most one block apart, and the reader has all of the
\* blocks before its next.
ReaderSound(t) ==
  /\ block[t] >= 0 => next[t] - 1 <= block[t] /\ block[t] <= next[t]
  /\ client[t] \in {"moving", "failed"} =>
       /\ (next[t] - 1) * blksize[t] <= Size
       /\ received[t] = Upto((next[t] - 1) * blksize[t])
  /\ client[t] = "done" => received[t] = Content

\* So are server and writer; and as long as nothing is committed, no block that
\* was acknowledged was the last.
WriterSound(t) ==
  /\ block[t] # -1 => acked[t] \in {block[t] - 1, block[t]} /\ acked[t] >= 0
  /\ block[t] # -1 => acked[t] <= next[t] /\ next[t] <= acked[t] + 1
  /\ block[t] # -1 /\ t \notin committed => acked[t] = block[t] - 1 /\ acked[t] * blksize[t] <= Size
  /\ client[t] = "done" => t \in committed
  /\ block[t] = -1 => acked[t] = -1

\* A slot is taken by each thread that runs, and by the request with which the
\* loop has ended for want of one.
Slots ==
  /\ IsFiniteSet(Holding) /\ permits + Cardinality(Holding) = MaxTransfers
  /\ \A t \in Lost : stopped /\ Lost = {t}

Sound(t) ==
  /\ StageSound(t) /\ ClientSound(t) /\ next[t] >= 1
  /\ kind[t] = "read" => ReaderSound(t)
  /\ kind[t] = "write" => WriterSound(t)

Locking == held \in [Requests -> SUBSET Targets] /\ MutualExclusion

\* The inductive invariant.
TftpInv == TftpTypeOK /\ Locking /\ Slots /\ \A t \in Transfers : Sound(t)

\* Nothing changes for the transfer u.
Alike(u) ==
  /\ stage'[u] = stage[u] /\ kind'[u] = kind[u] /\ option'[u] = option[u]
  /\ blksize'[u] = blksize[u] /\ block'[u] = block[u] /\ tries'[u] = tries[u]
  /\ acked'[u] = acked[u] /\ temp'[u] = temp[u] /\ client'[u] = client[u]
  /\ size'[u] = size[u] /\ next'[u] = next[u] /\ received'[u] = received[u]
  /\ held'[u] = held[u] /\ (u \in committed' <=> u \in committed)

\* It holds at first.
LEMMA TftpInitSound == TftpInit => TftpInv
  <1> SUFFICES ASSUME TftpInit PROVE TftpInv
    OBVIOUS
  <1> USE DEF TftpInit
  <1>1. TftpTypeOK
    <2>1. DefaultBlock \in MinBlock..MaxBlock /\ MaxTransfers \in 0..MaxTransfers /\ 0 \in 0..Retries
          /\ NoFile \in Seq(Int) /\ <<>> \in Seq(Int)
      BY TftpSizes DEF NoFile
    <2> QED BY <2>1, TftpSizes DEF TftpTypeOK
  <1>2. Locking
    BY DEF Locking, HeldByNone, MutualExclusion
  <1>3. Holding = {} /\ Lost = {}
    BY DEF Holding, Lost
  <1>4. Slots
    <2>1. IsFiniteSet({}) /\ Cardinality({}) = 0
      BY FS_EmptySet
    <2> QED BY <1>3, <2>1, TftpSizes DEF Slots
  <1>5. ASSUME NEW t \in Transfers PROVE Sound(t)
    <2>1. held[t] = {}
      BY TftpSizes DEF HeldByNone
    <2>2. temp[t] = NoFile /\ stage[t] = "none" /\ kind[t] = "read" /\ block[t] = -1 /\ acked[t] = -1
          /\ client[t] = "asking" /\ next[t] = 1 /\ received[t] = <<>> /\ size[t] = DefaultBlock /\ blksize[t] = DefaultBlock
      OBVIOUS
    <2> QED BY <2>1, <2>2 DEF Sound, StageSound, ClientSound, ReaderSound, WriterSound
  <1> QED BY <1>1, <1>2, <1>4, <1>5 DEF TftpInv

\* A transfer that nothing changes for stays sound.
LEMMA AlikeSound ==
  ASSUME NEW u \in Transfers, Sound(u), Alike(u),
         stage[u] \in {"writing", "committing"} => file' = file
  PROVE  Sound(u)'
  <1>1. StageSound(u)'
    BY DEF Sound, StageSound, Alike
  <1>2. ClientSound(u)'
    BY DEF Sound, ClientSound, Alike
  <1>3. kind'[u] = "read" => ReaderSound(u)'
    BY DEF Sound, ReaderSound, Alike
  <1>4. kind'[u] = "write" => WriterSound(u)'
    BY DEF Sound, WriterSound, Alike
  <1> QED BY <1>1, <1>2, <1>3, <1>4 DEF Sound, Alike

\* A step of one transfer that takes nothing from the others.
LEMMA QuietStep ==
  ASSUME TftpInv, NEW t \in Transfers, TftpTypeOK', UNCHANGED <<permits, held, stopped>>,
         stage'[t] \notin {"none", "over"} <=> stage[t] \notin {"none", "over"},
         stage'[t] = "lost" <=> stage[t] = "lost",
         file' = file, \A u \in Transfers \ {t} : Alike(u), Sound(t)'
  PROVE  TftpInv'
  <1>1. Locking'
    BY DEF TftpInv, Locking, MutualExclusion
  <1>2. Holding' = Holding /\ Lost' = Lost
    BY DEF Holding, Lost, Alike
  <1>3. Slots'
    BY <1>2 DEF TftpInv, Slots
  <1>4. \A u \in Transfers : Sound(u)'
    BY AlikeSound DEF TftpInv
  <1> QED BY <1>1, <1>3, <1>4 DEF TftpInv

\* One lemma for each action from here on.
LEMMA ArriveKeeps ==
  ASSUME TftpInv, NEW t \in Transfers, Arrive(t)
  PROVE  TftpInv'
  <1> USE DEF Arrive
  <1>0. stage[t] = "none" /\ permits > 0 /\ permits' = permits - 1
    OBVIOUS
  <1>1. PICK k \in {"read", "write"}, o \in Options \cup {Absent} :
          /\ kind' = [kind EXCEPT ![t] = k] /\ option' = [option EXCEPT ![t] = o]
          /\ blksize' = [blksize EXCEPT ![t] = Negotiated(o)]
    OBVIOUS
  <1>2. Negotiated(o) \in MinBlock..MaxBlock /\ (o = Absent => Negotiated(o) = DefaultBlock)
    <2>1. o # Absent => o \in Int
      BY TftpAssumption
    <2> QED BY <2>1, TftpAssumption, TftpSizes DEF Negotiated
  <1>3. UNCHANGED <<file, committed, held, block, tries, acked, temp, client, size, next, received>>
    BY DEF clientVars
  <1>11. PICK place \in {"dispatch", "lost"} :
           stage' = [stage EXCEPT ![t] = place] /\ stopped' = (place = "lost") /\ ~stopped
    BY DEF TftpInv, TftpTypeOK
  <1>4. TftpTypeOK'
    <2>1. permits' \in 0..MaxTransfers
      BY <1>0, TftpSizes DEF TftpInv, TftpTypeOK
    <2> QED BY <1>1, <1>2, <1>3, <1>11, <2>1 DEF TftpInv, TftpTypeOK
  <1>5. Locking'
    BY <1>3 DEF TftpInv, Locking, MutualExclusion
  <1>6. Holding' = Holding \cup {t} /\ t \notin Holding
    BY <1>0, <1>11 DEF Holding, TftpInv, TftpTypeOK
  <1>7. Slots'
    <2>1. IsFiniteSet(Holding) /\ permits + Cardinality(Holding) = MaxTransfers /\ Lost = {}
      BY <1>11 DEF TftpInv, Slots
    <2>4. \A u \in Lost' : stopped' /\ Lost' = {u}
      BY <1>11, <2>1 DEF Lost, TftpInv, TftpTypeOK
    <2>2. IsFiniteSet(Holding \cup {t}) /\ Cardinality(Holding \cup {t}) = Cardinality(Holding) + 1
      BY <1>6, <2>1, FS_AddElement
    <2>3. Cardinality(Holding) \in Nat /\ permits \in Nat
      BY <2>1, FS_CardinalityType, TftpSizes DEF TftpInv, TftpTypeOK
    <2> QED BY <1>0, <1>6, <2>1, <2>2, <2>3, <2>4, TftpSizes DEF Slots
  <1>8. Sound(t)'
    <2>1. StageSound(t) /\ ClientSound(t) /\ next[t] >= 1
      BY DEF TftpInv, Sound
    <2>2. block[t] = -1 /\ acked[t] = -1 /\ held[t] = {} /\ temp[t] = NoFile
      BY <1>0, <2>1 DEF StageSound
    <2>3. client[t] = "asking" /\ next[t] = 1 /\ received[t] = <<>>
      BY <2>1, <2>2 DEF ClientSound
    <2>4. size[t] = DefaultBlock
      BY <2>1, <2>3 DEF ClientSound
    <2>5. /\ stage'[t] \in {"dispatch", "lost"} /\ block'[t] = -1 /\ acked'[t] = -1 /\ held'[t] = {} /\ temp'[t] = NoFile
          /\ client'[t] = "asking" /\ next'[t] = 1 /\ received'[t] = <<>> /\ size'[t] = DefaultBlock
          /\ option'[t] = o /\ blksize'[t] = Negotiated(o) /\ kind'[t] = k
      BY <1>1, <1>3, <1>11, <2>2, <2>3, <2>4 DEF TftpInv, TftpTypeOK
    <2>6. t \notin committed'
      BY <1>0, <1>3, <2>1 DEF StageSound
    <2> QED BY <1>2, <2>5, <2>6 DEF Sound, StageSound, ClientSound, ReaderSound, WriterSound
  <1>9. \A u \in Transfers \ {t} : Alike(u)
    BY <1>1, <1>3, <1>11 DEF Alike, TftpInv, TftpTypeOK
  <1>10. \A u \in Transfers : Sound(u)'
    BY <1>3, <1>8, <1>9, AlikeSound DEF TftpInv
  <1> QED BY <1>4, <1>5, <1>7, <1>10 DEF TftpInv

\* The end of a thread.
LEMMA EndKeeps ==
  ASSUME TftpInv, NEW t \in Transfers, stage[t] \notin {"none", "over", "lost"}, End(t),
         acked' \in [Transfers -> Nat \cup {-1}], \A u \in Transfers \ {t} : acked'[u] = acked[u],
         file' \in Requests \cup {Absent, Path},
         \A u \in Transfers \ {t} : stage[u] \in {"writing", "committing"} => file' = file,
         committed' \in {committed, committed \cup {t}},
         WriterSound(t)' \/ kind[t] = "read"
  PROVE  TftpInv'
  <1> USE DEF End
  <1>1. UNCHANGED <<stopped, kind, option, blksize, block, tries, client, size, next, received>>
    BY DEF askVars, clientVars
  <1>2. permits' = permits + 1 /\ stage' = [stage EXCEPT ![t] = "over"] /\ temp' = [temp EXCEPT ![t] = NoFile]
        /\ held' = [held EXCEPT ![t] = {}]
    OBVIOUS
  <1>3. Holding' = Holding \ {t} /\ t \in Holding
    BY <1>2 DEF Holding, TftpInv, TftpTypeOK
  <1>4. /\ IsFiniteSet(Holding') /\ Cardinality(Holding') = Cardinality(Holding) - 1
        /\ Cardinality(Holding') \in Nat /\ Cardinality(Holding) \in Nat /\ permits + Cardinality(Holding) = MaxTransfers
    <2>1. IsFiniteSet(Holding) /\ permits + Cardinality(Holding) = MaxTransfers
      BY DEF TftpInv, Slots
    <2>2. IsFiniteSet(Holding \ {t}) /\ Cardinality(Holding \ {t}) = Cardinality(Holding) - 1
      BY <1>3, <2>1, FS_RemoveElement
    <2>3. Cardinality(Holding \ {t}) \in Nat
      BY <2>2, FS_CardinalityType
    <2>4. Cardinality(Holding) \in Nat
      BY <2>1, FS_CardinalityType
    <2> QED BY <1>3, <2>1, <2>2, <2>3, <2>4
  <1>11. Lost' = Lost
    BY <1>2 DEF Lost, TftpInv, TftpTypeOK
  <1>5. permits' \in 0..MaxTransfers /\ Slots'
    BY <1>1, <1>2, <1>4, <1>11, TftpSizes DEF Slots, TftpInv, TftpTypeOK
  <1>6. TftpTypeOK'
    <2>1. NoFile \in Seq(Int)
      BY DEF NoFile
    <2>2. temp' \in [Transfers -> Seq(Int)] /\ stage' \in [Transfers ->
            {"none", "dispatch", "reading", "locking", "writing", "committing", "over", "lost"}]
      BY <1>2, <2>1 DEF TftpInv, TftpTypeOK
    <2> QED BY <1>1, <1>5, <2>2 DEF TftpInv, TftpTypeOK
  <1>7. Locking'
    BY <1>2 DEF TftpInv, Locking, MutualExclusion
  <1>8. Sound(t)'
    <2>1. StageSound(t) /\ ClientSound(t) /\ next[t] >= 1 /\ (kind[t] = "read" => ReaderSound(t))
      BY DEF TftpInv, Sound
    <2>2. stage'[t] = "over" /\ temp'[t] = NoFile /\ held'[t] = {}
      <3>1. stage'[t] = "over"
        BY <1>2 DEF TftpInv, TftpTypeOK
      <3>2. temp'[t] = NoFile
        BY <1>2 DEF TftpInv, TftpTypeOK
      <3>3. held'[t] = {}
        BY <1>2, TftpSizes DEF TftpInv, Locking
      <3> QED BY <3>1, <3>2, <3>3
    <2>3. StageSound(t)'
      BY <2>2 DEF StageSound
    <2>4. ClientSound(t)'
      BY <1>1, <2>1 DEF ClientSound
    <2>5. kind'[t] = "read" => ReaderSound(t)'
      BY <1>1, <2>1 DEF ReaderSound
    <2>6. kind'[t] = "write" => WriterSound(t)'
      BY <1>1
    <2> QED BY <1>1, <2>1, <2>3, <2>4, <2>5, <2>6 DEF Sound
  <1>9. \A u \in Transfers \ {t} : Alike(u)
    BY <1>1, <1>2, TftpSizes DEF Alike, TftpInv, TftpTypeOK, Locking
  <1>10. \A u \in Transfers : Sound(u)'
    BY <1>8, <1>9, AlikeSound DEF TftpInv
  <1> QED BY <1>5, <1>6, <1>7, <1>10 DEF TftpInv

LEMMA FailKeeps ==
  ASSUME TftpInv, NEW t \in Transfers, stage[t] \notin {"none", "over", "lost"}, Fail(t)
  PROVE  TftpInv'
  <1>1. End(t) /\ UNCHANGED <<file, committed, acked>>
    BY DEF Fail
  <1>2. UNCHANGED <<blksize, block, client, next>>
    BY <1>1 DEF End, askVars, clientVars
  <1>3. WriterSound(t)' \/ kind[t] = "read"
    BY <1>1, <1>2 DEF TftpInv, TftpTypeOK, Sound, WriterSound
  <1> QED BY <1>1, <1>3, EndKeeps DEF TftpInv, TftpTypeOK

LEMMA CommitFileKeeps ==
  ASSUME TftpInv, NEW t \in Transfers, CommitFile(t)
  PROVE  TftpInv' /\ file = Absent
  <1>1. stage[t] = "committing" /\ End(t) /\ file' = t /\ committed' = committed \cup {t}
        /\ acked' = [acked EXCEPT ![t] = block[t]]
    BY DEF CommitFile
  <1>2. UNCHANGED <<blksize, block, client, next>>
    BY <1>1 DEF End, askVars, clientVars
  <1>3. /\ kind[t] = "write" /\ block[t] >= 1 /\ held[t] = {Path} /\ file = Absent /\ block[t] <= next[t]
        /\ t \notin committed /\ WriterSound(t)
    BY <1>1 DEF TftpInv, Sound, StageSound
  <1>4. acked'[t] = block[t] /\ acked' \in [Transfers -> Nat \cup {-1}] /\ block[t] \in Int /\ next[t] \in Int
        /\ \A u \in Transfers \ {t} : acked'[u] = acked[u]
    BY <1>1 DEF TftpInv, TftpTypeOK
  <1>5. WriterSound(t)'
    BY <1>1, <1>2, <1>3, <1>4 DEF WriterSound
  <1>6. ASSUME NEW u \in Transfers \ {t}, stage[u] \in {"writing", "committing"} PROVE FALSE
    <2>1. held[u] = {Path}
      BY <1>6 DEF TftpInv, Sound, StageSound
    <2> QED BY <1>3, <2>1, TftpSizes DEF TftpInv, Locking, MutualExclusion
  <1>7. t \in Requests
    BY TftpSizes
  <1>8. file' \in Requests \cup {Absent, Path} /\ committed' \in {committed, committed \cup {t}}
        /\ stage[t] \notin {"none", "over", "lost"}
    BY <1>1, <1>7
  <1> QED BY <1>1, <1>3, <1>4, <1>5, <1>6, <1>8, EndKeeps

LEMMA LockTargetKeeps ==
  ASSUME TftpInv, NEW t \in Transfers, LockTarget(t)
  PROVE  TftpInv'
  <1>1. /\ stage[t] = "locking" /\ Free(Path) /\ held' = [held EXCEPT ![t] = held[t] \cup {Path}] /\ file = Absent
        /\ stage' = [stage EXCEPT ![t] = "writing"] /\ block' = [block EXCEPT ![t] = 1]
        /\ acked' = [acked EXCEPT ![t] = 0] /\ temp' = [temp EXCEPT ![t] = <<>>]
        /\ UNCHANGED <<permits, stopped, file, committed, kind, option, blksize, tries, client, size, next, received>>
    BY DEF LockTarget, Take, askVars, clientVars
  <1>2. t \in Requests /\ Path \in Targets
    BY TftpSizes
  <1>3. TftpTypeOK'
    BY <1>1 DEF TftpInv, TftpTypeOK
  <1>4. Locking'
    <2>1. held' \in [Requests -> SUBSET Targets]
      BY <1>1, <1>2 DEF TftpInv, Locking
    <2>2. MutualExclusion'
      BY <1>1, <1>2 DEF TftpInv, Locking, MutualExclusion, Free
    <2> QED BY <2>1, <2>2 DEF Locking
  <1>5. Slots'
    <2>1. Holding' = Holding /\ Lost' = Lost
      BY <1>1 DEF Holding, Lost, TftpInv, TftpTypeOK
    <2> QED BY <1>1, <2>1 DEF Slots, TftpInv
  <1>6. Sound(t)'
    <2>1. StageSound(t) /\ ClientSound(t)
      BY DEF TftpInv, Sound
    <2>2. kind[t] = "write" /\ block[t] = -1 /\ acked[t] = -1 /\ held[t] = {}
      BY <1>1, <2>1 DEF StageSound
    <2>3. client[t] = "asking" /\ next[t] = 1 /\ WriterSound(t)
      BY <2>1, <2>2 DEF ClientSound, TftpInv, Sound
    <2>4. t \in committed \/ t \notin committed
      OBVIOUS
    <2>5. /\ stage'[t] = "writing" /\ block'[t] = 1 /\ acked'[t] = 0 /\ temp'[t] = <<>> /\ held'[t] = {Path}
          /\ kind'[t] = "write" /\ client'[t] = "asking" /\ next'[t] = 1 /\ file' = Absent
      <3>1. stage'[t] = "writing" /\ block'[t] = 1 /\ acked'[t] = 0
        BY <1>1 DEF TftpInv, TftpTypeOK
      <3>2. temp'[t] = <<>>
        BY <1>1 DEF TftpInv, TftpTypeOK
      <3>3. held'[t] = {Path}
        BY <1>1, <1>2, <2>2 DEF TftpInv, Locking
      <3> QED BY <1>1, <2>2, <2>3, <3>1, <3>2, <3>3
    <2>6. blksize'[t] \in Nat /\ (1 - 1) * blksize'[t] = 0 /\ 0 * blksize'[t] = 0
      BY <1>1, TftpSizes DEF TftpInv, TftpTypeOK
    <2>7. t \notin committed'
      BY <1>1, <2>2 DEF TftpInv, Sound, StageSound
    <2>8. StageSound(t)'
      BY <2>5, <2>6, <2>7, Whole, TftpSizes DEF StageSound
    <2>9. ClientSound(t)'
      BY <1>1, <2>1, <2>5 DEF ClientSound
    <2>10. WriterSound(t)'
      BY <2>5, <2>6, <2>7, TftpSizes DEF WriterSound
    <2> QED BY <2>5, <2>8, <2>9, <2>10 DEF Sound
  <1>7. \A u \in Transfers \ {t} : Alike(u)
    BY <1>1, TftpSizes DEF Alike, TftpInv, TftpTypeOK, Locking
  <1>8. \A u \in Transfers : Sound(u)'
    BY <1>1, <1>6, <1>7, AlikeSound DEF TftpInv
  <1> QED BY <1>3, <1>4, <1>5, <1>8 DEF TftpInv

LEMMA PutKeeps ==
  ASSUME TftpInv, NEW r \in Requests, PutStarts(r) \/ PutEnds(r)
  PROVE  TftpInv'
  <1>1. UNCHANGED <<permits, stopped, committed, kind, option, blksize, stage, block, tries, acked, temp,
                    client, size, next, received>>
    BY DEF PutStarts, PutEnds, askVars, clientVars
  <1>2. r \in Requests \ Transfers
    BY DEF PutStarts, PutEnds
  <1>3. Path \in Targets
    BY TftpSizes
  <1>4. Locking'
    <2>1. CASE PutStarts(r)
      <3>1. Free(Path) /\ held' = [held EXCEPT ![r] = held[r] \cup {Path}]
        BY <2>1 DEF PutStarts, Take
      <3>2. held' \in [Requests -> SUBSET Targets]
        BY <3>1, <1>3 DEF TftpInv, Locking
      <3>3. MutualExclusion'
        BY <3>1, <1>3 DEF TftpInv, Locking, MutualExclusion, Free
      <3> QED BY <3>2, <3>3 DEF Locking
    <2>2. CASE PutEnds(r)
      <3>1. held' = [held EXCEPT ![r] = held[r] \ {Path}]
        BY <2>2 DEF PutEnds, GiveBack
      <3> QED BY <3>1 DEF TftpInv, Locking, MutualExclusion
    <2> QED BY <2>1, <2>2
  <1>5. file' \in Requests \cup {Absent, Path}
    BY DEF PutStarts, PutEnds, TftpInv, TftpTypeOK
  <1>6. TftpTypeOK'
    BY <1>1, <1>5 DEF TftpInv, TftpTypeOK
  <1>7. Slots'
    BY <1>1 DEF Slots, Holding, Lost, TftpInv
  <1>8. ASSUME NEW u \in Transfers PROVE Alike(u)
    <2>1. u # r /\ u \in Requests
      BY <1>2, TftpSizes
    <2>2. held'[u] = held[u]
      BY <2>1 DEF PutStarts, PutEnds, Take, GiveBack, TftpInv, Locking
    <2> QED BY <1>1, <2>2 DEF Alike
  <1>9. ASSUME NEW u \in Transfers, stage[u] \in {"writing", "committing"} PROVE file' = file
    <2>1. CASE PutStarts(r)
      BY <2>1 DEF PutStarts
    <2>2. CASE PutEnds(r)
      <3>1. Path \in held[r]
        BY <2>2 DEF PutEnds, GiveBack
      <3>2. Path \in held[u]
        BY <1>9 DEF TftpInv, Sound, StageSound
      <3>3. u \in Requests /\ u # r
        BY <1>2, TftpSizes
      <3> QED BY <1>3, <3>1, <3>2, <3>3 DEF TftpInv, Locking, MutualExclusion
    <2> QED BY <2>1, <2>2
  <1>10. \A u \in Transfers : Sound(u)'
    BY <1>8, <1>9, AlikeSound DEF TftpInv
  <1> QED BY <1>4, <1>6, <1>7, <1>10 DEF TftpInv

LEMMA RequestKeeps ==
  ASSUME TftpInv, NEW t \in Transfers, Busy(t) \/ Read(t) \/ Write(t)
  PROVE  TftpInv'
  <1>1. UNCHANGED <<permits, file, committed, held, kind, option, blksize, tries, acked, temp,
                    client, size, next, received>>
    BY DEF Busy, Read, Write, netVars, askVars, clientVars
  <1>9. stopped' \in BOOLEAN /\ (stopped => stopped')
    BY DEF Busy, Read, Write, netVars, TftpInv, TftpTypeOK
  <1>2. TftpTypeOK'
    <2>1. stage' \in [Transfers -> {"none", "dispatch", "reading", "locking", "writing", "committing", "over", "lost"}]
      <3>1. stage \in [Transfers -> {"none", "dispatch", "reading", "locking", "writing", "committing", "over", "lost"}]
        BY DEF TftpInv, TftpTypeOK
      <3>2. PICK place \in {"over", "reading", "locking"} : stage' = [stage EXCEPT ![t] = place]
        BY DEF Busy, Read, Write
      <3> QED BY <3>1, <3>2
    <2>2. block' \in [Transfers -> Nat \cup {-1}]
      <3>1. block \in [Transfers -> Nat \cup {-1}]
        BY DEF TftpInv, TftpTypeOK
      <3>2. block' = block \/ \E n \in {0, 1} : block' = [block EXCEPT ![t] = n]
        BY DEF Busy, Read, Write
      <3> QED BY <3>1, <3>2
    <2>3. committed' \subseteq Transfers /\ tries' \in [Transfers -> 0..Retries] /\ temp' \in [Transfers -> Seq(Int)]
          /\ received' \in [Transfers -> Seq(Int)] /\ acked' \in [Transfers -> Nat \cup {-1}]
      BY <1>1 DEF TftpInv, TftpTypeOK
    <2>4. permits' \in 0..MaxTransfers /\ kind' \in [Transfers -> {"read", "write"}]
          /\ option' \in [Transfers -> Options \cup {Absent}] /\ file' \in Requests \cup {Absent, Path}
      BY <1>1 DEF TftpInv, TftpTypeOK
    <2>5. blksize' \in [Transfers -> MinBlock..MaxBlock] /\ size' \in [Transfers -> MinBlock..MaxBlock]
          /\ next' \in [Transfers -> Nat] /\ client' \in [Transfers -> {"asking", "moving", "done", "failed"}]
      BY <1>1 DEF TftpInv, TftpTypeOK
    <2> QED BY <1>9, <2>1, <2>2, <2>3, <2>4, <2>5 DEF TftpTypeOK
  <1>3. Locking'
    BY <1>1 DEF TftpInv, Locking, MutualExclusion
  <1>4. Holding' = Holding /\ Lost' = Lost
    BY DEF Busy, Read, Write, Holding, Lost, TftpInv, TftpTypeOK
  <1>5. Slots'
    BY <1>1, <1>4, <1>9 DEF TftpInv, Slots
  <1>6. \A u \in Transfers \ {t} : Alike(u)
    BY <1>1 DEF Alike, Busy, Read, Write, TftpInv, TftpTypeOK
  <1>7. Sound(t)'
    <2>1. StageSound(t) /\ ClientSound(t) /\ stage[t] \in {"none", "dispatch"}
      BY DEF TftpInv, Sound, Busy, Read, Write
    <2>2. block[t] = -1 /\ acked[t] = -1 /\ held[t] = {} /\ temp[t] = NoFile
      BY <2>1 DEF StageSound
    <2>3. client[t] = "asking" /\ next[t] = 1
      BY <2>1, <2>2 DEF ClientSound
    <2>4. CASE Read(t)
      <3>1. kind[t] = "read" /\ stage'[t] = "reading" /\ block'[t] \in {0, 1}
        BY <2>4 DEF Read, TftpInv, TftpTypeOK
      <3> QED BY <1>1, <2>1, <2>2, <2>3, <3>1 DEF Sound, StageSound, ClientSound, ReaderSound
    <2>5. CASE Busy(t) \/ Write(t)
      <3>1. block' = block /\ (stage'[t] = "over" \/ (stage'[t] = "locking" /\ kind[t] = "write"))
        BY <2>5 DEF Busy, Write, TftpInv, TftpTypeOK
      <3> QED BY <1>1, <2>1, <2>2, <2>3, <3>1 DEF Sound, StageSound, ClientSound, ReaderSound, WriterSound
    <2> QED BY <2>4, <2>5
  <1>8. \A u \in Transfers : Sound(u)'
    BY <1>1, <1>6, <1>7, AlikeSound DEF TftpInv
  <1> QED BY <1>2, <1>3, <1>5, <1>8 DEF TftpInv

LEMMA AgainKeeps ==
  ASSUME TftpInv, NEW t \in Transfers, Again(t)
  PROVE  TftpInv'
  <1>1. CASE tries[t] = Retries
    BY <1>1, FailKeeps DEF Again
  <1>2. CASE tries[t] # Retries
    <2>1. tries' = [tries EXCEPT ![t] = tries[t] + 1]
          /\ UNCHANGED <<permits, stopped, file, committed, held, kind, option, blksize, stage, block, acked, temp,
                         client, size, next, received>>
      BY <1>2 DEF Again, netVars, askVars, clientVars
    <2>2. tries' \in [Transfers -> 0..Retries]
      <3>1. tries \in [Transfers -> 0..Retries]
        BY DEF TftpInv, TftpTypeOK
      <3> QED BY <1>2, <2>1, <3>1, TftpSizes
    <2>3. TftpTypeOK'
      BY <2>1, <2>2 DEF TftpInv, TftpTypeOK
    <2>4. Sound(t)'
      BY <2>1 DEF TftpInv, Sound, StageSound, ClientSound, ReaderSound, WriterSound
    <2>5. \A u \in Transfers \ {t} : Alike(u)
      BY <2>1 DEF Alike, TftpInv, TftpTypeOK
    <2> QED BY <2>1, <2>3, <2>4, <2>5, QuietStep
  <1> QED BY <1>1, <1>2

LEMMA SendKeeps ==
  ASSUME TftpInv, NEW t \in Transfers, SendBlocks(t)
  PROVE  TftpInv'
  <1>1. stage[t] = "reading"
    BY DEF SendBlocks
  <1>2. CASE block[t] > 0 /\ Len(Part(block[t], blksize[t])) < blksize[t]
    BY <1>1, <1>2, FailKeeps DEF SendBlocks
  <1>3. CASE ~(block[t] > 0 /\ Len(Part(block[t], blksize[t])) < blksize[t])
    <2>1. block' = [block EXCEPT ![t] = block[t] + 1] /\ tries' = [tries EXCEPT ![t] = 0]
          /\ UNCHANGED <<permits, stopped, file, committed, held, kind, option, blksize, stage, acked, temp,
                         client, size, next, received>>
      BY <1>3 DEF SendBlocks, Advance, netVars, askVars, clientVars
    <2>2. /\ kind[t] = "read" /\ block[t] >= 0 /\ StageSound(t) /\ ClientSound(t) /\ ReaderSound(t)
          /\ next[t] >= 1 /\ block[t] \in Int /\ next[t] \in Int
      BY <1>1 DEF TftpInv, TftpTypeOK, Sound, StageSound
    <2>3. next[t] - 1 <= block[t] /\ block[t] <= next[t]
      BY <2>2 DEF ReaderSound
    <2>4. PICK i \in Acknowledged(t) : Answers(i, block[t])
      BY DEF SendBlocks
    <2>5. i \in Int /\ i <= next[t] - 1 /\ client[t] # "asking"
      BY <2>2, <2>4 DEF Acknowledged
    <2>6. i = block[t]
      BY <2>2, <2>3, <2>4, <2>5, OnePacket
    <2>7. block'[t] = block[t] + 1 /\ block' \in [Transfers -> Nat \cup {-1}] /\ tries' \in [Transfers -> 0..Retries]
      BY <2>1, <2>2, TftpSizes DEF TftpInv, TftpTypeOK
    <2>8. TftpTypeOK'
      BY <2>1, <2>7 DEF TftpInv, TftpTypeOK
    <2>9. Sound(t)'
      <3>1. StageSound(t)'
        BY <1>1, <2>1, <2>2, <2>7 DEF StageSound
      <3>2. ClientSound(t)'
        BY <2>1, <2>2, <2>5, <2>7 DEF ClientSound
      <3>3. ReaderSound(t)'
        BY <2>1, <2>2, <2>3, <2>5, <2>6, <2>7 DEF ReaderSound
      <3> QED BY <2>1, <2>2, <3>1, <3>2, <3>3 DEF Sound
    <2>10. \A u \in Transfers \ {t} : Alike(u)
      BY <2>1 DEF Alike, TftpInv, TftpTypeOK
    <2> QED BY <2>1, <2>8, <2>9, <2>10, QuietStep
  <1> QED BY <1>2, <1>3

LEMMA ReceiveKeeps ==
  ASSUME TftpInv, NEW t \in Transfers, ReceiveBlock(t)
  PROVE  TftpInv'
  <1>1. stage[t] = "writing" /\ client[t] # "asking"
    BY DEF ReceiveBlock
  <1>2. PICK i \in 1..next[t] :
          /\ Answers(i, block[t])
          /\ LET payload == Part(i, size[t])
                 last == Len(payload) < blksize[t]
             IN IF Len(temp[t]) + Len(payload) > WriteLimit THEN Fail(t)
                ELSE /\ temp' = [temp EXCEPT ![t] = temp[t] \o payload]
                     /\ acked' = [acked EXCEPT ![t] = AckedNow(t, last)]
                     /\ IF last THEN stage' = [stage EXCEPT ![t] = "committing"] /\ UNCHANGED <<block, tries>>
                        ELSE Advance(t) /\ UNCHANGED stage
                     /\ UNCHANGED <<netVars, askVars, clientVars>>
    BY DEF ReceiveBlock
  <1> DEFINE b == blksize[t]  n == block[t]  payload == Part(n, b)
  <1>3. /\ kind[t] = "write" /\ n >= 1 /\ held[t] = {Path} /\ file = Absent /\ t \notin committed
        /\ StageSound(t) /\ ClientSound(t) /\ WriterSound(t) /\ next[t] >= 1
        /\ (n - 1) * b <= Size /\ temp[t] = Upto((n - 1) * b) /\ size[t] = b
    BY <1>1 DEF TftpInv, Sound, StageSound, ClientSound
  <1>4. n \in Nat /\ b \in Nat /\ b >= 1 /\ next[t] \in Nat
    BY <1>3, TftpSizes DEF TftpInv, TftpTypeOK
  <1>5. acked[t] = n - 1 /\ acked[t] <= next[t] /\ next[t] <= n
    BY <1>3, <1>4 DEF WriterSound
  <1>6. i = n
    BY <1>2, <1>4, <1>5, OnePacket
  <1>7. /\ payload \in Seq(Int) /\ Len(payload) <= b
        /\ Len(payload) < b => temp[t] \o payload = Content
        /\ ~(Len(payload) < b) => n * b <= Size /\ temp[t] \o payload = Upto(n * b)
    <2>1. /\ payload \in Seq(Int) /\ Len(payload) <= b
          /\ Len(payload) < b => Upto((n - 1) * b) \o payload = Content
          /\ ~(Len(payload) < b) => n * b <= Size /\ Upto((n - 1) * b) \o payload = Upto(n * b)
      <3> HIDE DEF n, b
      <3> QED BY <1>3, <1>4, NextPart
    <2> QED BY <1>3, <2>1
  <1>8. CASE Len(temp[t]) + Len(payload) > WriteLimit
    <2>1. Fail(t)
      BY <1>2, <1>3, <1>6, <1>8
    <2> QED BY <1>1, <2>1, FailKeeps
  <1>9. CASE ~(Len(temp[t]) + Len(payload) > WriteLimit)
    <2>1. /\ temp' = [temp EXCEPT ![t] = temp[t] \o payload]
          /\ acked' = [acked EXCEPT ![t] = AckedNow(t, Len(payload) < b)]
          /\ IF Len(payload) < b THEN stage' = [stage EXCEPT ![t] = "committing"] /\ UNCHANGED <<block, tries>>
             ELSE Advance(t) /\ UNCHANGED stage
          /\ UNCHANGED <<permits, stopped, file, committed, held, kind, option, blksize,
                         client, size, next, received>>
      BY <1>2, <1>3, <1>6, <1>9 DEF netVars, askVars, clientVars
    <2>2. temp' \in [Transfers -> Seq(Int)] /\ temp'[t] = temp[t] \o payload
      <3>1. temp[t] \o payload \in Seq(Int)
        BY <1>7 DEF TftpInv, TftpTypeOK
      <3> QED BY <2>1, <3>1 DEF TftpInv, TftpTypeOK
    <2> HIDE DEF payload
    <2>3. CASE Len(payload) < b
      <3>1. stage' = [stage EXCEPT ![t] = "committing"] /\ UNCHANGED <<block, tries>>
            /\ acked' = [acked EXCEPT ![t] = acked[t]]
        BY <2>1, <2>3 DEF AckedNow
      <3>2. acked' = acked
        BY <3>1 DEF TftpInv, TftpTypeOK
      <3>3. TftpTypeOK'
        BY <2>1, <2>2, <3>1, <3>2 DEF TftpInv, TftpTypeOK
      <3>4. stage'[t] = "committing"
        BY <3>1 DEF TftpInv, TftpTypeOK
      <3>5. block[t] <= next[t]
        BY <1>2, <1>4, <1>6
      <3>6. StageSound(t)'
        BY <1>3, <1>7, <2>1, <2>2, <2>3, <3>1, <3>4, <3>5 DEF StageSound
      <3>7. ClientSound(t)' /\ WriterSound(t)'
        BY <1>3, <2>1, <3>1, <3>2 DEF ClientSound, WriterSound
      <3>8. Sound(t)'
        BY <1>3, <2>1, <3>6, <3>7 DEF Sound
      <3>9. \A u \in Transfers \ {t} : Alike(u)
        BY <2>1, <3>1, <3>2 DEF Alike, TftpInv, TftpTypeOK
      <3> QED BY <1>1, <2>1, <3>3, <3>4, <3>8, <3>9, QuietStep
    <2>4. CASE ~(Len(payload) < b)
      <3>1. block' = [block EXCEPT ![t] = n + 1] /\ tries' = [tries EXCEPT ![t] = 0] /\ stage' = stage
            /\ acked' = [acked EXCEPT ![t] = n]
        BY <2>1, <2>4 DEF AckedNow, Advance
      <3>2. /\ block' \in [Transfers -> Nat \cup {-1}] /\ block'[t] = n + 1
            /\ acked' \in [Transfers -> Nat \cup {-1}] /\ acked'[t] = n
            /\ tries' \in [Transfers -> 0..Retries]
        BY <1>4, <3>1, TftpSizes DEF TftpInv, TftpTypeOK
      <3>3. TftpTypeOK'
        BY <2>1, <2>2, <3>1, <3>2 DEF TftpInv, TftpTypeOK
      <3>4. n <= next[t] /\ n * b <= Size /\ temp'[t] = Upto(n * b) /\ (n + 1) - 1 = n
        BY <1>2, <1>4, <1>6, <1>7, <2>2, <2>4
      <3>5. StageSound(t)'
        BY <1>1, <1>3, <1>4, <2>1, <3>1, <3>2, <3>4 DEF StageSound
      <3>6. ClientSound(t)'
        BY <1>1, <1>3, <1>4, <2>1, <3>2 DEF ClientSound
      <3>7. WriterSound(t)'
        BY <1>3, <1>4, <1>5, <2>1, <3>2, <3>4 DEF WriterSound
      <3>8. Sound(t)'
        BY <1>3, <2>1, <3>5, <3>6, <3>7 DEF Sound
      <3>9. \A u \in Transfers \ {t} : Alike(u)
        BY <2>1, <3>1 DEF Alike, TftpInv, TftpTypeOK
      <3> QED BY <2>1, <3>1, <3>3, <3>8, <3>9, QuietStep
    <2> QED BY <2>3, <2>4
  <1> QED BY <1>8, <1>9

LEMMA ClientStartsKeeps ==
  ASSUME TftpInv, NEW t \in Transfers, ClientStarts(t)
  PROVE  TftpInv'
  <1>1. /\ client[t] = "asking" /\ client' = [client EXCEPT ![t] = "moving"]
        /\ size' = [size EXCEPT ![t] = blksize[t]]
        /\ UNCHANGED <<permits, stopped, file, committed, held, kind, option, blksize, stage, block, tries, acked,
                       temp, next, received>>
    BY DEF ClientStarts, netVars, askVars
  <1>2. TftpTypeOK'
    BY <1>1 DEF TftpInv, TftpTypeOK
  <1>3. client'[t] = "moving" /\ size'[t] = blksize[t]
    BY <1>1 DEF TftpInv, TftpTypeOK
  <1>4. /\ StageSound(t) /\ ClientSound(t) /\ next[t] = 1 /\ received[t] = <<>>
        /\ (kind[t] = "read" => ReaderSound(t)) /\ (kind[t] = "write" => WriterSound(t))
    BY <1>1 DEF TftpInv, Sound, ClientSound
  <1>5. block[t] # -1
    <2>1. kind[t] \in {"read", "write"} /\ acked[t] \in Int /\ block[t] \in Int
      BY DEF TftpInv, TftpTypeOK
    <2> QED BY <1>4, <2>1 DEF ClientStarts, WriterSound
  <1>6. StageSound(t)'
    BY <1>1, <1>4 DEF StageSound
  <1>7. ClientSound(t)'
    BY <1>1, <1>3, <1>4, <1>5 DEF ClientSound
  <1>8. ASSUME kind[t] = "read" PROVE ReaderSound(t)'
    <2>1. blksize[t] \in Nat /\ (1 - 1) * blksize[t] = 0 /\ 0 <= Size
      BY TftpSizes DEF TftpInv, TftpTypeOK
    <2>2. (next'[t] - 1) * blksize'[t] = 0
      BY <1>1, <1>4, <2>1
    <2> QED BY <1>1, <1>3, <1>4, <1>8, <2>1, <2>2, Whole DEF ReaderSound
  <1>9. ASSUME kind[t] = "write" PROVE WriterSound(t)'
    BY <1>1, <1>3, <1>4, <1>9 DEF WriterSound
  <1>10. Sound(t)'
    BY <1>1, <1>4, <1>6, <1>7, <1>8, <1>9 DEF Sound
  <1>11. \A u \in Transfers \ {t} : Alike(u)
    BY <1>1 DEF Alike, TftpInv, TftpTypeOK
  <1> QED BY <1>1, <1>2, <1>10, <1>11, QuietStep

LEMMA ClientReadsKeeps ==
  ASSUME TftpInv, NEW t \in Transfers, ClientReads(t)
  PROVE  TftpInv'
  <1>1. /\ kind[t] = "read" /\ Started(t)
        /\ client[t] = "moving" \/ (client[t] = "asking" /\ option[t] = Absent)
        /\ next' = [next EXCEPT ![t] = next[t] + 1]
    BY DEF ClientReads
  <1>2. PICK i \in 1..block[t] :
          /\ Answers(i, next[t])
          /\ received' = [received EXCEPT ![t] = received[t] \o Part(i, blksize[t])]
          /\ Move(t, Len(Part(i, blksize[t])) < size[t])
    BY DEF ClientReads
  <1> DEFINE b == blksize[t]  n == next[t]  payload == Part(n, b)
  <1>3. /\ n >= 1 /\ n \in Nat /\ b \in Nat /\ b >= 1 /\ block[t] \in Int
        /\ StageSound(t) /\ ClientSound(t) /\ ReaderSound(t)
    BY <1>1, TftpSizes DEF TftpInv, TftpTypeOK, Sound
  <1>4. block[t] >= 0 /\ n - 1 <= block[t] /\ block[t] <= n
    BY <1>2, <1>3 DEF ReaderSound
  <1>5. i = n /\ block[t] = n
    BY <1>2, <1>3, <1>4, OnePacket
  <1>6. size[t] = b /\ (n - 1) * b <= Size /\ received[t] = Upto((n - 1) * b)
    <2>1. CASE client[t] = "moving"
      BY <1>3, <2>1 DEF ClientSound, ReaderSound
    <2>2. CASE client[t] = "asking" /\ option[t] = Absent
      <3>1. next[t] = 1 /\ received[t] = <<>> /\ size[t] = b
        BY <1>3, <2>2 DEF ClientSound
      <3>2. (1 - 1) * b = 0
        BY <1>3
      <3>3. 0 <= Size
        BY TftpSizes
      <3> QED BY <3>1, <3>2, <3>3, Whole
    <2> QED BY <1>1, <2>1, <2>2
  <1>7. /\ payload \in Seq(Int)
        /\ Len(payload) < b => received[t] \o payload = Content
        /\ ~(Len(payload) < b) => n * b <= Size /\ received[t] \o payload = Upto(n * b)
    <2>1. /\ payload \in Seq(Int)
          /\ Len(payload) < b => Upto((n - 1) * b) \o payload = Content
          /\ ~(Len(payload) < b) => n * b <= Size /\ Upto((n - 1) * b) \o payload = Upto(n * b)
      <3> HIDE DEF n, b
      <3> QED BY <1>3, <1>6, NextPart
    <2> QED BY <1>6, <2>1
  <1>8. /\ received' = [received EXCEPT ![t] = received[t] \o payload]
        /\ client' = [client EXCEPT ![t] = IF Len(payload) < b THEN "done" ELSE "moving"]
        /\ UNCHANGED <<permits, stopped, file, committed, held, kind, option, blksize, stage, block, tries, acked,
                       temp, size>>
    BY <1>2, <1>5, <1>6 DEF Move, netVars, askVars
  <1> HIDE DEF payload
  <1>9. received' \in [Transfers -> Seq(Int)] /\ received'[t] = received[t] \o payload
    <2>1. received[t] \o payload \in Seq(Int)
      BY <1>7 DEF TftpInv, TftpTypeOK
    <2> QED BY <1>8, <2>1 DEF TftpInv, TftpTypeOK
  <1>10. /\ client' \in [Transfers -> {"asking", "moving", "done", "failed"}]
         /\ client'[t] = IF Len(payload) < b THEN "done" ELSE "moving"
         /\ next' \in [Transfers -> Nat] /\ next'[t] = n + 1
    BY <1>1, <1>3, <1>8 DEF TftpInv, TftpTypeOK
  <1>11. TftpTypeOK'
    BY <1>8, <1>9, <1>10 DEF TftpInv, TftpTypeOK
  <1>12. StageSound(t)'
    <2>1. stage[t] # "committing"
      BY <1>1, <1>3 DEF StageSound
    <2> QED BY <1>3, <1>8, <2>1 DEF StageSound
  <1>13. ClientSound(t)'
    <2>1. client'[t] # "asking" /\ block'[t] # -1 /\ size'[t] = blksize'[t]
      BY <1>4, <1>6, <1>8, <1>10
    <2> QED BY <1>3, <1>8, <2>1 DEF ClientSound
  <1>14. ReaderSound(t)'
    <2>1. (n + 1) - 1 = n
      BY <1>3
    <2>2. n <= block[t] /\ block[t] <= n + 1
      BY <1>3, <1>5
    <2> QED BY <1>7, <1>8, <1>9, <1>10, <2>1, <2>2 DEF ReaderSound
  <1>15. Sound(t)'
    BY <1>1, <1>3, <1>8, <1>10, <1>12, <1>13, <1>14 DEF Sound
  <1>16. \A u \in Transfers \ {t} : Alike(u)
    BY <1>1, <1>8 DEF Alike, TftpInv, TftpTypeOK
  <1> QED BY <1>8, <1>11, <1>15, <1>16, QuietStep

LEMMA ClientWritesKeeps ==
  ASSUME TftpInv, NEW t \in Transfers, ClientWrites(t)
  PROVE  TftpInv'
  <1> DEFINE b == blksize[t]  n == next[t]  last == Len(Part(n, size[t])) < size[t]
  <1>1. /\ kind[t] = "write" /\ client[t] = "moving"
        /\ next' = [next EXCEPT ![t] = IF last THEN next[t] ELSE next[t] + 1]
        /\ client' = [client EXCEPT ![t] = IF last THEN "done" ELSE "moving"]
        /\ UNCHANGED <<permits, stopped, file, committed, held, kind, option, blksize, stage, block, tries, acked,
                       temp, size, received>>
    BY DEF ClientWrites, Move, netVars, askVars
  <1>2. PICK i \in 0..acked[t] : Answers(i, n)
    BY DEF ClientWrites
  <1>3. /\ n >= 1 /\ n \in Nat /\ b \in Nat /\ b >= 1 /\ block[t] \in Int /\ acked[t] \in Int
        /\ StageSound(t) /\ ClientSound(t) /\ WriterSound(t) /\ size[t] = b /\ block[t] # -1
    <2>1. block[t] \in Int /\ acked[t] \in Int /\ next[t] \in Nat /\ blksize[t] \in MinBlock..MaxBlock
      BY DEF TftpInv, TftpTypeOK
    <2>2. Sound(t)
      BY DEF TftpInv
    <2> QED BY <1>1, <2>1, <2>2, TftpSizes DEF Sound, ClientSound
  <1>4. acked[t] <= n /\ n <= acked[t] + 1
    BY <1>3 DEF WriterSound
  <1>5. acked[t] = n
    <2>1. i \in Int /\ i <= n
      BY <1>2, <1>3, <1>4
    <2>2. i = n
      BY <1>2, <1>3, <2>1, OnePacket
    <2> QED BY <1>2, <1>3, <1>4, <2>2
  <1>6. t \notin committed => ~last
    <2> SUFFICES ASSUME t \notin committed PROVE ~last
      OBVIOUS
    <2>1. n * b <= Size
      BY <1>3, <1>5 DEF WriterSound
    <2> HIDE DEF n, b
    <2>2. (n - 1) * b <= n * b /\ (n - 1) * b \in Int /\ n * b \in Int
      BY <1>3
    <2>3. (n - 1) * b <= Size
      BY <2>1, <2>2, TftpSizes
    <2>4. Len(Part(n, b)) = b
      BY <1>3, <2>1, <2>3, NextPart
    <2> QED BY <1>3, <2>4
  <1> HIDE DEF last
  <1>7. /\ client' \in [Transfers -> {"asking", "moving", "done", "failed"}]
        /\ client'[t] = IF last THEN "done" ELSE "moving"
        /\ next' \in [Transfers -> Nat] /\ next'[t] = IF last THEN n ELSE n + 1
    BY <1>1, <1>3 DEF TftpInv, TftpTypeOK
  <1>8. TftpTypeOK'
    BY <1>1, <1>7 DEF TftpInv, TftpTypeOK
  <1>9. next'[t] \in {n, n + 1} /\ next'[t] >= 1 /\ next'[t] \in Nat /\ n <= next'[t] /\ next'[t] <= n + 1
    BY <1>3, <1>7
  <1>10. StageSound(t)'
    <2>1. stage[t] = "committing" => block'[t] <= next'[t]
      <3> SUFFICES ASSUME stage[t] = "committing" PROVE block[t] <= next'[t]
        BY <1>1
      <3>1. block[t] <= n
        BY <1>3 DEF StageSound
      <3> QED BY <1>3, <1>9, <3>1
    <2> QED BY <1>1, <1>3, <2>1 DEF StageSound
  <1>11. ClientSound(t)'
    BY <1>1, <1>3, <1>7 DEF ClientSound
  <1>12. WriterSound(t)'
    BY <1>1, <1>3, <1>5, <1>6, <1>7, <1>9 DEF WriterSound
  <1>13. Sound(t)'
    BY <1>1, <1>9, <1>10, <1>11, <1>12 DEF Sound
  <1>14. \A u \in Transfers \ {t} : Alike(u)
    BY <1>1 DEF Alike, TftpInv, TftpTypeOK
  <1> QED BY <1>1, <1>8, <1>13, <1>14, QuietStep

LEMMA ClientFailsKeeps ==
  ASSUME TftpInv, NEW t \in Transfers, ClientFails(t)
  PROVE  TftpInv'
  <1>1. /\ client[t] = "moving" /\ client' = [client EXCEPT ![t] = "failed"]
        /\ UNCHANGED <<permits, stopped, file, committed, held, kind, option, blksize, stage, block, tries, acked,
                       temp, size, next, received>>
    BY DEF ClientFails, netVars, askVars
  <1>2. TftpTypeOK' /\ client'[t] = "failed"
    BY <1>1 DEF TftpInv, TftpTypeOK
  <1>3. Sound(t)'
    BY <1>1, <1>2 DEF TftpInv, Sound, StageSound, ClientSound, ReaderSound, WriterSound
  <1>4. \A u \in Transfers \ {t} : Alike(u)
    BY <1>1 DEF Alike, TftpInv, TftpTypeOK
  <1> QED BY <1>1, <1>2, <1>3, <1>4, QuietStep

LEMMA IdleKeeps ==
  ASSUME TftpInv, Stop \/ UNCHANGED tftpVars
  PROVE  TftpInv'
  <1>1. UNCHANGED <<permits, file, committed, held, kind, option, blksize, stage, block, tries, acked, temp,
                    client, size, next, received>>
    BY DEF Stop, tftpVars, netVars, askVars, clientVars
  <1>2. stopped' \in BOOLEAN /\ (stopped => stopped')
    BY DEF Stop, tftpVars, netVars, TftpInv, TftpTypeOK
  <1>3. TftpTypeOK'
    BY <1>1, <1>2 DEF TftpInv, TftpTypeOK
  <1>4. Locking' /\ Slots'
    BY <1>1, <1>2 DEF TftpInv, Locking, MutualExclusion, Slots, Holding, Lost
  <1>5. ASSUME NEW u \in Transfers PROVE Sound(u)'
    BY <1>1, AlikeSound DEF Alike, TftpInv
  <1> QED BY <1>3, <1>4, <1>5 DEF TftpInv

\* Every step of a transfer keeps the invariant, and commits only what is not there.
LEMMA TransferKeeps ==
  ASSUME TftpInv, NEW t \in Transfers,
         \/ Arrive(t) \/ Busy(t) \/ Dispatch(t) \/ LockStep(t) \/ TransferStep(t) \/ Abandon(t)
         \/ ClientStarts(t) \/ ClientReads(t) \/ ClientWrites(t) \/ ClientFails(t)
  PROVE  TftpInv' /\ (committed' # committed => file = Absent)
  <1>1. CASE CommitFile(t)
    BY <1>1, CommitFileKeeps
  <1>2. CASE Refuse(t) \/ LockTimeout(t) \/ AlreadyThere(t) \/ Abandon(t)
    <2>1. stage[t] \notin {"none", "over", "lost"} /\ Fail(t)
      BY <1>2 DEF Refuse, LockTimeout, AlreadyThere, Abandon
    <2> QED BY <2>1, FailKeeps DEF Fail
  <1>3. CASE Again(t)
    <2>1. committed' = committed
      BY <1>3 DEF Again, Fail, netVars
    <2> QED BY <1>3, <2>1, AgainKeeps
  <1>4. CASE SendBlocks(t)
    <2>1. committed' = committed
      BY <1>4 DEF SendBlocks, Fail, netVars
    <2> QED BY <1>4, <2>1, SendKeeps
  <1>5. CASE ReceiveBlock(t)
    <2>1. committed' = committed
      BY <1>5 DEF ReceiveBlock, Fail, netVars
    <2> QED BY <1>5, <2>1, ReceiveKeeps
  <1>6. CASE Arrive(t)
    BY <1>6, ArriveKeeps DEF Arrive
  <1>7. CASE Busy(t) \/ Read(t) \/ Write(t)
    BY <1>7, RequestKeeps DEF Busy, Read, Write, netVars
  <1>8. CASE LockTarget(t)
    BY <1>8, LockTargetKeeps DEF LockTarget
  <1>9. CASE ClientStarts(t)
    BY <1>9, ClientStartsKeeps DEF ClientStarts, netVars
  <1>10. CASE ClientReads(t)
    BY <1>10, ClientReadsKeeps DEF ClientReads, Move, netVars
  <1>11. CASE ClientWrites(t)
    BY <1>11, ClientWritesKeeps DEF ClientWrites, Move, netVars
  <1>12. CASE ClientFails(t)
    BY <1>12, ClientFailsKeeps DEF ClientFails, netVars
  <1> QED BY <1>1, <1>2, <1>3, <1>4, <1>5, <1>6, <1>7, <1>8, <1>9, <1>10, <1>11, <1>12
          DEF Dispatch, LockStep, TransferStep

\* So does every step.
LEMMA TftpStep ==
  ASSUME TftpInv, [TftpNext]_tftpVars
  PROVE  TftpInv' /\ (committed' # committed => file = Absent)
  <1>1. CASE Stop \/ UNCHANGED tftpVars
    BY <1>1, IdleKeeps DEF Stop, tftpVars, netVars
  <1>2. CASE \E r \in Requests : PutStarts(r) \/ PutEnds(r)
    BY <1>2, PutKeeps DEF PutStarts, PutEnds
  <1>3. ASSUME NEW t \in Transfers,
          \/ Arrive(t) \/ Busy(t) \/ Dispatch(t) \/ LockStep(t) \/ TransferStep(t) \/ Abandon(t)
          \/ ClientStarts(t) \/ ClientReads(t) \/ ClientWrites(t) \/ ClientFails(t)
        PROVE TftpInv' /\ (committed' # committed => file = Absent)
    BY <1>3, TransferKeeps
  <1> QED BY <1>1, <1>2, <1>3 DEF TftpNext

\* The invariant is strong enough.
LEMMA SoundTransfers == ASSUME TftpInv PROVE TransfersSound
  <1>1. ASSUME NEW t \in Transfers
        PROVE  /\ temp[t] # NoFile <=> stage[t] \in {"writing", "committing"}
               /\ held[t] # {} <=> stage[t] \in {"writing", "committing"}
    <2>1. blksize[t] \in Nat /\ block[t] \in Int /\ StageSound(t)
      BY TftpSizes DEF TftpInv, TftpTypeOK, Sound
    <2>2. stage[t] = "writing" => (block[t] - 1) * blksize[t] \in Nat
      BY <2>1, TftpSizes DEF StageSound
    <2> QED BY <2>1, <2>2, Whole DEF StageSound
  <1>2. Accounted
    BY <1>1 DEF TftpInv, Slots, Accounted
  <1>3. ASSUME NEW t \in Transfers, kind[t] = "read"
        PROVE  IsPrefix(received[t], Content) /\ (client[t] = "done" => received[t] = Content)
    <2>1. /\ blksize[t] \in Nat /\ next[t] \in Nat /\ next[t] >= 1 /\ ClientSound(t) /\ ReaderSound(t)
          /\ client[t] \in {"asking", "moving", "done", "failed"}
      BY <1>3, TftpSizes DEF TftpInv, TftpTypeOK, Sound
    <2>2. (next[t] - 1) * blksize[t] \in Nat
      BY <2>1
    <2>3. received[t] = Upto(0) \/ received[t] = Content \/
            ((next[t] - 1) * blksize[t] <= Size /\ received[t] = Upto((next[t] - 1) * blksize[t]))
      BY <2>1, Whole DEF ClientSound, ReaderSound
    <2>4. IsPrefix(Upto(0), Content) /\ IsPrefix(Content, Content)
      BY Whole, TftpSizes
    <2> QED BY <2>1, <2>2, <2>3, <2>4, Whole DEF ReaderSound
  <1>4. ASSUME NEW t \in Transfers, kind[t] # "read"
        PROVE  /\ temp[t] # NoFile => IsPrefix(temp[t], Content)
               /\ stage[t] = "committing" => temp[t] = Content
               /\ client[t] = "done" => t \in committed
    <2>1. kind[t] = "write" /\ blksize[t] \in Nat /\ block[t] \in Int /\ StageSound(t) /\ WriterSound(t)
      BY <1>4, TftpSizes DEF TftpInv, TftpTypeOK, Sound
    <2>2. temp[t] # NoFile => stage[t] \in {"writing", "committing"}
      BY <1>1
    <2>3. stage[t] = "writing" => (block[t] - 1) * blksize[t] \in Nat
      BY <2>1, TftpSizes DEF StageSound
    <2>4. IsPrefix(Content, Content)
      BY Whole, TftpSizes
    <2> QED BY <2>1, <2>2, <2>3, <2>4, Whole DEF StageSound, WriterSound
  <1> QED BY <1>2, <1>3, <1>4 DEF TransfersSound, TransfersExact

\* Whatever the network loses, repeats and reorders, and as often as the block
\* numbers come round, a reader has the beginning of the file, or all of it when
\* it is done; a writer is told of success only when the whole of its file is
\* in place; and slots, locks and temporary files are those of the threads that
\* run: for any file, block sizes, window of numbers and number of transfers
\* (_tftp.py:331, :334, :428, :500).
THEOREM TransfersStaySound == TftpSpec => []TransfersSound
  <1>1. TftpInv /\ [TftpNext]_tftpVars => TftpInv'
    BY TftpStep
  <1>2. TftpInv => TransfersSound
    BY SoundTransfers
  <1> QED BY <1>1, <1>2, TftpInitSound, PTL DEF TftpSpec

\* No transfer takes the place of a file, although it looked whether there was
\* one before its client sent anything (_tftp.py:455).
THEOREM NothingReplaced == TftpSpec => NeverReplaces
  <1>1. TftpInv /\ [TftpNext]_tftpVars => TftpInv'
    BY TftpStep
  <1>2. TftpInv /\ [TftpNext]_tftpVars => [committed' # committed => file = Absent]_tftpVars
    BY TftpStep
  <1> QED BY <1>1, <1>2, TftpInitSound, PTL DEF TftpSpec, NeverReplaces
=============================================================================
