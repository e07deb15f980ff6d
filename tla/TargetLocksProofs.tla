-------------------------- MODULE TargetLocksProofs --------------------------
(***************************************************************************)
(* TargetLocks implements WriteLocks, for every set of requests and of     *)
(* targets.  The argument: everyone who has an entry of a target borrowed  *)
(* has the registered one, because a borrowed entry is never popped (the   *)
(* users count is the number of borrowers); and the one lock of that entry *)
(* has one owner.                                                          *)
(*                                                                         *)
(* At the end, the other thing that the requests of a server share: the    *)
(* access log, with an invariant of its own.                               *)
(***************************************************************************)
EXTENDS TargetLocks, AccessLog, FiniteSetTheorems, TLAPS

Borrowers(t) == {r \in Requests : got[r][t] /= None}

\* Whoever has an entry of t borrowed has the registered one.
OneEntry == \A r \in Requests, t \in Targets : got[r][t] /= None => entry[t] = got[r][t]

\* A registered entry has borrowers, and counts them.
UsersCounted ==
  \A t \in Targets : entry[t] /= None =>
     Borrowers(t) /= {} /\ users[entry[t]][t] = Cardinality(Borrowers(t))

\* A lock that a request has taken is the lock of the entry it borrowed.
LocksOwned ==
  \A r \in Requests : \A t \in locked[r] : got[r][t] /= None /\ owner[got[r][t]][t] = r

\* What each place in hold_many says about what the request has.
PlacesAgree ==
  \A r \in Requests :
    /\ at[r] = "idle" => Borrowed(r) = {}
    /\ at[r] \in {"idle", "returning"} => locked[r] = {}
    /\ at[r] = "borrowing" => todo[r] /= {}
    /\ at[r] = "waiting" => \E t \in Targets : t \in Borrowed(r) \ locked[r]
    /\ at[r] = "unlocking" => locked[r] /= {}
    /\ at[r] \notin {"idle", "borrowing"} => Borrowed(r) /= {}
    /\ todo[r] \cap Borrowed(r) = {}

IInv == TypeOK /\ OneEntry /\ UsersCounted /\ LocksOwned /\ PlacesAgree

-----------------------------------------------------------------------------

LEMMA LowestIsIn == ASSUME NEW S \in SUBSET Targets, S /= {} PROVE Lowest(S) \in S
  BY TargetsRanked DEF Lowest

LEMMA HighestIsIn == ASSUME NEW S \in SUBSET Targets, S /= {} PROVE Highest(S) \in S
  BY TargetsRanked DEF Highest

\* The one borrower of an entry used once is the one that returns it.
LEMMA SoleBorrower ==
  ASSUME NEW S, IsFiniteSet(S), Cardinality(S) = 1, NEW r \in S
  PROVE  S = {r}
  <1>1. Cardinality(S \ {r}) = 0 /\ IsFiniteSet(S \ {r})
    BY FS_RemoveElement
  <1>2. S \ {r} = {}
    BY <1>1, FS_EmptySet
  <1> QED BY <1>2

LEMMA BorrowersFinite == \A t : IsFiniteSet(Borrowers(t))
  <1>1. \A t : Borrowers(t) \subseteq Requests
    BY DEF Borrowers
  <1> QED BY <1>1, RequestsFinite, FS_Subset

LEMMA InitIInv == LockInit => IInv
  <1> SUFFICES ASSUME LockInit PROVE IInv
    OBVIOUS
  <1>1. TypeOK
    BY DEF LockInit, TypeOK, Places
  <1>2. OneEntry /\ UsersCounted /\ LocksOwned
    BY DEF LockInit, OneEntry, UsersCounted, LocksOwned
  <1>3. PlacesAgree
    BY DEF LockInit, PlacesAgree, Borrowed
  <1> QED BY <1>1, <1>2, <1>3 DEF IInv

LEMMA AskKeeps ==
  ASSUME IInv, NEW r \in Requests, NEW wanted \in SUBSET Targets, Ask(r, wanted)
  PROVE  IInv'
  <1> USE DEF Ask
  <1>1. TypeOK'
    BY DEF IInv, TypeOK, Places
  <1>2. OneEntry' /\ LocksOwned'
    BY DEF IInv, OneEntry, LocksOwned
  <1>3. UsersCounted'
    BY DEF IInv, UsersCounted, Borrowers
  <1>4. PlacesAgree'
    BY DEF IInv, TypeOK, PlacesAgree, Borrowed
  <1> QED BY <1>1, <1>2, <1>3, <1>4 DEF IInv

LEMMA BorrowKeeps ==
  ASSUME IInv, NEW r \in Requests, Borrow(r)
  PROVE  IInv'
  <1> DEFINE t == Lowest(todo[r])
             i == EntryFor(r, t)
  <1>1. t \in Targets /\ t \in todo[r] /\ got[r][t] = None /\ i \in Requests /\ i /= None
    <2>1. todo[r] \in SUBSET Targets /\ todo[r] /= {}
      BY DEF IInv, TypeOK, PlacesAgree, Borrow
    <2>2. t \in todo[r]
      BY <2>1, LowestIsIn
    <2>3. t \in Targets /\ got[r][t] = None
      BY <2>1, <2>2 DEF IInv, PlacesAgree, Borrowed
    <2>4. i \in Requests /\ i /= None
      BY <2>3, NoneIsNoRequest DEF EntryFor, IInv, TypeOK
    <2> QED BY <2>2, <2>3, <2>4
  <1>2. /\ entry' = [entry EXCEPT ![t] = i]
        /\ users' = [users EXCEPT ![i][t] = IF entry[t] = None THEN 1 ELSE @ + 1]
        /\ owner' = [owner EXCEPT ![i][t] = IF entry[t] = None THEN None ELSE @]
        /\ got' = [got EXCEPT ![r][t] = i]
        /\ todo' = [todo EXCEPT ![r] = @ \ {t}]
        /\ at' = [at EXCEPT ![r] = "waiting"]
        /\ UNCHANGED locked
    BY DEF Borrow
  <1>3. /\ entry[t] = None => \A s \in Requests : got[s][t] = None
        /\ entry[t] /= None => i = entry[t]
    BY <1>1 DEF IInv, OneEntry, EntryFor
  <1> HIDE DEF t, i
  <1>4. TypeOK'
    BY <1>1, <1>2 DEF IInv, TypeOK, Places
  <1>5. OneEntry'
    BY <1>1, <1>2, <1>3 DEF IInv, TypeOK, OneEntry
  <1>6. UsersCounted'
    <2> SUFFICES ASSUME NEW u \in Targets, entry'[u] /= None
                 PROVE  Borrowers(u)' /= {} /\ users'[entry'[u]][u] = Cardinality(Borrowers(u)')
      BY DEF UsersCounted
    <2>1. CASE u /= t
      <3>1. Borrowers(u)' = Borrowers(u)
        BY <1>1, <1>2, <2>1 DEF Borrowers, IInv, TypeOK
      <3>2. entry'[u] = entry[u] /\ users'[entry'[u]][u] = users[entry[u]][u]
        BY <1>1, <1>2, <2>1 DEF IInv, TypeOK
      <3> QED BY <3>1, <3>2 DEF IInv, UsersCounted
    <2>2. CASE u = t
      <3>1. Borrowers(u)' = Borrowers(u) \cup {r} /\ r \notin Borrowers(u)
        BY <1>1, <1>2, <2>2 DEF Borrowers, IInv, TypeOK
      <3>2. Cardinality(Borrowers(u)') = Cardinality(Borrowers(u)) + 1
        BY <3>1, BorrowersFinite, FS_AddElement
      <3>3. entry'[u] = i /\ users'[i][u] = IF entry[u] = None THEN 1 ELSE users[i][u] + 1
        BY <1>1, <1>2, <2>2 DEF IInv, TypeOK
      <3>4. CASE entry[u] = None
        <4>1. Borrowers(u) = {}
          BY <1>3, <2>2, <3>4 DEF Borrowers
        <4>2. Borrowers(u)' /= {}
          BY <3>1
        <4>3. Cardinality(Borrowers(u)) = 0
          BY <4>1, FS_EmptySet
        <4>4. Cardinality(Borrowers(u)') = 1
          BY <4>3, <3>2
        <4>5. users'[entry'[u]][u] = 1
          BY <3>3, <3>4
        <4> QED BY <4>2, <4>4, <4>5
      <3>5. CASE entry[u] /= None
        <4>1. Borrowers(u)' /= {}
          BY <3>1
        <4> QED BY <4>1, <1>3, <2>2, <3>2, <3>3, <3>5 DEF IInv, UsersCounted
      <3> QED BY <3>4, <3>5
    <2> QED BY <2>1, <2>2
  <1>7. LocksOwned'
    BY <1>1, <1>2, <1>3 DEF IInv, TypeOK, LocksOwned
  <1>8. PlacesAgree'
    <2> SUFFICES ASSUME NEW s \in Requests
                 PROVE  PlacesAgree!(s)'
      BY DEF PlacesAgree
    <2>1. CASE s /= r
      <3>1. Borrowed(s)' = Borrowed(s) /\ at'[s] = at[s] /\ todo'[s] = todo[s] /\ locked'[s] = locked[s]
        BY <1>1, <1>2, <2>1 DEF Borrowed, IInv, TypeOK
      <3> QED BY <3>1 DEF IInv, PlacesAgree
    <2>2. CASE s = r
      <3>1. Borrowed(s)' = Borrowed(s) \cup {t}
        BY <1>1, <1>2, <2>2 DEF Borrowed, IInv, TypeOK
      <3>2. t \notin locked[s]
        BY <1>1, <2>2 DEF IInv, LocksOwned
      <3> QED BY <1>1, <1>2, <2>2, <3>1, <3>2 DEF IInv, TypeOK, PlacesAgree
    <2> QED BY <2>1, <2>2
  <1> QED BY <1>4, <1>5, <1>6, <1>7, <1>8 DEF IInv

LEMMA AcquireKeeps ==
  ASSUME IInv, NEW r \in Requests, Acquire(r)
  PROVE  IInv'
  <1> DEFINE t == WaitsFor(r)
             i == got[r][t]
  <1>1. t \in Targets /\ t \in Borrowed(r) /\ t \notin locked[r]
    BY DEF Acquire, WaitsFor, IInv, PlacesAgree
  <1>2. /\ owner[i][t] = None
        /\ owner' = [owner EXCEPT ![i][t] = r]
        /\ locked' = [locked EXCEPT ![r] = @ \cup {t}]
        /\ at' = [at EXCEPT ![r] = IF todo[r] = {} THEN "writing" ELSE "borrowing"]
        /\ UNCHANGED <<entry, users, todo, got>>
    BY DEF Acquire
  <1>3. i \in Requests /\ i /= None
    BY <1>1, NoneIsNoRequest DEF Borrowed, IInv, TypeOK
  <1> HIDE DEF t, i
  <1>4. TypeOK'
    BY <1>1, <1>2, <1>3 DEF IInv, TypeOK, Places
  <1>5. OneEntry' /\ UsersCounted'
    BY <1>2 DEF IInv, OneEntry, UsersCounted, Borrowers
  <1>6. LocksOwned'
    <2> SUFFICES ASSUME NEW s \in Requests, NEW u \in locked'[s]
                 PROVE  got'[s][u] /= None /\ owner'[got'[s][u]][u] = s
      BY DEF LocksOwned
    <2>0. got[r][t] = i
      BY DEF i
    <2>1. CASE s = r /\ u = t
      BY <1>1, <1>2, <1>3, <2>0, <2>1 DEF IInv, TypeOK
    <2>2. CASE ~(s = r /\ u = t)
      <3>1. u \in locked[s] /\ u \in Targets
        BY <1>1, <1>2, <2>2 DEF IInv, TypeOK
      <3>2. got[s][u] /= None /\ got[s][u] \in Requests /\ owner[got[s][u]][u] = s
        BY <3>1 DEF IInv, LocksOwned, TypeOK
      <3>3. ~(got[s][u] = i /\ u = t)
        BY <3>2, <1>2, NoneIsNoRequest
      <3> QED BY <1>1, <1>2, <1>3, <3>1, <3>2, <3>3 DEF IInv, TypeOK
    <2> QED BY <2>1, <2>2
  <1>7. PlacesAgree'
    <2> SUFFICES ASSUME NEW s \in Requests
                 PROVE  PlacesAgree!(s)'
      BY DEF PlacesAgree
    <2>1. Borrowed(s)' = Borrowed(s)
      BY <1>2 DEF Borrowed
    <2>2. CASE s /= r
      BY <1>2, <2>1, <2>2 DEF IInv, TypeOK, PlacesAgree
    <2>3. CASE s = r
      BY <1>1, <1>2, <2>1, <2>3 DEF IInv, TypeOK, PlacesAgree
    <2> QED BY <2>2, <2>3
  <1> QED BY <1>4, <1>5, <1>6, <1>7 DEF IInv

LEMMA GiveUpKeeps ==
  ASSUME IInv, NEW r \in Requests, GiveUp(r)
  PROVE  IInv'
  <1>1. TypeOK'
    BY DEF GiveUp, IInv, TypeOK, Places
  <1>2. OneEntry' /\ UsersCounted' /\ LocksOwned'
    BY DEF GiveUp, IInv, OneEntry, UsersCounted, Borrowers, LocksOwned
  <1>3. PlacesAgree'
    BY DEF GiveUp, IInv, TypeOK, PlacesAgree, Borrowed
  <1> QED BY <1>1, <1>2, <1>3 DEF IInv

LEMMA LeaveKeeps ==
  ASSUME IInv, NEW r \in Requests, Leave(r)
  PROVE  IInv'
  <1>1. TypeOK'
    BY DEF Leave, IInv, TypeOK, Places
  <1>2. OneEntry' /\ UsersCounted' /\ LocksOwned'
    BY DEF Leave, IInv, OneEntry, UsersCounted, Borrowers, LocksOwned
  <1>3. PlacesAgree'
    BY DEF Leave, IInv, TypeOK, PlacesAgree, Borrowed
  <1> QED BY <1>1, <1>2, <1>3 DEF IInv

LEMMA UnlockKeeps ==
  ASSUME IInv, NEW r \in Requests, Unlock(r)
  PROVE  IInv'
  <1> DEFINE t == Highest(locked[r])
             i == got[r][t]
  <1>1. t \in Targets /\ t \in locked[r]
    <2>1. locked[r] \in SUBSET Targets /\ locked[r] /= {}
      BY DEF IInv, TypeOK, PlacesAgree, Unlock
    <2> QED BY <2>1, HighestIsIn
  <1>2. /\ owner' = [owner EXCEPT ![i][t] = None]
        /\ locked' = [locked EXCEPT ![r] = @ \ {t}]
        /\ at' = [at EXCEPT ![r] = IF locked[r] = {t} THEN "returning" ELSE "unlocking"]
        /\ UNCHANGED <<entry, users, todo, got>>
    BY DEF Unlock
  <1>3. i \in Requests /\ owner[i][t] = r
    BY <1>1 DEF IInv, LocksOwned, TypeOK
  <1>4. at[r] = "unlocking"
    BY DEF Unlock
  <1> HIDE DEF t, i
  <1>5. TypeOK'
    BY <1>1, <1>2, <1>3 DEF IInv, TypeOK, Places
  <1>6. OneEntry' /\ UsersCounted'
    BY <1>2 DEF IInv, OneEntry, UsersCounted, Borrowers
  <1>7. LocksOwned'
    <2> SUFFICES ASSUME NEW s \in Requests, NEW u \in locked'[s]
                 PROVE  got'[s][u] /= None /\ owner'[got'[s][u]][u] = s
      BY DEF LocksOwned
    <2>1. u \in locked[s] /\ u \in Targets /\ ~(s = r /\ u = t)
      BY <1>1, <1>2 DEF IInv, TypeOK
    <2>2. got[s][u] /= None /\ got[s][u] \in Requests /\ owner[got[s][u]][u] = s
      BY <2>1 DEF IInv, LocksOwned, TypeOK
    <2>3. ~(got[s][u] = i /\ u = t)
      BY <2>1, <2>2, <1>3
    <2> QED BY <1>1, <1>2, <1>3, <2>1, <2>2, <2>3 DEF IInv, TypeOK
  <1>8. PlacesAgree'
    <2> SUFFICES ASSUME NEW s \in Requests
                 PROVE  PlacesAgree!(s)'
      BY DEF PlacesAgree
    <2>1. Borrowed(s)' = Borrowed(s)
      BY <1>2 DEF Borrowed
    <2>2. CASE s /= r
      BY <1>2, <2>1, <2>2 DEF IInv, TypeOK, PlacesAgree
    <2>3. CASE s = r
      BY <1>1, <1>2, <1>4, <2>1, <2>3 DEF IInv, TypeOK, PlacesAgree
    <2> QED BY <2>2, <2>3
  <1> QED BY <1>5, <1>6, <1>7, <1>8 DEF IInv

LEMMA ReturnKeeps ==
  ASSUME IInv, NEW r \in Requests, Return(r)
  PROVE  IInv'
  <1> DEFINE t == Highest(Borrowed(r))
             i == got[r][t]
  <1>1. t \in Targets /\ t \in Borrowed(r)
    <2>1. Borrowed(r) \in SUBSET Targets /\ Borrowed(r) /= {}
      BY DEF IInv, PlacesAgree, Return, Borrowed
    <2> QED BY <2>1, HighestIsIn
  <1>2. /\ at[r] = "returning"
        /\ users' = [users EXCEPT ![i][t] = @ - 1]
        /\ entry' = [entry EXCEPT ![t] = IF users[i][t] = 1 THEN None ELSE @]
        /\ got' = [got EXCEPT ![r][t] = None]
        /\ at' = [at EXCEPT ![r] = IF Borrowed(r) = {t} THEN "idle" ELSE "returning"]
        /\ UNCHANGED <<owner, todo, locked>>
    BY DEF Return
  <1>3. i \in Requests /\ i /= None /\ got[r][t] = i /\ entry[t] = i
    BY <1>1 DEF IInv, OneEntry, Borrowed, TypeOK
  <1>4. users[i][t] = Cardinality(Borrowers(t)) /\ r \in Borrowers(t) /\ locked[r] = {}
    BY <1>1, <1>2, <1>3 DEF IInv, UsersCounted, Borrowers, PlacesAgree
  <1> HIDE DEF t, i
  <1>5. users[i][t] \in Nat /\ users[i][t] >= 1
    <2>1. Cardinality(Borrowers(t)) \in Nat
      BY BorrowersFinite, FS_CardinalityType
    <2>2. Cardinality(Borrowers(t)) /= 0
      BY <1>4, BorrowersFinite, FS_EmptySet
    <2> QED BY <2>1, <2>2, <1>4
  <1>6. users[i][t] = 1 => Borrowers(t) = {r}
    BY <1>4, BorrowersFinite, SoleBorrower
  <1>7. TypeOK'
    BY <1>1, <1>2, <1>3, <1>5 DEF IInv, TypeOK, Places
  <1>8. OneEntry'
    <2> SUFFICES ASSUME NEW s \in Requests, NEW u \in Targets, got'[s][u] /= None
                 PROVE  entry'[u] = got'[s][u]
      BY DEF OneEntry
    <2>1. got'[s][u] = got[s][u] /\ ~(s = r /\ u = t)
      BY <1>1, <1>2 DEF IInv, TypeOK
    <2>2. u = t => s \in Borrowers(t) /\ s /= r
      BY <2>1 DEF Borrowers
    <2>3. entry'[u] = entry[u]
      BY <1>1, <1>2, <1>6, <2>2 DEF IInv, TypeOK
    <2> QED BY <2>1, <2>3 DEF IInv, OneEntry
  <1>9. UsersCounted'
    <2> SUFFICES ASSUME NEW u \in Targets, entry'[u] /= None
                 PROVE  Borrowers(u)' /= {} /\ users'[entry'[u]][u] = Cardinality(Borrowers(u)')
      BY DEF UsersCounted
    <2>1. CASE u /= t
      <3>1. Borrowers(u)' = Borrowers(u)
        BY <1>1, <1>2, <2>1 DEF Borrowers, IInv, TypeOK
      <3>2. entry'[u] = entry[u] /\ users'[entry'[u]][u] = users[entry[u]][u]
        BY <1>1, <1>2, <2>1 DEF IInv, TypeOK
      <3> QED BY <3>1, <3>2 DEF IInv, UsersCounted
    <2>2. CASE u = t
      <3>1. Borrowers(u)' = Borrowers(u) \ {r}
        BY <1>1, <1>2, <2>2 DEF Borrowers, IInv, TypeOK
      <3>2. Cardinality(Borrowers(u)') = Cardinality(Borrowers(u)) - 1
        BY <3>1, <1>4, <2>2, BorrowersFinite, FS_RemoveElement
      <3>3. entry'[u] = i /\ users'[i][u] = users[i][u] - 1
        BY <1>1, <1>2, <1>3, <2>2 DEF IInv, TypeOK
      <3>4. Borrowers(u)' /= {}
        <4>1. users[i][t] /= 1
          BY <1>1, <1>2, <2>2 DEF IInv, TypeOK
        <4>2. Cardinality(Borrowers(u)') /= 0
          BY <4>1, <3>2, <1>4, <1>5, <2>2
        <4> QED BY <4>2, FS_EmptySet
      <3> QED BY <3>2, <3>3, <3>4, <1>4, <2>2
    <2> QED BY <2>1, <2>2
  <1>10. LocksOwned'
    BY <1>1, <1>2, <1>4 DEF IInv, TypeOK, LocksOwned
  <1>11. PlacesAgree'
    <2> SUFFICES ASSUME NEW s \in Requests
                 PROVE  PlacesAgree!(s)'
      BY DEF PlacesAgree
    <2>1. CASE s /= r
      <3>1. Borrowed(s)' = Borrowed(s) /\ at'[s] = at[s] /\ todo'[s] = todo[s] /\ locked'[s] = locked[s]
        BY <1>1, <1>2, <2>1 DEF Borrowed, IInv, TypeOK
      <3> QED BY <3>1 DEF IInv, PlacesAgree
    <2>2. CASE s = r
      <3>1. Borrowed(s)' = Borrowed(s) \ {t}
        BY <1>1, <1>2, <2>2 DEF Borrowed, IInv, TypeOK
      <3> QED BY <1>1, <1>2, <1>4, <2>2, <3>1 DEF IInv, TypeOK, PlacesAgree
    <2> QED BY <2>1, <2>2
  <1> QED BY <1>7, <1>8, <1>9, <1>10, <1>11 DEF IInv

LEMMA StutterKeeps == ASSUME IInv, UNCHANGED lockVars PROVE IInv'
  <1> USE DEF lockVars
  <1>1. TypeOK' /\ OneEntry' /\ LocksOwned'
    BY DEF IInv, TypeOK, OneEntry, LocksOwned
  <1>2. UsersCounted' /\ PlacesAgree'
    BY DEF IInv, UsersCounted, Borrowers, PlacesAgree, Borrowed
  <1> QED BY <1>1, <1>2 DEF IInv

LEMMA NextKeeps == ASSUME IInv, [LockNext]_lockVars PROVE IInv'
  <1>1. ASSUME NEW r \in Requests, NEW wanted \in SUBSET Targets, Ask(r, wanted) PROVE IInv'
    BY <1>1, AskKeeps
  <1>2. ASSUME NEW r \in Requests, Step(r) PROVE IInv'
    BY <1>2, BorrowKeeps, AcquireKeeps, GiveUpKeeps, LeaveKeeps, UnlockKeeps, ReturnKeeps DEF Step
  <1>3. CASE UNCHANGED lockVars
    BY <1>3, StutterKeeps
  <1> QED BY <1>1, <1>2, <1>3 DEF LockNext

-----------------------------------------------------------------------------

\* The registry's invariant holds in every reachable state.
THEOREM Inductive == LockSpec => []IInv
  <1>1. LockInit => IInv
    BY InitIInv
  <1>2. IInv /\ [LockNext]_lockVars => IInv'
    BY NextKeeps
  <1> QED BY <1>1, <1>2, PTL DEF LockSpec

\* Every variable keeps its type.
THEOREM TypeCorrect == LockSpec => []TypeOK
  <1>1. IInv => TypeOK
    BY DEF IInv
  <1> QED BY <1>1, Inductive, PTL

\* "A leak-free registry" (_writecoord.py:18): an entry is registered for a
\* target exactly while some request has it borrowed, it is the one they all
\* borrowed, and it counts them.
THEOREM LeakFree == LockSpec => []RegistryLeakFree
  <1>1. IInv => RegistryLeakFree
    <2> SUFFICES ASSUME IInv, NEW t \in Targets
                 PROVE  /\ entry[t] = None <=> Borrowers(t) = {}
                        /\ \A r \in Borrowers(t) : got[r][t] = entry[t]
                        /\ entry[t] /= None => users[entry[t]][t] = Cardinality(Borrowers(t))
      BY DEF RegistryLeakFree, Borrowers
    <2>1. \A r \in Borrowers(t) : got[r][t] = entry[t] /\ entry[t] /= None
      BY DEF Borrowers, IInv, OneEntry
    <2>2. entry[t] /= None =>
             Borrowers(t) /= {} /\ users[entry[t]][t] = Cardinality(Borrowers(t))
      BY DEF IInv, UsersCounted
    <2> QED BY <2>1, <2>2
  <1> QED BY <1>1, Inductive, PTL

\* No two requests hold the lock of one target (_writecoord.py:44-77).
THEOREM Exclusive == LockSpec => []Locks!MutualExclusion
  <1>1. IInv => Locks!MutualExclusion
    <2> SUFFICES ASSUME IInv, NEW r \in Requests, NEW s \in Requests, NEW t \in Targets,
                        t \in locked[r], t \in locked[s]
                 PROVE  r = s
      BY DEF Locks!MutualExclusion
    <2>1. /\ got[r][t] /= None /\ owner[got[r][t]][t] = r
          /\ got[s][t] /= None /\ owner[got[s][t]][t] = s
      BY DEF IInv, LocksOwned
    <2>2. got[r][t] = entry[t] /\ got[s][t] = entry[t]
      BY <2>1 DEF IInv, OneEntry
    <2> QED BY <2>1, <2>2
  <1> QED BY <1>1, Inductive, PTL

-----------------------------------------------------------------------------
(* No ring.  Targets are borrowed in ascending order, and each is locked   *)
(* before the next is borrowed: a request waits for a target above all     *)
(* that it has locked.  The request of a ring that waits for the greatest  *)
(* target would find it locked by one that waits for a greater one still.  *)

\* A lock's owner is a request that borrowed its entry and holds the target.
OwnersHold ==
  \A i \in Requests, t \in Targets : owner[i][t] /= None =>
     got[owner[i][t]][t] = i /\ t \in locked[owner[i][t]]

\* While a request still takes locks, what it has borrowed lies below what it
\* has still to borrow, and it waits for the last target it borrowed.
Ascending ==
  \A r \in Requests :
    /\ at[r] \in {"borrowing", "waiting"} => \A t \in Borrowed(r), u \in todo[r] : t < u
    /\ at[r] = "borrowing" => Borrowed(r) \subseteq locked[r]
    /\ at[r] = "waiting" =>
         \E t \in Borrowed(r) \ locked[r] : /\ Borrowed(r) \subseteq locked[r] \cup {t}
                                            /\ \A u \in locked[r] : u < t

OrderInv == IInv /\ OwnersHold /\ Ascending

LEMMA BorrowOrders ==
  ASSUME OrderInv, NEW r \in Requests, Borrow(r)
  PROVE  OwnersHold' /\ Ascending'
  <1> DEFINE t == Lowest(todo[r])
             i == EntryFor(r, t)
  <1>1. /\ t \in Targets /\ t \in todo[r] /\ got[r][t] = None /\ t \notin locked[r]
        /\ \A u \in todo[r] : t <= u
    <2>1. todo[r] \in SUBSET Targets /\ todo[r] /= {}
      BY DEF OrderInv, IInv, TypeOK, PlacesAgree, Borrow
    <2>2. t \in todo[r] /\ \A u \in todo[r] : t <= u
      BY <2>1, TargetsRanked DEF Lowest
    <2>3. t \in Targets /\ got[r][t] = None
      BY <2>1, <2>2 DEF OrderInv, IInv, PlacesAgree, Borrowed
    <2> QED BY <2>2, <2>3 DEF OrderInv, IInv, LocksOwned
  <1>2. i \in Requests /\ i /= None /\ (entry[t] /= None => i = entry[t])
    BY <1>1, NoneIsNoRequest DEF EntryFor, OrderInv, IInv, TypeOK
  <1>3. /\ at[r] = "borrowing"
        /\ owner' = [owner EXCEPT ![i][t] = IF entry[t] = None THEN None ELSE @]
        /\ got' = [got EXCEPT ![r][t] = i]
        /\ todo' = [todo EXCEPT ![r] = @ \ {t}]
        /\ at' = [at EXCEPT ![r] = "waiting"]
        /\ UNCHANGED locked
    BY DEF Borrow
  <1> HIDE DEF t, i
  <1>4. OwnersHold'
    <2> SUFFICES ASSUME NEW j \in Requests, NEW u \in Targets, owner'[j][u] /= None
                 PROVE  got'[owner'[j][u]][u] = j /\ u \in locked'[owner'[j][u]]
      BY DEF OwnersHold
    <2>1. owner'[j][u] = owner[j][u] /\ owner[j][u] \in Requests
      BY <1>1, <1>2, <1>3 DEF OrderInv, IInv, TypeOK
    <2>2. got[owner[j][u]][u] = j /\ u \in locked[owner[j][u]]
      BY <2>1 DEF OrderInv, OwnersHold
    <2>3. ~(owner[j][u] = r /\ u = t)
      BY <2>2, <1>1
    <2> QED BY <1>1, <1>2, <1>3, <2>1, <2>2, <2>3 DEF OrderInv, IInv, TypeOK
  <1>5. Ascending'
    <2> SUFFICES ASSUME NEW s \in Requests PROVE Ascending!(s)'
      BY DEF Ascending
    <2>1. CASE s /= r
      <3>1. Borrowed(s)' = Borrowed(s) /\ at'[s] = at[s] /\ todo'[s] = todo[s] /\ locked'[s] = locked[s]
        BY <1>1, <1>2, <1>3, <2>1 DEF Borrowed, OrderInv, IInv, TypeOK
      <3> QED BY <3>1 DEF OrderInv, Ascending
    <2>2. CASE s = r
      <3>1. Borrowed(s)' = Borrowed(s) \cup {t} /\ at'[s] = "waiting"
        BY <1>1, <1>2, <1>3, <2>2 DEF Borrowed, OrderInv, IInv, TypeOK
      <3>2. todo'[s] = todo[s] \ {t} /\ locked'[s] = locked[s] /\ todo[s] \subseteq Targets
        BY <1>3, <2>2 DEF OrderInv, IInv, TypeOK
      <3>3. /\ \A u \in Borrowed(s), v \in todo[s] : u < v
            /\ Borrowed(s) \subseteq locked[s]
        BY <1>3, <2>2 DEF OrderInv, Ascending
      <3>4. locked[s] \subseteq Borrowed(s)
        BY DEF OrderInv, IInv, TypeOK, LocksOwned, Borrowed
      <3>5. \A u \in todo'[s] : t < u
        <4> SUFFICES ASSUME NEW u \in todo'[s] PROVE t < u
          OBVIOUS
        <4>1. Targets \subseteq Int
          BY TargetsRanked
        <4>2. u \in todo[s] /\ u /= t
          BY <3>2
        <4>3. t <= u /\ t \in Int /\ u \in Int
          BY <4>1, <4>2, <1>1, <2>2, <3>2
        <4> QED BY <4>2, <4>3
      <3>6. \A u \in locked'[s] : u < t
        BY <1>1, <2>2, <3>2, <3>3, <3>4
      <3>7. t \in Borrowed(s)' \ locked'[s] /\ Borrowed(s)' \subseteq locked'[s] \cup {t}
        BY <1>1, <2>2, <3>1, <3>2, <3>3
      <3>8. \A u \in Borrowed(s)', v \in todo'[s] : u < v
        BY <3>1, <3>2, <3>3, <3>5
      <3> QED BY <3>1, <3>6, <3>7, <3>8
    <2> QED BY <2>1, <2>2
  <1> QED BY <1>4, <1>5

LEMMA AcquireOrders ==
  ASSUME OrderInv, NEW r \in Requests, Acquire(r)
  PROVE  OwnersHold' /\ Ascending'
  <1> DEFINE t == WaitsFor(r)
             i == got[r][t]
  <1>1. t \in Targets /\ t \in Borrowed(r) /\ t \notin locked[r]
    BY DEF Acquire, WaitsFor, OrderInv, IInv, PlacesAgree
  <1>2. /\ at[r] = "waiting"
        /\ owner' = [owner EXCEPT ![i][t] = r]
        /\ locked' = [locked EXCEPT ![r] = @ \cup {t}]
        /\ at' = [at EXCEPT ![r] = IF todo[r] = {} THEN "writing" ELSE "borrowing"]
        /\ UNCHANGED <<todo, got>>
    BY DEF Acquire
  <1>3. i \in Requests /\ i /= None /\ got[r][t] = i /\ r /= None
    BY <1>1, NoneIsNoRequest DEF Borrowed, OrderInv, IInv, TypeOK
  <1> HIDE DEF t, i
  <1>4. OwnersHold'
    <2> SUFFICES ASSUME NEW j \in Requests, NEW u \in Targets, owner'[j][u] /= None
                 PROVE  got'[owner'[j][u]][u] = j /\ u \in locked'[owner'[j][u]]
      BY DEF OwnersHold
    <2>1. CASE j = i /\ u = t
      BY <1>1, <1>2, <1>3, <2>1 DEF OrderInv, IInv, TypeOK
    <2>2. CASE ~(j = i /\ u = t)
      <3>1. owner'[j][u] = owner[j][u] /\ owner[j][u] \in Requests
        BY <1>1, <1>2, <1>3, <2>2 DEF OrderInv, IInv, TypeOK
      <3>2. got[owner[j][u]][u] = j /\ u \in locked[owner[j][u]]
        BY <3>1 DEF OrderInv, OwnersHold
      <3> QED BY <1>2, <3>1, <3>2 DEF OrderInv, IInv, TypeOK
    <2> QED BY <2>1, <2>2
  <1>5. Ascending'
    <2> SUFFICES ASSUME NEW s \in Requests PROVE Ascending!(s)'
      BY DEF Ascending
    <2>0. Borrowed(s)' = Borrowed(s)
      BY <1>2 DEF Borrowed
    <2>1. CASE s /= r
      <3>1. at'[s] = at[s] /\ todo'[s] = todo[s] /\ locked'[s] = locked[s]
        BY <1>2, <2>1 DEF OrderInv, IInv, TypeOK
      <3> QED BY <2>0, <3>1 DEF OrderInv, Ascending
    <2>2. CASE s = r
      <3>1. /\ locked'[s] = locked[s] \cup {t} /\ todo'[s] = todo[s]
            /\ at'[s] \in {"writing", "borrowing"}
        BY <1>1, <1>2, <2>2 DEF OrderInv, IInv, TypeOK
      <3>2. \A u \in Borrowed(s), v \in todo[s] : u < v
        BY <1>2, <2>2 DEF OrderInv, Ascending
      <3>3. PICK x \in Borrowed(s) \ locked[s] : Borrowed(s) \subseteq locked[s] \cup {x}
        BY <1>2, <2>2 DEF OrderInv, Ascending
      <3>4. x = t
        BY <1>1, <2>2, <3>3
      <3> QED BY <2>0, <3>1, <3>2, <3>3, <3>4
    <2> QED BY <2>1, <2>2
  <1> QED BY <1>4, <1>5

LEMMA UnlockOrders ==
  ASSUME OrderInv, NEW r \in Requests, Unlock(r)
  PROVE  OwnersHold' /\ Ascending'
  <1> DEFINE t == Highest(locked[r])
             i == got[r][t]
  <1>1. t \in Targets /\ t \in locked[r] /\ i \in Requests
    <2>1. locked[r] \in SUBSET Targets /\ locked[r] /= {}
      BY DEF OrderInv, IInv, TypeOK, PlacesAgree, Unlock
    <2>2. t \in locked[r]
      BY <2>1, HighestIsIn
    <2> QED BY <2>1, <2>2 DEF OrderInv, IInv, LocksOwned, TypeOK
  <1>2. /\ owner' = [owner EXCEPT ![i][t] = None]
        /\ locked' = [locked EXCEPT ![r] = @ \ {t}]
        /\ at[r] = "unlocking"
        /\ at' = [at EXCEPT ![r] = IF locked[r] = {t} THEN "returning" ELSE "unlocking"]
        /\ got[r][t] = i
        /\ UNCHANGED <<todo, got>>
    BY DEF Unlock
  <1> HIDE DEF t, i
  <1>3. OwnersHold'
    <2> SUFFICES ASSUME NEW j \in Requests, NEW u \in Targets, owner'[j][u] /= None
                 PROVE  got'[owner'[j][u]][u] = j /\ u \in locked'[owner'[j][u]]
      BY DEF OwnersHold
    <2>1. ~(j = i /\ u = t) /\ owner'[j][u] = owner[j][u] /\ owner[j][u] \in Requests
      BY <1>1, <1>2 DEF OrderInv, IInv, TypeOK
    <2>2. got[owner[j][u]][u] = j /\ u \in locked[owner[j][u]]
      BY <2>1 DEF OrderInv, OwnersHold
    <2> QED BY <1>1, <1>2, <2>1, <2>2 DEF OrderInv, IInv, TypeOK
  <1>4. Ascending'
    <2> SUFFICES ASSUME NEW s \in Requests PROVE Ascending!(s)'
      BY DEF Ascending
    <2>0. Borrowed(s)' = Borrowed(s) /\ todo'[s] = todo[s]
      BY <1>2 DEF Borrowed
    <2>1. CASE s /= r
      <3>1. at'[s] = at[s] /\ locked'[s] = locked[s]
        BY <1>2, <2>1 DEF OrderInv, IInv, TypeOK
      <3> QED BY <2>0, <3>1 DEF OrderInv, Ascending
    <2>2. CASE s = r
      <3>1. at'[s] \in {"returning", "unlocking"}
        BY <1>2, <2>2 DEF OrderInv, IInv, TypeOK
      <3> QED BY <3>1
    <2> QED BY <2>1, <2>2
  <1> QED BY <1>3, <1>4

LEMMA ReturnOrders ==
  ASSUME OrderInv, NEW r \in Requests, Return(r)
  PROVE  OwnersHold' /\ Ascending'
  <1> DEFINE t == Highest(Borrowed(r))
  <1>1. t \in Targets
    <2>1. Borrowed(r) \in SUBSET Targets /\ Borrowed(r) /= {}
      BY DEF OrderInv, IInv, PlacesAgree, Return, Borrowed
    <2> QED BY <2>1, HighestIsIn
  <1>2. /\ at[r] = "returning" /\ locked[r] = {}
        /\ got' = [got EXCEPT ![r][t] = None]
        /\ at' = [at EXCEPT ![r] = IF Borrowed(r) = {t} THEN "idle" ELSE "returning"]
        /\ UNCHANGED <<owner, todo, locked>>
    BY DEF Return, OrderInv, IInv, PlacesAgree
  <1> HIDE DEF t
  <1>3. OwnersHold'
    <2> SUFFICES ASSUME NEW j \in Requests, NEW u \in Targets, owner[j][u] /= None
                 PROVE  got'[owner[j][u]][u] = j /\ u \in locked[owner[j][u]]
      BY <1>2 DEF OwnersHold
    <2>1. got[owner[j][u]][u] = j /\ u \in locked[owner[j][u]] /\ owner[j][u] \in Requests
      BY DEF OrderInv, OwnersHold, IInv, TypeOK
    <2>2. owner[j][u] /= r
      BY <1>2, <2>1
    <2> QED BY <1>1, <1>2, <2>1, <2>2 DEF OrderInv, IInv, TypeOK
  <1>4. Ascending'
    <2> SUFFICES ASSUME NEW s \in Requests PROVE Ascending!(s)'
      BY DEF Ascending
    <2>1. CASE s /= r
      <3>1. Borrowed(s)' = Borrowed(s) /\ at'[s] = at[s] /\ todo'[s] = todo[s] /\ locked'[s] = locked[s]
        BY <1>1, <1>2, <2>1 DEF Borrowed, OrderInv, IInv, TypeOK
      <3> QED BY <3>1 DEF OrderInv, Ascending
    <2>2. CASE s = r
      <3>1. at'[s] \in {"idle", "returning"}
        BY <1>2, <2>2 DEF OrderInv, IInv, TypeOK
      <3> QED BY <3>1
    <2> QED BY <2>1, <2>2
  <1> QED BY <1>3, <1>4

LEMMA AskOrders ==
  ASSUME OrderInv, NEW r \in Requests, NEW wanted \in SUBSET Targets, Ask(r, wanted)
  PROVE  OwnersHold' /\ Ascending'
  <1>1. OwnersHold'
    BY DEF Ask, OrderInv, OwnersHold
  <1>2. Ascending'
    <2> SUFFICES ASSUME NEW s \in Requests PROVE Ascending!(s)'
      BY DEF Ascending
    <2>0. Borrowed(s)' = Borrowed(s) /\ locked'[s] = locked[s]
      BY DEF Ask, Borrowed
    <2>1. CASE s /= r
      <3>1. at'[s] = at[s] /\ todo'[s] = todo[s]
        BY <2>1 DEF Ask, OrderInv, IInv, TypeOK
      <3> QED BY <2>0, <3>1 DEF OrderInv, Ascending
    <2>2. CASE s = r
      <3>1. Borrowed(s) = {} /\ at'[s] = "borrowing"
        BY <2>2 DEF Ask, OrderInv, IInv, TypeOK, PlacesAgree
      <3> QED BY <2>0, <3>1
    <2> QED BY <2>1, <2>2
  <1> QED BY <1>1, <1>2

LEMMA MoveOnOrders ==
  ASSUME OrderInv, NEW r \in Requests, GiveUp(r) \/ Leave(r)
  PROVE  OwnersHold' /\ Ascending'
  <1>1. OwnersHold'
    BY DEF GiveUp, Leave, OrderInv, OwnersHold
  <1>2. Ascending'
    <2> SUFFICES ASSUME NEW s \in Requests PROVE Ascending!(s)'
      BY DEF Ascending
    <2>0. Borrowed(s)' = Borrowed(s) /\ locked'[s] = locked[s]
      BY DEF GiveUp, Leave, Borrowed
    <2>1. CASE s /= r
      <3>1. at'[s] = at[s] /\ todo'[s] = todo[s]
        BY <2>1 DEF GiveUp, Leave, OrderInv, IInv, TypeOK
      <3> QED BY <2>0, <3>1 DEF OrderInv, Ascending
    <2>2. CASE s = r
      <3>1. at'[s] \in {"refused", "returning", "unlocking"}
        BY <2>2 DEF GiveUp, Leave, OrderInv, IInv, TypeOK
      <3> QED BY <3>1
    <2> QED BY <2>1, <2>2
  <1> QED BY <1>1, <1>2

LEMMA NextOrders == ASSUME OrderInv, [LockNext]_lockVars PROVE OrderInv'
  <1>0. IInv'
    BY NextKeeps DEF OrderInv
  <1>1. ASSUME NEW r \in Requests, NEW wanted \in SUBSET Targets, Ask(r, wanted)
        PROVE  OwnersHold' /\ Ascending'
    BY <1>1, AskOrders
  <1>2. ASSUME NEW r \in Requests, Step(r) PROVE OwnersHold' /\ Ascending'
    BY <1>2, BorrowOrders, AcquireOrders, MoveOnOrders, UnlockOrders, ReturnOrders DEF Step
  <1>3. CASE UNCHANGED lockVars
    <2>1. OwnersHold'
      BY <1>3 DEF lockVars, OrderInv, OwnersHold
    <2>2. Ascending'
      <3> SUFFICES ASSUME NEW s \in Requests PROVE Ascending!(s)'
        BY DEF Ascending
      <3>1. Borrowed(s)' = Borrowed(s)
        BY <1>3 DEF lockVars, Borrowed
      <3>2. at' = at /\ todo' = todo /\ locked' = locked
        BY <1>3 DEF lockVars
      <3>3. Ascending!(s)
        BY DEF OrderInv, Ascending
      <3> QED BY <3>1, <3>2, <3>3
    <2> QED BY <1>0, <2>1, <2>2 DEF OrderInv
  <1> QED BY <1>0, <1>1, <1>2, <1>3 DEF LockNext, OrderInv

LEMMA OrderHolds == LockSpec => []OrderInv
  <1>1. LockInit => OrderInv
    <2> SUFFICES ASSUME LockInit PROVE OrderInv
      OBVIOUS
    <2>1. OwnersHold /\ Ascending
      BY DEF LockInit, OwnersHold, Ascending
    <2> QED BY <2>1, InitIInv DEF OrderInv
  <1>2. OrderInv /\ [LockNext]_lockVars => OrderInv'
    BY NextOrders
  <1> QED BY <1>1, <1>2, PTL DEF LockSpec

LEMMA OrderedNoRing == ASSUME OrderInv PROVE NoRing
  <1> SUFFICES ASSUME NEW S \in (SUBSET Requests) \ {{}},
                      \A r \in S : /\ at[r] = "waiting"
                                   /\ owner[got[r][WaitsFor(r)]][WaitsFor(r)] \in S
               PROVE  FALSE
    BY DEF NoRing
  <1> DEFINE W == {WaitsFor(r) : r \in S}
  <1>1. ASSUME NEW r \in S
        PROVE  /\ WaitsFor(r) \in Targets
               /\ WaitsFor(r) \in Borrowed(r)
               /\ \A u \in locked[r] : u < WaitsFor(r)
    <2>1. at[r] = "waiting" /\ r \in Requests
      OBVIOUS
    <2>2. PICK t \in Borrowed(r) \ locked[r] : /\ Borrowed(r) \subseteq locked[r] \cup {t}
                                               /\ \A u \in locked[r] : u < t
      BY <2>1 DEF OrderInv, Ascending
    <2>3. t \in Targets
      BY <2>2 DEF Borrowed
    <2>4. WaitsFor(r) \in Targets /\ WaitsFor(r) \in Borrowed(r) \ locked[r]
      BY <2>2, <2>3 DEF WaitsFor
    <2>5. WaitsFor(r) = t
      BY <2>2, <2>4
    <2> QED BY <2>2, <2>3, <2>5
  <1>2. W \in SUBSET Targets /\ W /= {}
    BY <1>1
  <1>3. PICK top \in W : \A u \in W : u <= top
    BY <1>2, TargetsRanked
  <1>4. PICK r \in S : top = WaitsFor(r)
    BY <1>3
  <1>5. PICK s \in S : s = owner[got[r][top]][top]
    BY <1>4
  <1>6. got[r][top] \in Requests /\ top \in Targets /\ s /= None
    <2>1. top \in Targets /\ top \in Borrowed(r) /\ r \in Requests
      BY <1>1, <1>4
    <2> QED BY <2>1, NoneIsNoRequest DEF OrderInv, IInv, TypeOK, Borrowed
  <1>7. top \in locked[s]
    BY <1>5, <1>6 DEF OrderInv, OwnersHold
  <1>8. top < WaitsFor(s) /\ WaitsFor(s) <= top /\ WaitsFor(s) \in Targets
    BY <1>1, <1>3, <1>7
  <1> QED BY <1>6, <1>8, TargetsRanked

\* The registry never leaks an entry, never splits a target's lock in two, and
\* never lets requests wait for each other in a ring (_writecoord.py:28-77).
THEOREM Sound == LockSpec => []RegistrySound
  <1>1. OrderInv => NoRing
    BY OrderedNoRing
  <1>2. TypeOK /\ RegistryLeakFree /\ NoRing => RegistrySound
    BY DEF RegistrySound
  <1> QED BY <1>1, <1>2, OrderHolds, TypeCorrect, LeakFree, PTL

-----------------------------------------------------------------------------

\* A step of the registry is a step of WriteLocks or none.
LEMMA StepMaps == ASSUME IInv, LockNext PROVE [Locks!HoldNext]_locked
  <1>1. ASSUME NEW r \in Requests, Acquire(r) PROVE Locks!HoldNext
    <2> DEFINE t == WaitsFor(r)
    <2>1. t \in Targets /\ t \in Borrowed(r) /\ t \notin locked[r]
      BY <1>1 DEF Acquire, WaitsFor, IInv, PlacesAgree
    <2>2. owner[got[r][t]][t] = None /\ locked' = [locked EXCEPT ![r] = @ \cup {t}]
      BY <1>1 DEF Acquire
    <2> HIDE DEF t
    <2>3. ASSUME NEW s \in Requests, t \in locked[s] PROVE FALSE
      <3>1. got[s][t] /= None /\ owner[got[s][t]][t] = s
        BY <2>3 DEF IInv, LocksOwned
      <3>2. got[s][t] = got[r][t]
        BY <2>1, <3>1 DEF IInv, OneEntry, Borrowed
      <3> QED BY <2>2, <3>1, <3>2, NoneIsNoRequest
    <2>4. Locks!Take(r, t)
      BY <2>2, <2>3 DEF Locks!Take, Locks!Free
    <2> QED BY <2>1, <2>4 DEF Locks!HoldNext
  <1>2. ASSUME NEW r \in Requests, Unlock(r) PROVE Locks!HoldNext
    <2> DEFINE t == Highest(locked[r])
    <2>1. locked[r] \in SUBSET Targets /\ locked[r] /= {}
      BY <1>2 DEF IInv, TypeOK, PlacesAgree, Unlock
    <2>2. t \in locked[r] /\ t \in Targets
      BY <2>1, HighestIsIn
    <2>3. locked' = [locked EXCEPT ![r] = @ \ {t}]
      BY <1>2 DEF Unlock
    <2> HIDE DEF t
    <2>4. Locks!GiveBack(r, t)
      BY <2>2, <2>3 DEF Locks!GiveBack
    <2> QED BY <2>2, <2>4 DEF Locks!HoldNext
  <1>3. ASSUME NEW r \in Requests, Borrow(r) \/ GiveUp(r) \/ Leave(r) \/ Return(r)
        PROVE  UNCHANGED locked
    BY <1>3 DEF Borrow, GiveUp, Leave, Return
  <1>4. ASSUME NEW r \in Requests, NEW wanted \in SUBSET Targets, Ask(r, wanted)
        PROVE  UNCHANGED locked
    BY <1>4 DEF Ask
  <1> QED BY <1>1, <1>2, <1>3, <1>4 DEF LockNext, Step

\* The registry implements one exclusive lock per target.
THEOREM Implements == LockSpec => ImplementsWriteLocks
  <1>1. LockInit => Locks!HeldByNone
    BY DEF LockInit, Locks!HeldByNone
  <1>2. IInv /\ [LockNext]_lockVars => [Locks!HoldNext]_locked
    BY StepMaps DEF lockVars
  <1> QED BY <1>1, <1>2, Inductive, PTL DEF LockSpec, ImplementsWriteLocks, Locks!HoldSpec

-----------------------------------------------------------------------------
(* The access log                                                          *)

\* What the writer holds, and then what is queued, are the accepted records
\* after those it has written, in their order.
InOrder ==
  /\ Len(accepted) = written + writeFailed + abandoned + Len(batch) + Len(records)
  /\ ~sinkFailed => writeFailed = 0 /\ abandoned = 0
  /\ \A i \in 1 .. Len(batch) : batch[i] = accepted[written + i]
  /\ \A i \in 1 .. Len(records) : records[i] = accepted[written + Len(batch) + i]

\* A call that was accepted has its answer, so it is accepted once.
AcceptedOnce ==
  /\ \A i \in 1 .. Len(accepted) : caller[accepted[i]] = "accepted"
  /\ \A i, j \in 1 .. Len(accepted) : accepted[i] = accepted[j] => i = j

\* What the writer holds, by where it is; after a failure it holds nothing, and
\* nothing is queued.
InHand ==
  /\ Len(batch) <= BatchSize
  /\ writer \in {"filling", "refill"} => Len(batch) < BatchSize
  /\ writer \in {"idle", "waiting", "done"} => batch = <<>>
  /\ writer \in {"writing", "wrote", "failed"} => active = Len(batch)
  /\ sinkFailed => batch = <<>> /\ records = <<>> /\ writer \in {"idle", "waiting", "done"}

\* How far the file is ahead of the counter: by the batch between the write and
\* the count, by a part of it after a write that failed.
OnFile ==
  /\ Len(file) <= Len(accepted)
  /\ \A i \in 1 .. Len(file) : file[i] = accepted[i]
  /\ written <= Len(file)
  /\ ~sinkFailed /\ writer \notin {"wrote", "failed"} => Len(file) = written
  /\ writer = "wrote" => Len(file) = written + Len(batch)

\* The bytes that are charged are those of the accepted records that the log
\* still holds.
Retained == {accepted[i] : i \in written + 1 .. written + Len(batch) + Len(records)}
Bytes(S) == Cardinality(UNION {BytesIn(p) : p \in S})

ChargeExact ==
  /\ outstanding = Len(batch) + Len(records)
  /\ outstandingBytes = Bytes(Retained)
  /\ outstanding <= CountCapacity
  /\ outstandingBytes <= ByteCapacity

LogInv == LogTypeOK /\ InOrder /\ AcceptedOnce /\ InHand /\ OnFile /\ ChargeExact

THEOREM LogInit == Init => LogInv
  <1> SUFFICES ASSUME Init PROVE LogInv
    OBVIOUS
  <1> USE DEF Init
  <1>1. LogTypeOK
    <2>1. 0 \in 0 .. BatchSize
      BY CapacityAssumption
    <2>2. caller \in [Calls -> {"new", "waiting", "woken"} \cup Results]
      BY Zenon
    <2>3. overflow \in {"block", "drop"} /\ closing \in BOOLEAN /\ sinkFailed \in BOOLEAN
      BY Zenon
    <2>4. /\ records \in Seq(Calls) /\ batch \in Seq(Calls)
          /\ accepted \in Seq(Calls) /\ file \in Seq(Calls)
      OBVIOUS
    <2>5. QED
      BY <2>1, <2>2, <2>3, <2>4 DEF LogTypeOK
  <1>2. InOrder /\ AcceptedOnce /\ InHand /\ OnFile
    BY CapacityAssumption DEF InOrder, AcceptedOnce, InHand, OnFile
  <1>3. UNION {BytesIn(p) : p \in Retained} = {}
    BY DEF Retained
  <1>4. Bytes(Retained) = 0
    BY <1>3, FS_EmptySet DEF Bytes
  <1>5. ChargeExact
    BY <1>4, CapacityAssumption DEF ChargeExact, CountCapacity
  <1>6. QED
    BY <1>1, <1>2, <1>5 DEF LogInv

-----------------------------------------------------------------------------
\* What a piece of a sequence holds.
LEMMA Piece ==
    ASSUME NEW S, NEW s \in Seq(S), NEW a \in Nat, NEW b \in Nat, 1 <= a, a <= b + 1, b <= Len(s)
    PROVE  /\ SubSeq(s, a, b) \in Seq(S) /\ Len(SubSeq(s, a, b)) = b - a + 1
           /\ \A i \in 1 .. b - a + 1 : SubSeq(s, a, b)[i] = s[a + i - 1]
  OBVIOUS

LEMMA Joined ==
    ASSUME NEW S, NEW s \in Seq(S), NEW t \in Seq(S)
    PROVE  /\ s \o t \in Seq(S) /\ Len(s \o t) = Len(s) + Len(t)
           /\ \A i \in 1 .. Len(s) : (s \o t)[i] = s[i]
           /\ \A i \in 1 .. Len(t) : (s \o t)[Len(s) + i] = t[i]
  OBVIOUS

\* The writer takes records from the front of the queue, up to a batch.
Filled(n) ==
  /\ batch' \in Seq(Calls) /\ records' \in Seq(Calls)
  /\ Len(batch') = Len(batch) + n /\ Len(records') = Len(records) - n
  /\ Len(batch') <= BatchSize
  /\ \A i \in 1 .. Len(batch) : batch'[i] = batch[i]
  /\ \A i \in 1 .. n : batch'[Len(batch) + i] = records[i]
  /\ \A i \in 1 .. Len(records) - n : records'[i] = records[n + i]

LEMMA FillTakes ==
    ASSUME LogTypeOK, InHand, Fill
    PROVE  \E n \in 0 .. Len(records) : Filled(n)
  <1> DEFINE room == BatchSize - Len(batch)
             n == IF Len(records) < room THEN Len(records) ELSE room
             taken == SubSeq(records, 1, n)
  <1>1. /\ batch \in Seq(Calls) /\ records \in Seq(Calls)
        /\ Len(batch) \in Nat /\ Len(records) \in Nat /\ BatchSize \in Nat /\ Len(batch) <= BatchSize
    BY CapacityAssumption DEF LogTypeOK, InHand
  <1>2. batch' = batch \o taken /\ records' = SubSeq(records, n + 1, Len(records))
    BY DEF Fill
  <1>3. n \in 0 .. Len(records) /\ Len(batch) + n <= BatchSize
    BY <1>1
  <1> HIDE DEF n
  <1>4. /\ taken \in Seq(Calls) /\ Len(taken) = n
        /\ \A i \in 1 .. n : taken[i] = records[i]
    BY <1>1, <1>3, Piece
  <1>5. /\ records' \in Seq(Calls) /\ Len(records') = Len(records) - n
        /\ \A i \in 1 .. Len(records) - n : records'[i] = records[n + i]
    BY <1>1, <1>2, <1>3, Piece
  <1> HIDE DEF taken
  <1>6. /\ batch' \in Seq(Calls) /\ Len(batch') = Len(batch) + n
        /\ \A i \in 1 .. Len(batch) : batch'[i] = batch[i]
        /\ \A i \in 1 .. n : batch'[Len(batch) + i] = records[i]
    <2> DEFINE joined == batch \o taken
    <2>1. /\ joined \in Seq(Calls) /\ Len(joined) = Len(batch) + Len(taken)
          /\ \A i \in 1 .. Len(batch) : joined[i] = batch[i]
          /\ \A i \in 1 .. Len(taken) : joined[Len(batch) + i] = taken[i]
      <3>1. batch \in Seq(Calls) /\ taken \in Seq(Calls)
        BY <1>1, <1>4
      <3>2. QED
        BY <3>1, Joined
    <2> HIDE DEF joined
    <2>3. batch' = joined
      BY <1>2 DEF joined
    <2>2. QED
      BY <1>4, <2>1, <2>3
  <1>7. QED
    BY <1>3, <1>5, <1>6 DEF Filled

-----------------------------------------------------------------------------
\* The order of the records.
LEMMA FillKeepsOrder ==
    ASSUME LogTypeOK, InOrder, InHand, Fill
    PROVE  InOrder'
  <1>1. PICK n \in 0 .. Len(records) : Filled(n)
    BY FillTakes
  <1>2. /\ UNCHANGED <<accepted, written, writeFailed, abandoned, sinkFailed>>
        /\ Len(batch) \in Nat /\ Len(records) \in Nat /\ written \in Nat
    BY DEF Fill, delivery, LogTypeOK
  <1> USE DEF Filled
  <1>7. Len(batch') \in Nat /\ Len(records') \in Nat
    BY <1>1
  <1>3. ASSUME NEW i \in 1 .. Len(batch') PROVE batch'[i] = accepted[written + i]
    <2>1. CASE i \in 1 .. Len(batch)
      BY <1>1, <2>1 DEF InOrder
    <2>2. CASE i \notin 1 .. Len(batch)
      <3> DEFINE k == i - Len(batch)
      <3>1. k \in 1 .. n /\ k \in 1 .. Len(records) /\ i = Len(batch) + k
        BY <1>1, <1>2, <1>7, <2>2
      <3>2. batch'[Len(batch) + k] = records[k] /\ records[k] = accepted[written + Len(batch) + k]
        BY <1>1, <3>1 DEF InOrder
      <3>3. written + Len(batch) + k = written + i
        BY <1>2, <3>1
      <3>4. QED
        BY <3>1, <3>2, <3>3
    <2>3. QED
      BY <2>1, <2>2
  <1>4. ASSUME NEW i \in 1 .. Len(records') PROVE records'[i] = accepted[written + Len(batch') + i]
    <2>1. n + i \in 1 .. Len(records) /\ i \in 1 .. Len(records) - n
      BY <1>1, <1>2, <1>7
    <2>2. records'[i] = records[n + i] /\ records[n + i] = accepted[written + Len(batch) + (n + i)]
      BY <1>1, <2>1 DEF InOrder
    <2>3. written + Len(batch) + (n + i) = written + Len(batch') + i
      BY <1>1, <1>2, <1>7
    <2>4. QED
      BY <2>2, <2>3
  <1>5. Len(batch') + Len(records') = Len(batch) + Len(records)
    BY <1>1, <1>2
  <1>6. Len(accepted') = written' + writeFailed' + abandoned' + Len(batch') + Len(records')
    <2>1. /\ Len(accepted) = written + writeFailed + abandoned + Len(batch) + Len(records)
          /\ writeFailed \in Nat /\ abandoned \in Nat
      BY DEF InOrder, LogTypeOK
    <2>2. QED
      BY <1>2, <1>5, <1>7, <2>1
  <1>8. (~sinkFailed => writeFailed = 0 /\ abandoned = 0)'
    BY <1>2 DEF InOrder
  <1>9. (\A i \in 1 .. Len(batch) : batch[i] = accepted[written + i])'
    BY <1>2, <1>3
  <1>10. (\A i \in 1 .. Len(records) : records[i] = accepted[written + Len(batch) + i])'
    BY <1>2, <1>4
  <1> HIDE DEF Filled
  <1>11. QED
    BY <1>6, <1>8, <1>9, <1>10 DEF InOrder

LEMMA OrderKept ==
    ASSUME LogTypeOK, InOrder, InHand, [Next]_vars
    PROVE  InOrder'
  <1> USE DEF LogTypeOK
  <1>1. CASE UNCHANGED <<records, batch, accepted, delivery, sinkFailed>>
    BY <1>1 DEF InOrder, delivery
  <1>2. ASSUME NEW p \in Calls, Accept(p) PROVE InOrder'
    <2>1. /\ Len(accepted') = Len(accepted) + 1 /\ accepted'[Len(accepted) + 1] = p
          /\ \A i \in 1 .. Len(accepted) : accepted'[i] = accepted[i]
          /\ Len(records') = Len(records) + 1 /\ records'[Len(records) + 1] = p
          /\ \A i \in 1 .. Len(records) : records'[i] = records[i]
          /\ Len(accepted) \in Nat /\ Len(records) \in Nat /\ Len(batch) \in Nat
      BY <1>2 DEF Accept
    <2>2. ~sinkFailed /\ UNCHANGED <<batch, written, writeFailed, abandoned, sinkFailed>>
      BY <1>2 DEF Accept, delivery
    <2>3. Len(accepted) = written + Len(batch) + Len(records) /\ writeFailed = 0 /\ abandoned = 0
      BY <2>1, <2>2 DEF InOrder
    <2>4. ASSUME NEW i \in 1 .. Len(records') PROVE records'[i] = accepted'[written + Len(batch) + i]
      <3>1. CASE i \in 1 .. Len(records)
        BY <2>1, <2>3, <3>1 DEF InOrder
      <3>2. CASE i = Len(records) + 1
        BY <2>1, <2>3, <3>2
      <3>3. QED
        BY <2>1, <3>1, <3>2
    <2>5. ASSUME NEW i \in 1 .. Len(batch) PROVE batch[i] = accepted'[written + i]
      BY <2>1, <2>3 DEF InOrder
    <2>6. QED
      BY <2>1, <2>2, <2>3, <2>4, <2>5 DEF InOrder
  <1>3. CASE Fill
    BY <1>3, FillKeepsOrder
  <1>4. CASE Settle
    BY <1>4 DEF InOrder, Settle, InHand
  <1>5. CASE SettleFailure
    BY <1>5 DEF InOrder, SettleFailure, InHand
  <1>6. QED
    BY <1>1, <1>2, <1>3, <1>4, <1>5
       DEF Next, Record, Writer, RejectClosed, RejectSinkFailed, DropBytes, DropCapacity, Block,
           Answer, TakeFirst, AwaitRecord, Refill, BatchWaitOver, Write, WriterEnds, Close,
           Terminated, vars

LEMMA OnceKept ==
    ASSUME LogTypeOK, AcceptedOnce, [Next]_vars
    PROVE  AcceptedOnce'
  <1> USE DEF LogTypeOK
  <1>1. CASE UNCHANGED <<accepted, caller>>
    BY <1>1 DEF AcceptedOnce
  <1>2. CASE UNCHANGED accepted /\ caller' = Woken(caller)
    BY <1>2 DEF AcceptedOnce, Woken
  <1>3. ASSUME NEW p \in Calls, NEW result \in {"closed", "sink_failed", "dropped_bytes", "dropped_capacity", "waiting"},
               Looking(p), Answer(p, result)
        PROVE  AcceptedOnce'
    <2>1. ASSUME NEW i \in 1 .. Len(accepted) PROVE accepted[i] # p /\ accepted[i] \in Calls
      BY <1>3 DEF AcceptedOnce, Looking
    <2>2. QED
      BY <1>3, <2>1 DEF AcceptedOnce, Answer
  <1>4. ASSUME NEW p \in Calls, Accept(p) PROVE AcceptedOnce'
    <2>1. ASSUME NEW i \in 1 .. Len(accepted) PROVE accepted[i] # p /\ accepted[i] \in Calls
      BY <1>4 DEF AcceptedOnce, Looking, Accept
    <2>2. /\ Len(accepted') = Len(accepted) + 1 /\ Len(accepted) \in Nat
          /\ accepted'[Len(accepted) + 1] = p
          /\ \A i \in 1 .. Len(accepted) : accepted'[i] = accepted[i]
      BY <1>4 DEF Accept
    <2>3. caller'[p] = "accepted" /\ \A q \in Calls : caller[q] = "accepted" => caller'[q] = "accepted"
      BY <1>4 DEF Accept, Woken
    <2>4. \A i \in 1 .. Len(accepted') : i \in 1 .. Len(accepted) \/ i = Len(accepted) + 1
      BY <2>2
    <2>5. \A i \in 1 .. Len(accepted') : caller'[accepted'[i]] = "accepted"
      <3>1. ASSUME NEW i \in 1 .. Len(accepted) PROVE caller'[accepted'[i]] = "accepted"
        BY <2>1, <2>2, <2>3 DEF AcceptedOnce
      <3>2. QED
        BY <2>2, <2>3, <2>4, <3>1
    <2>6. ASSUME NEW i \in 1 .. Len(accepted'), NEW j \in 1 .. Len(accepted'),
                 accepted'[i] = accepted'[j]
          PROVE  i = j
      <3>1. CASE i \in 1 .. Len(accepted) /\ j \in 1 .. Len(accepted)
        BY <2>2, <2>6, <3>1 DEF AcceptedOnce
      <3>2. CASE i = Len(accepted) + 1 \/ j = Len(accepted) + 1
        BY <2>1, <2>2, <2>4, <2>6, <3>2
      <3>3. QED
        BY <2>4, <3>1, <3>2
    <2>7. QED
      BY <2>5, <2>6 DEF AcceptedOnce
  <1>5. QED
    BY <1>1, <1>2, <1>3, <1>4
       DEF Next, Record, Writer, RejectClosed, RejectSinkFailed, DropBytes, DropCapacity, Block,
           TakeFirst, AwaitRecord, Refill, BatchWaitOver, Write, WriterEnds, Close, Settle,
           SettleFailure, Fill, Terminated, vars

LEMMA InHandKept ==
    ASSUME LogTypeOK, InHand, [Next]_vars
    PROVE  InHand'
  <1> USE DEF LogTypeOK
  <1>1. CASE UNCHANGED <<records, batch, writer, active, sinkFailed>>
    BY <1>1 DEF InHand
  <1>2. ASSUME NEW p \in Calls, Accept(p) PROVE InHand'
    BY <1>2 DEF InHand, Accept, WokenWriter
  <1>3. CASE Fill /\ (TakeFirst \/ Refill)
    <2>1. PICK n \in 0 .. Len(records) : Filled(n)
      BY <1>3, FillTakes
    <2>2. ~sinkFailed /\ UNCHANGED sinkFailed
      BY <1>3 DEF InHand, TakeFirst, Refill, Fill
    <2>3. Len(batch') <= BatchSize /\ Len(batch') \in Nat
      BY <2>1 DEF Filled
    <2>4. /\ writer' \in {"writing", "filling"}
          /\ writer' = "filling" => Len(batch') # BatchSize
          /\ writer' = "writing" => active' = Len(batch')
      BY <1>3 DEF Fill
    <2>5. QED
      BY <2>2, <2>3, <2>4, CapacityAssumption DEF InHand
  <1>4. CASE AwaitRecord \/ BatchWaitOver \/ Write \/ WriterEnds
    BY <1>4 DEF InHand, AwaitRecord, BatchWaitOver, Write, WriterEnds
  <1>5. CASE Settle \/ SettleFailure
    BY <1>5, CapacityAssumption DEF InHand, Settle, SettleFailure
  <1>6. CASE Close
    BY <1>6 DEF InHand, Close, WokenWriter
  <1>7. QED
    BY <1>1, <1>2, <1>3, <1>4, <1>5, <1>6
       DEF Next, Record, Writer, RejectClosed, RejectSinkFailed, DropBytes, DropCapacity, Block,
           Answer, TakeFirst, Refill, Terminated, vars

LEMMA OnFileKept ==
    ASSUME LogTypeOK, InOrder, InHand, OnFile, [Next]_vars
    PROVE  OnFile'
  <1> USE DEF LogTypeOK
  <1>1. CASE /\ UNCHANGED <<batch, accepted, written, file, sinkFailed>>
             /\ (writer \in {"wrote", "failed"} \/ writer' \in {"wrote", "failed"}) => UNCHANGED writer
    BY <1>1 DEF OnFile
  <1>2. ASSUME NEW p \in Calls, Accept(p) PROVE OnFile'
    BY <1>2 DEF OnFile, Accept, WokenWriter, delivery
  <1>3. CASE Fill /\ (TakeFirst \/ Refill)
    BY <1>3 DEF OnFile, Fill, TakeFirst, Refill, delivery
  <1>4. CASE Write
    <2>1. /\ ~sinkFailed /\ Len(file) = written /\ written \in Nat /\ Len(batch) \in Nat
          /\ Len(file) + Len(batch) <= Len(accepted) /\ Len(accepted) \in Nat
          /\ UNCHANGED <<accepted, written, batch, sinkFailed>>
      BY <1>4 DEF Write, OnFile, InHand, InOrder, delivery
    <2>2. ASSUME NEW n \in 0 .. Len(batch), NEW piece \in Seq(Calls), Len(piece) = n,
                 file' = file \o piece, \A i \in 1 .. n : piece[i] = batch[i]
          PROVE  /\ Len(file') = written + n
                 /\ \A i \in 1 .. Len(file') : file'[i] = accepted[i]
      <3>1. /\ Len(file') = written + n
            /\ \A i \in 1 .. written : file'[i] = file[i]
            /\ \A i \in 1 .. n : file'[written + i] = batch[i]
        <4>1. /\ Len(file \o piece) = Len(file) + Len(piece)
              /\ \A i \in 1 .. Len(file) : (file \o piece)[i] = file[i]
              /\ \A i \in 1 .. Len(piece) : (file \o piece)[Len(file) + i] = piece[i]
          BY Joined
        <4>2. QED
          BY <2>1, <2>2, <4>1
      <3>2. ASSUME NEW i \in 1 .. Len(file') PROVE file'[i] = accepted[i]
        <4>1. CASE i <= written
          BY <2>1, <3>1, <4>1 DEF OnFile
        <4>2. CASE i > written
          <5> DEFINE k == i - written
          <5>1. k \in 1 .. n /\ k \in 1 .. Len(batch) /\ i = written + k
            BY <2>1, <3>1, <4>2
          <5>2. batch[k] = accepted[written + k]
            BY <5>1 DEF InOrder
          <5>3. QED
            BY <3>1, <5>1, <5>2
        <4>3. QED
          BY <2>1, <3>1, <4>1, <4>2
      <3>3. QED
        BY <3>1, <3>2
    <2>3. CASE writer' = "wrote" /\ file' = file \o batch
      <3>1. /\ Len(file') = written + Len(batch)
            /\ \A i \in 1 .. Len(file') : file'[i] = accepted[i]
        <4>1. Len(batch) \in 0 .. Len(batch) /\ \A i \in 1 .. Len(batch) : batch[i] = batch[i]
          BY <2>1
        <4>2. QED
          BY <2>2, <2>3, <4>1
      <3>2. QED
        BY <2>1, <2>3, <3>1 DEF OnFile
    <2>4. ASSUME NEW n \in 0 .. Len(batch), writer' = "failed", file' = file \o SubSeq(batch, 1, n)
          PROVE  OnFile'
      <3>1. /\ SubSeq(batch, 1, n) \in Seq(Calls) /\ Len(SubSeq(batch, 1, n)) = n
            /\ \A i \in 1 .. n : SubSeq(batch, 1, n)[i] = batch[i]
        BY <2>1, Piece
      <3>2. /\ Len(file') = written + n
            /\ \A i \in 1 .. Len(file') : file'[i] = accepted[i]
        BY <2>2, <2>4, <3>1
      <3>3. QED
        BY <2>1, <2>4, <3>2 DEF OnFile
    <2>5. QED
      BY <1>4, <2>3, <2>4 DEF Write
  <1>5. CASE Settle
    BY <1>5 DEF OnFile, Settle, InHand, InOrder
  <1>6. CASE SettleFailure
    BY <1>6 DEF OnFile, SettleFailure
  <1>7. CASE Close
    BY <1>7 DEF OnFile, Close, WokenWriter, delivery
  <1>8. QED
    BY <1>1, <1>2, <1>3, <1>4, <1>5, <1>6, <1>7
       DEF Next, Record, Writer, RejectClosed, RejectSinkFailed, DropBytes, DropCapacity, Block,
           Answer, TakeFirst, Refill, AwaitRecord, BatchWaitOver, WriterEnds, Terminated,
           delivery, vars

-----------------------------------------------------------------------------
(* The bytes that are charged.                                             *)

LEMMA ChargeOf ==
    ASSUME NEW p \in Calls
    PROVE  IsFiniteSet(BytesIn(p)) /\ Cardinality(BytesIn(p)) = Charge[p]
  <1>1. Charge[p] \in Nat
    BY CallsAssumption
  <1>2. IsFiniteSet(1 .. Charge[p]) /\ Cardinality(1 .. Charge[p]) = Charge[p]
    BY <1>1, FS_Interval
  <1>3. IsFiniteSet({p}) /\ Cardinality({p}) = 1
    BY FS_Singleton
  <1>4. /\ IsFiniteSet(BytesIn(p))
        /\ Cardinality(BytesIn(p)) = Cardinality({p}) * Cardinality(1 .. Charge[p])
    BY <1>2, <1>3, FS_Product, Zenon DEF BytesIn
  <1>5. QED
    BY <1>1, <1>2, <1>3, <1>4

LEMMA BytesFinite ==
    ASSUME NEW S \in SUBSET Calls
    PROVE  IsFiniteSet(UNION {BytesIn(p) : p \in S}) /\ Bytes(S) \in Nat
  <1> DEFINE All == {BytesIn(p) : p \in S}
  <1>1. IsFiniteSet(S)
    BY CallsAssumption, FS_Subset
  <1>2. IsFiniteSet(All)
    <2> DEFINE f == [p \in S |-> BytesIn(p)]
    <2>1. f \in Surjection(S, All)
      BY DEF Surjection
    <2>2. QED
      BY <1>1, <2>1, FS_Surjection
  <1>3. \A B \in All : IsFiniteSet(B)
    BY ChargeOf
  <1>4. IsFiniteSet(UNION All)
    BY <1>2, <1>3, FS_UNION
  <1>5. QED
    BY <1>4, FS_CardinalityType DEF Bytes

\* The bytes of two lots of records that share none.
LEMMA BytesAdd ==
    ASSUME NEW S \in SUBSET Calls, NEW T \in SUBSET Calls, S \cap T = {}
    PROVE  Bytes(S \cup T) = Bytes(S) + Bytes(T)
  <1> DEFINE U == UNION {BytesIn(p) : p \in S}
             V == UNION {BytesIn(p) : p \in T}
  <1>1. UNION {BytesIn(p) : p \in S \cup T} = U \cup V
    OBVIOUS
  <1>2. U \cap V = {}
    BY DEF BytesIn
  <1>3. IsFiniteSet(U) /\ IsFiniteSet(V) /\ Cardinality(U) \in Nat /\ Cardinality(V) \in Nat
    BY BytesFinite DEF Bytes
  <1> HIDE DEF U, V
  <1>4. Cardinality(U \cup V) = Cardinality(U) + Cardinality(V) - Cardinality(U \cap V)
    BY <1>3, FS_Union
  <1>5. Cardinality(U \cap V) = 0
    BY <1>2, FS_EmptySet
  <1>6. Cardinality(U \cup V) = Cardinality(U) + Cardinality(V)
    BY <1>3, <1>4, <1>5
  <1>7. QED
    BY <1>1, <1>6 DEF Bytes, U, V

LEMMA BytesOfOne == ASSUME NEW p \in Calls PROVE Bytes({p}) = Charge[p]
  <1>1. UNION {BytesIn(q) : q \in {p}} = BytesIn(p)
    OBVIOUS
  <1>2. QED
    BY <1>1, ChargeOf DEF Bytes

LEMMA BytesOfNone == Bytes({}) = 0
  <1>1. UNION {BytesIn(q) : q \in {}} = {}
    OBVIOUS
  <1>2. QED
    BY <1>1, FS_EmptySet DEF Bytes

\* The writer's records and the queued ones share none.
LEMMA RetainedParts ==
    ASSUME LogTypeOK, InOrder, AcceptedOnce
    PROVE  /\ Retained = ToSet(batch) \cup ToSet(records)
           /\ ToSet(batch) \cap ToSet(records) = {}
           /\ ToSet(batch) \in SUBSET Calls /\ ToSet(records) \in SUBSET Calls
  <1>1. /\ ToSet(batch) = {batch[i] : i \in 1 .. Len(batch)}
        /\ ToSet(records) = {records[i] : i \in 1 .. Len(records)}
        /\ \A i \in 1 .. Len(batch) : batch[i] \in Calls
        /\ \A i \in 1 .. Len(records) : records[i] \in Calls
        /\ Len(batch) \in Nat /\ Len(records) \in Nat /\ Len(accepted) \in Nat
        /\ written \in Nat /\ writeFailed \in Nat /\ abandoned \in Nat
    BY DEF LogTypeOK, ToSet
  <1>2. Len(accepted) = written + writeFailed + abandoned + Len(batch) + Len(records)
    BY DEF InOrder
  <1>3. ToSet(batch) \subseteq Retained
    BY <1>1 DEF InOrder, Retained
  <1>4. ToSet(records) \subseteq Retained
    <2> SUFFICES ASSUME NEW i \in 1 .. Len(records) PROVE records[i] \in Retained
      BY <1>1
    <2>1. records[i] = accepted[written + Len(batch) + i]
      BY DEF InOrder
    <2>2. written + Len(batch) + i \in written + 1 .. written + Len(batch) + Len(records)
      BY <1>1
    <2>3. QED
      BY <2>1, <2>2 DEF Retained
  <1>5. Retained \subseteq ToSet(batch) \cup ToSet(records)
    <2> SUFFICES ASSUME NEW i \in written + 1 .. written + Len(batch) + Len(records)
                 PROVE  accepted[i] \in ToSet(batch) \cup ToSet(records)
      BY DEF Retained
    <2>1. CASE i <= written + Len(batch)
      <3>1. i - written \in 1 .. Len(batch) /\ written + (i - written) = i
        BY <1>1, <2>1
      <3>2. batch[i - written] = accepted[written + (i - written)]
        BY <3>1 DEF InOrder
      <3>3. QED
        BY <1>1, <3>1, <3>2
    <2>2. CASE i > written + Len(batch)
      <3> DEFINE k == i - written - Len(batch)
      <3>1. k \in 1 .. Len(records) /\ written + Len(batch) + k = i
        BY <1>1, <2>2
      <3>2. records[k] = accepted[written + Len(batch) + k]
        BY <3>1 DEF InOrder
      <3>3. QED
        BY <1>1, <3>1, <3>2
    <2>3. QED
      BY <1>1, <2>1, <2>2
  <1>6. ASSUME NEW i \in 1 .. Len(batch), NEW j \in 1 .. Len(records) PROVE batch[i] # records[j]
    <2>1. batch[i] = accepted[written + i] /\ records[j] = accepted[written + Len(batch) + j]
      BY DEF InOrder
    <2>2. /\ written + i \in 1 .. Len(accepted) /\ written + Len(batch) + j \in 1 .. Len(accepted)
          /\ written + i # written + Len(batch) + j
      BY <1>1, <1>2
    <2>3. QED
      BY <2>1, <2>2 DEF AcceptedOnce
  <1>7. QED
    BY <1>1, <1>3, <1>4, <1>5, <1>6

LEMMA RetainedBytes ==
    ASSUME LogTypeOK, InOrder, AcceptedOnce
    PROVE  /\ Bytes(Retained) = BytesOf(batch) + BytesOf(records)
           /\ BytesOf(batch) \in Nat /\ BytesOf(records) \in Nat
           /\ BytesOf(<<>>) = 0
  <1>1. BytesOf(batch) = Bytes(ToSet(batch)) /\ BytesOf(records) = Bytes(ToSet(records))
    BY DEF BytesOf, Bytes
  <1>2. ToSet(<<>>) = {}
    BY DEF ToSet
  <1>3. BytesOf(<<>>) = 0
    BY <1>2, BytesOfNone DEF BytesOf, Bytes
  <1>4. QED
    BY <1>1, <1>3, RetainedParts, BytesAdd, BytesFinite

LEMMA ChargeKept ==
    ASSUME LogTypeOK, InOrder, AcceptedOnce, InHand, ChargeExact, InOrder', [Next]_vars
    PROVE  ChargeExact'
  <1>1. /\ Len(batch) \in Nat /\ Len(records) \in Nat /\ written \in Nat
        /\ outstanding \in Nat /\ outstandingBytes \in Nat /\ QueueCapacity \in Nat /\ ByteCapacity \in Nat
    BY CapacityAssumption DEF LogTypeOK
  <1>2. CASE UNCHANGED <<records, batch, accepted, written, load>>
    BY <1>2 DEF ChargeExact, Retained, load, CountCapacity
  <1>3. ASSUME NEW p \in Calls, Accept(p) PROVE ChargeExact'
    <2>1. /\ Len(accepted') = Len(accepted) + 1 /\ accepted'[Len(accepted) + 1] = p
          /\ \A i \in 1 .. Len(accepted) : accepted'[i] = accepted[i] /\ accepted[i] \in Calls
          /\ Len(records') = Len(records) + 1 /\ Len(accepted) \in Nat
      BY <1>3 DEF Accept, LogTypeOK
    <2>2. UNCHANGED <<batch, written>> /\ Len(accepted) = written + Len(batch) + Len(records)
      BY <1>1, <1>3, <2>1 DEF Accept, delivery, InOrder
    <2>3. p \notin Retained
      BY <1>1, <1>3, <2>1, <2>2 DEF AcceptedOnce, Retained, Accept, Looking
    <2>4. Retained' = Retained \cup {p}
      <3>1. \A i \in written + 1 .. written + Len(batch) + Len(records) : accepted'[i] = accepted[i]
        BY <1>1, <2>1, <2>2
      <3>2. Retained' = {accepted'[i] : i \in written + 1 .. written + Len(batch) + Len(records) + 1}
        <4>1. written' + Len(batch') + Len(records') = written + Len(batch) + Len(records) + 1
          BY <1>1, <2>1, <2>2
        <4>2. QED
          BY <2>2, <4>1 DEF Retained
      <3>3. \A i : i \in written + 1 .. written + Len(batch) + Len(records) + 1
              <=> i \in written + 1 .. written + Len(batch) + Len(records) \/ i = Len(accepted) + 1
        BY <1>1, <2>2
      <3>4. QED
        BY <2>1, <3>1, <3>2, <3>3 DEF Retained
    <2>5. Retained \in SUBSET Calls /\ {p} \in SUBSET Calls
      BY RetainedParts
    <2>6. Bytes(Retained') = Bytes(Retained) + Charge[p]
      BY <2>3, <2>4, <2>5, BytesAdd, BytesOfOne
    <2>7. Charge[p] \in Nat
      BY CallsAssumption
    <2>8. /\ outstanding' = outstanding + 1 /\ outstandingBytes' = outstandingBytes + Charge[p]
          /\ outstanding + 1 <= CountCapacity /\ outstandingBytes + Charge[p] <= ByteCapacity
      BY <1>1, <1>3, <2>7 DEF Accept, CountFull, BytesFull, CountCapacity
    <2>9. QED
      BY <1>1, <2>1, <2>2, <2>6, <2>8 DEF ChargeExact, CountCapacity
  <1>4. CASE Fill
    <2>1. PICK n \in 0 .. Len(records) : Filled(n)
      BY <1>4, FillTakes
    <2>2. Len(batch') + Len(records') = Len(batch) + Len(records)
      BY <1>1, <2>1 DEF Filled
    <2>3. UNCHANGED <<accepted, written, outstanding, outstandingBytes>>
      BY <1>4 DEF Fill, delivery, load
    <2>4. Len(batch') \in Nat /\ Len(records') \in Nat
      BY <2>1 DEF Filled
    <2>5. written' + Len(batch') + Len(records') = written + Len(batch) + Len(records)
      BY <1>1, <2>2, <2>3, <2>4
    <2>6. Retained' = Retained
      BY <2>3, <2>5 DEF Retained
    <2>7. QED
      BY <2>2, <2>3, <2>6 DEF ChargeExact, CountCapacity
  <1>5. CASE Settle
    <2>1. /\ outstanding' = outstanding - Len(batch)
          /\ outstandingBytes' = outstandingBytes - BytesOf(batch)
          /\ batch' = <<>> /\ records' = records /\ accepted' = accepted
          /\ written' = written + Len(batch)
      BY <1>5 DEF Settle
    <2>2. Retained' = ToSet(records)
      <3>1. Retained' = {accepted[i] : i \in written + Len(batch) + 1 .. written + Len(batch) + Len(records)}
        BY <1>1, <2>1 DEF Retained
      <3>2. ToSet(records) = {records[i] : i \in 1 .. Len(records)}
        BY DEF ToSet, LogTypeOK
      <3>3. \A i \in 1 .. Len(records) : records[i] = accepted[written + Len(batch) + i]
        BY DEF InOrder
      <3>4. ASSUME NEW i \in written + Len(batch) + 1 .. written + Len(batch) + Len(records)
            PROVE  accepted[i] \in ToSet(records)
        <4> DEFINE k == i - written - Len(batch)
        <4>1. k \in 1 .. Len(records) /\ written + Len(batch) + k = i
          BY <1>1
        <4>2. QED
          BY <3>2, <3>3, <4>1
      <3>5. ASSUME NEW i \in 1 .. Len(records) PROVE records[i] \in Retained'
        <4>1. written + Len(batch) + i \in written + Len(batch) + 1 .. written + Len(batch) + Len(records)
          BY <1>1
        <4>2. QED
          BY <3>1, <3>3, <4>1
      <3>6. QED
        BY <3>1, <3>2, <3>4, <3>5
    <2>3. Bytes(Retained') = BytesOf(records)
      BY <2>2 DEF BytesOf, Bytes
    <2>4. QED
      BY <1>1, <2>1, <2>3, RetainedBytes DEF ChargeExact, CountCapacity
  <1>6. CASE SettleFailure
    <2>1. /\ outstanding' = outstanding - Len(batch) - Len(records)
          /\ outstandingBytes' = outstandingBytes - BytesOf(batch) - BytesOf(records)
          /\ batch' = <<>> /\ records' = <<>> /\ UNCHANGED written
      BY <1>6 DEF SettleFailure
    <2>2. Retained' = {}
      BY <1>1, <2>1 DEF Retained
    <2>3. Bytes(Retained') = 0
      BY <2>2, BytesOfNone
    <2>4. QED
      BY <1>1, <2>1, <2>3, RetainedBytes DEF ChargeExact, CountCapacity
  <1>7. QED
    BY <1>2, <1>3, <1>4, <1>5, <1>6
       DEF Next, Record, Writer, RejectClosed, RejectSinkFailed, DropBytes, DropCapacity, Block,
           Answer, TakeFirst, Refill, AwaitRecord, BatchWaitOver, Write, WriterEnds, Close,
           Terminated, delivery, vars

\* The types, which need the load: what is settled was charged.
LEMMA LogTypesKept ==
    ASSUME LogInv, [Next]_vars
    PROVE  LogTypeOK'
  <1> USE DEF LogTypeOK, LogInv
  <1>1. ASSUME NEW p \in Calls, Record(p) PROVE LogTypeOK'
    <2>1. CASE Accept(p)
      <3>1. records' \in Seq(Calls) /\ accepted' \in Seq(Calls)
        BY <2>1 DEF Accept
      <3>2. outstanding' \in Nat /\ outstandingBytes' \in Nat
        BY <2>1, CallsAssumption DEF Accept
      <3>3. caller' \in [Calls -> {"new", "waiting", "woken"} \cup Results]
        BY <2>1 DEF Accept, Woken, Results
      <3>4. QED
        BY <2>1, <3>1, <3>2, <3>3 DEF Accept, WokenWriter, delivery
    <2>2. ASSUME NEW result \in {"waiting"} \cup Results, Answer(p, result) PROVE LogTypeOK'
      BY <2>2 DEF Answer, load, delivery
    <2>3. QED
      BY <1>1, <2>1, <2>2
         DEF Record, RejectClosed, RejectSinkFailed, DropBytes, DropCapacity, Block, Results
  <1>2. CASE TakeFirst \/ Refill
    <2>1. PICK n \in 0 .. Len(records) : Filled(n)
      BY <1>2, FillTakes DEF TakeFirst, Refill
    <2>2. /\ records' \in Seq(Calls) /\ batch' \in Seq(Calls)
          /\ Len(batch') \in 0 .. BatchSize
      BY <2>1, CapacityAssumption DEF Filled
    <2>3. Fill
      BY <1>2 DEF TakeFirst, Refill
    <2>4. QED
      BY <2>2, <2>3 DEF Fill, load, delivery
  <1>3. CASE AwaitRecord \/ WriterEnds
    BY <1>3 DEF AwaitRecord, WriterEnds, load, delivery
  <1>4. CASE BatchWaitOver
    BY <1>4, CapacityAssumption DEF BatchWaitOver, load, delivery, InHand
  <1>5. CASE Write
    <2>1. file' \in Seq(Calls)
      <3>1. CASE file' = file \o batch
        BY <3>1
      <3>2. ASSUME NEW n \in 0 .. Len(batch), file' = file \o SubSeq(batch, 1, n)
            PROVE  file' \in Seq(Calls)
        <4>1. SubSeq(batch, 1, n) \in Seq(Calls)
          BY Piece
        <4>2. QED
          BY <3>2, <4>1
      <3>3. QED
        BY <1>5, <3>1, <3>2 DEF Write
    <2>2. QED
      BY <1>5, <2>1 DEF Write, load, delivery
  <1>6. ASSUME Settle \/ SettleFailure PROVE LogTypeOK'
    <2>1. /\ Len(batch) \in Nat /\ Len(records) \in Nat
          /\ outstanding = Len(batch) + Len(records)
          /\ outstandingBytes = BytesOf(batch) + BytesOf(records)
          /\ BytesOf(batch) \in Nat /\ BytesOf(records) \in Nat
      BY RetainedBytes DEF ChargeExact
    <2>2. /\ outstanding - Len(batch) \in Nat
          /\ outstanding - Len(batch) - Len(records) \in Nat
          /\ outstandingBytes - BytesOf(batch) \in Nat
          /\ outstandingBytes - BytesOf(batch) - BytesOf(records) \in Nat
      BY <2>1
    <2>3. outstanding' \in Nat /\ outstandingBytes' \in Nat
      BY <1>6, <2>2 DEF Settle, SettleFailure
    <2>4. written' \in Nat /\ writeFailed' \in Nat /\ abandoned' \in Nat
      <3>1. CASE Settle
        BY <2>1, <3>1 DEF Settle
      <3>2. CASE SettleFailure
        <4>1. /\ writeFailed' = writeFailed + Len(batch) /\ abandoned' = abandoned + Len(records)
              /\ written' = written
          BY <3>2 DEF SettleFailure
        <4>2. written \in Nat /\ writeFailed \in Nat /\ abandoned \in Nat
          OBVIOUS
        <4> HIDE DEF LogTypeOK, LogInv
        <4>3. QED
          BY <2>1, <4>1, <4>2
      <3>3. QED
        BY <1>6, <3>1, <3>2
    <2>5. 0 \in 0 .. BatchSize /\ <<>> \in Seq(Calls)
      BY CapacityAssumption
    <2>6. caller' \in [Calls -> {"new", "waiting", "woken"} \cup Results]
      BY <1>6 DEF Settle, SettleFailure, Woken
    <2>7. QED
      BY <1>6, <2>3, <2>4, <2>5, <2>6 DEF Settle, SettleFailure
  <1>7. CASE Close
    <2>1. caller' \in [Calls -> {"new", "waiting", "woken"} \cup Results]
      BY <1>7 DEF Close, Woken
    <2>2. QED
      BY <1>7, <2>1 DEF Close, WokenWriter, load, delivery
  <1>8. CASE UNCHANGED vars
    BY <1>8 DEF vars, load, delivery
  <1>9. QED
    BY <1>1, <1>2, <1>3, <1>4, <1>5, <1>6, <1>7, <1>8 DEF Next, Writer, Terminated

THEOREM LogInductive == Spec => []LogInv
  <1>1. LogInv /\ [Next]_vars => LogInv'
    <2> SUFFICES ASSUME LogInv, [Next]_vars PROVE LogInv'
      OBVIOUS
    <2>1. LogTypeOK /\ InOrder /\ AcceptedOnce /\ InHand /\ OnFile /\ ChargeExact
      BY DEF LogInv
    <2>2. LogTypeOK'
      BY LogTypesKept
    <2>3. InOrder'
      BY <2>1, OrderKept
    <2>4. AcceptedOnce' /\ InHand' /\ OnFile'
      BY <2>1, OnceKept, InHandKept, OnFileKept
    <2>5. ChargeExact'
      BY <2>1, <2>3, ChargeKept
    <2>6. QED
      BY <2>2, <2>3, <2>4, <2>5 DEF LogInv
  <1>2. QED
    BY LogInit, <1>1, PTL DEF Spec

\* No record is lost, repeated or reordered, and no charge is kept or returned
\* twice, whatever the policy, the sizes of records, queue and batch, the moment
\* the sink fails in the middle of a batch, and that of close()
\* (_accesslog.py:315, :343, :385).
THEOREM RecordsAreAccounted == Spec => []RecordsAccounted
  <1>1. LogInv => RecordsAccounted
    <2> SUFFICES ASSUME LogInv PROVE RecordsAccounted
      OBVIOUS
    <2>1. LogTypeOK /\ InOrder /\ AcceptedOnce /\ InHand /\ OnFile /\ ChargeExact
      BY DEF LogInv
    <2>2. Len(batch) \in Nat /\ Len(records) \in Nat
      BY <2>1 DEF LogTypeOK
    <2>3. LoadExact
      BY <2>1, <2>2, RetainedBytes DEF ChargeExact, LoadExact
    <2>4. Accounted
      BY <2>1, <2>2 DEF InOrder, InHand, Accounted, LogTypeOK
    <2>5. IsPrefix(file, accepted)
      <3>1. file \in Seq(Calls) /\ accepted \in Seq(Calls) /\ Len(file) <= Len(accepted)
        BY <2>1 DEF LogTypeOK, OnFile
      <3>2. SubSeq(file, 1, Len(file)) = SubSeq(accepted, 1, Len(file))
        BY <2>1, <3>1 DEF OnFile
      <3>3. QED
        BY <3>1, <3>2 DEF IsPrefix
    <2>6. FileInOrder
      BY <2>1, <2>5 DEF FileInOrder, OnFile
    <2>7. QED
      BY <2>1, <2>3, <2>4, <2>6 DEF RecordsAccounted
  <1>2. QED
    BY LogInductive, <1>1, PTL
=============================================================================
