----------------------------- MODULE TargetLocks -----------------------------
(***************************************************************************)
(* The registry of per-target write locks (_writecoord.py).                *)
(*                                                                         *)
(* A request that writes borrows an entry for each of its targets, in the  *)
(* sorted order of their canonical keys, waits at most write_lock_timeout  *)
(* for each entry's lock, writes, and unwinds.  Entries are created by the *)
(* first borrower and popped by the last; an entry is named by the request *)
(* that created it, so that two entries of one target are different ones.  *)
(* One guard protects the registry, and each of its critical sections is   *)
(* one step; waiting for an entry's lock happens outside the guard.        *)
(***************************************************************************)
EXTENDS Integers, FiniteSets

CONSTANTS Requests,   \* handler threads that ask for write locks
          Targets,    \* canonical keys
          None

\* sorted() over canonical keys: keys are represented by their rank, and every
\* list of them has a first and a last one.
ASSUME TargetsRanked ==
  /\ Targets \subseteq Int
  /\ \A S \in SUBSET Targets : S /= {} => /\ \E t \in S : \A u \in S : t <= u
                                         /\ \E t \in S : \A u \in S : u <= t
ASSUME NoneIsNoRequest == None \notin Requests
ASSUME RequestsFinite == IsFiniteSet(Requests)

VARIABLES entry,    \* entry[t]: the entry registered for t, or None
          users,    \* users[i][t]: the users count of entry i of target t
          owner,    \* owner[i][t]: the request holding that entry's lock
          at,       \* at[r]: where r is in hold or hold_many
          todo,     \* todo[r]: targets r has still to borrow
          got,      \* got[r][t]: the entry r borrowed for t, or None
          locked    \* locked[r]: targets whose lock r has acquired

lockVars == <<entry, users, owner, at, todo, got, locked>>

Places == {"idle", "borrowing", "waiting", "writing", "refused", "unlocking", "returning"}

\* Every variable keeps its type: in particular no users count goes below zero
\* (_writecoord.py:40).
TypeOK ==
  /\ entry \in [Targets -> Requests \cup {None}]
  /\ users \in [Requests -> [Targets -> Nat]]
  /\ owner \in [Requests -> [Targets -> Requests \cup {None}]]
  /\ at \in [Requests -> Places]
  /\ todo \in [Requests -> SUBSET Targets]
  /\ got \in [Requests -> [Targets -> Requests \cup {None}]]
  /\ locked \in [Requests -> SUBSET Targets]

LockInit ==
  /\ entry = [t \in Targets |-> None]
  /\ users = [i \in Requests |-> [t \in Targets |-> 0]]
  /\ owner = [i \in Requests |-> [t \in Targets |-> None]]
  /\ at = [r \in Requests |-> "idle"]
  /\ todo = [r \in Requests |-> {}]
  /\ got = [r \in Requests |-> [t \in Targets |-> None]]
  /\ locked = [r \in Requests |-> {}]

Borrowed(r) == {t \in Targets : got[r][t] /= None}

\* sorted({key(path) ...}): the next key to take is the least one left, and
\* locks and entries are given back from the last one taken.
Lowest(S)  == CHOOSE t \in S : \A u \in S : t <= u
Highest(S) == CHOOSE t \in S : \A u \in S : u <= t

\* hold(path) is hold_many([path]): the same borrow, wait and unwind.
Ask(r, wanted) ==
  /\ at[r] = "idle"
  /\ wanted /= {}
  /\ at' = [at EXCEPT ![r] = "borrowing"]
  /\ todo' = [todo EXCEPT ![r] = wanted]
  /\ UNCHANGED <<entry, users, owner, got, locked>>

\* The entry a borrower of t gets: the registered one, or a new one of its own.
EntryFor(r, t) == IF entry[t] = None THEN r ELSE entry[t]

\* Mutant: the targets are taken in the order they were named.
BorrowUnsorted(r) ==
  /\ at[r] = "borrowing"
  /\ \E t \in todo[r] :
        LET i == EntryFor(r, t)
        IN /\ entry' = [entry EXCEPT ![t] = i]
           /\ users' = [users EXCEPT ![i][t] = @ + 1]
           /\ got' = [got EXCEPT ![r][t] = i]
           /\ todo' = [todo EXCEPT ![r] = @ \ {t}]
  /\ at' = [at EXCEPT ![r] = "waiting"]
  /\ UNCHANGED <<owner, locked>>

Borrow(r) ==
  /\ at[r] = "borrowing"
  /\ LET t == Lowest(todo[r])
         i == EntryFor(r, t)
     IN /\ entry' = [entry EXCEPT ![t] = i]
        /\ users' = [users EXCEPT ![i][t] = IF entry[t] = None THEN 1 ELSE @ + 1]
        /\ owner' = [owner EXCEPT ![i][t] = IF entry[t] = None THEN None ELSE @]
        /\ got' = [got EXCEPT ![r][t] = i]
        /\ todo' = [todo EXCEPT ![r] = @ \ {t}]
  /\ at' = [at EXCEPT ![r] = "waiting"]
  /\ UNCHANGED locked

\* The target whose lock r waits for: borrowed and not locked yet.
WaitsFor(r) == CHOOSE t \in Targets : t \in Borrowed(r) \ locked[r]

Acquire(r) ==
  /\ at[r] = "waiting"
  /\ LET t == WaitsFor(r)
         i == got[r][t]
     IN /\ owner[i][t] = None
        /\ owner' = [owner EXCEPT ![i][t] = r]
        /\ locked' = [locked EXCEPT ![r] = @ \cup {t}]
  /\ at' = [at EXCEPT ![r] = IF todo[r] = {} THEN "writing" ELSE "borrowing"]
  /\ UNCHANGED <<entry, users, todo, got>>

\* lock.acquire(timeout=...) may give up whenever it has to wait; a timeout
\* of zero gives up at once.  The caller is told, and unwinds.
GiveUp(r) ==
  /\ at[r] = "waiting"
  /\ owner[got[r][WaitsFor(r)]][WaitsFor(r)] /= None
  /\ at' = [at EXCEPT ![r] = "refused"]
  /\ UNCHANGED <<entry, users, owner, todo, got, locked>>

\* The body of the with statement ends, by a return or by an exception.
Leave(r) ==
  /\ at[r] \in {"writing", "refused"}
  /\ at' = [at EXCEPT ![r] = IF locked[r] = {} THEN "returning" ELSE "unlocking"]
  /\ todo' = [todo EXCEPT ![r] = {}]
  /\ UNCHANGED <<entry, users, owner, got, locked>>

Unlock(r) ==
  /\ at[r] = "unlocking"
  /\ LET t == Highest(locked[r])
     IN /\ owner' = [owner EXCEPT ![got[r][t]][t] = None]
        /\ locked' = [locked EXCEPT ![r] = @ \ {t}]
        /\ at' = [at EXCEPT ![r] = IF locked[r] = {t} THEN "returning" ELSE "unlocking"]
  /\ UNCHANGED <<entry, users, todo, got>>

\* Mutant: the entry is popped by whoever returns it first.
ReturnPops(r) ==
  /\ at[r] = "returning"
  /\ LET t == Highest(Borrowed(r))
         i == got[r][t]
     IN /\ users' = [users EXCEPT ![i][t] = @ - 1]
        /\ entry' = [entry EXCEPT ![t] = None]
        /\ got' = [got EXCEPT ![r][t] = None]
        /\ at' = [at EXCEPT ![r] = IF Borrowed(r) = {t} THEN "idle" ELSE "returning"]
  /\ UNCHANGED <<owner, todo, locked>>

Return(r) ==
  /\ at[r] = "returning"
  /\ LET t == Highest(Borrowed(r))
         i == got[r][t]
     IN /\ users' = [users EXCEPT ![i][t] = @ - 1]
        /\ entry' = [entry EXCEPT ![t] = IF users[i][t] = 1 THEN None ELSE @]
        /\ got' = [got EXCEPT ![r][t] = None]
        /\ at' = [at EXCEPT ![r] = IF Borrowed(r) = {t} THEN "idle" ELSE "returning"]
  /\ UNCHANGED <<owner, todo, locked>>

\* A request that wants targets asks for them; its steps are then its own.
Step(r) == Borrow(r) \/ Acquire(r) \/ GiveUp(r) \/ Leave(r) \/ Unlock(r) \/ Return(r)

LockNext == \E r \in Requests : Step(r) \/ \E wanted \in SUBSET Targets : Ask(r, wanted)

LockSpec == LockInit /\ [][LockNext]_lockVars

-----------------------------------------------------------------------------
(* Properties                                                              *)

\* The registry keeps the promise of WriteLocks, whatever entries come and go
\* while requests wait for them (_writecoord.py:28-77): in particular no two
\* requests ever hold one target through two different entries.
Locks == INSTANCE WriteLocks WITH held <- locked

ImplementsWriteLocks == Locks!HoldSpec

\* "A leak-free registry" (_writecoord.py:18): an entry is registered for a
\* target exactly while some request has it borrowed, it is the one they all
\* borrowed, and it counts them.
RegistryLeakFree ==
  \A t \in Targets :
     LET borrowers == {r \in Requests : got[r][t] /= None}
     IN  /\ entry[t] = None <=> borrowers = {}
         /\ \A r \in borrowers : got[r][t] = entry[t]
         /\ entry[t] /= None => users[entry[t]][t] = Cardinality(borrowers)

\* Requests that write several targets never wait for each other in a ring,
\* in whatever order they named them: "stable order, avoiding lock-order
\* deadlocks" (_writecoord.py:57).  Without it each COPY or MOVE of the ring
\* would be refused after its timeout, and hang for ever without one.
NoRing ==
  \A S \in (SUBSET Requests) \ {{}} :
     \E r \in S : \/ at[r] /= "waiting"
                  \/ owner[got[r][WaitsFor(r)]][WaitsFor(r)] \notin S

\* The registry of reference-counted entries never leaks, never splits a
\* target's lock in two and never lets a ring form (_writecoord.py:28-77).
RegistrySound == TypeOK /\ RegistryLeakFree /\ NoRing

=============================================================================
