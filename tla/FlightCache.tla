------------------------------ MODULE FlightCache ------------------------------
(***************************************************************************)
(* get_or_compute of DigestCache (_digest.py) and of CompressionCache      *)
(* (_compress.py): an LRU of bounded size, and one flight for all threads  *)
(* that miss the same key at the same time.  The two classes differ in     *)
(* what they count: entries (SizeOf is 1 for all keys) or octets.          *)
(***************************************************************************)
EXTENDS Integers, Sequences, FiniteSets, SequencesExt

CONSTANTS
  Callers,   \* the threads that call
  Keys,      \* file identities with a coding or an algorithm
  SizeOf,    \* what a value counts
  MaxSize    \* max_entries or max_bytes; 0 retains nothing

ASSUME CacheAssumption ==
  /\ Callers # {} /\ IsFiniteSet(Callers)
  /\ SizeOf \in [Keys -> Nat \ {0}] /\ MaxSize \in Nat

VARIABLES
  items,     \* the keys that are retained, the oldest first
  size,      \* what they count together
  flights,   \* the flight of a key, or NoFlight
  flight,    \* the flights: references and outcome
  call       \* what each thread does: at, key, flight, outcome

cacheVars == <<items, size, flights, flight, call>>

NoFlight == 0
Flights == 1..Cardinality(Callers)
NoKey == "none"
Idle == [at |-> "idle", key |-> NoKey, flight |-> NoFlight, outcome |-> "none"]
NewFlight == [references |-> 0, outcome |-> "none"]

CacheInit ==
  /\ items = <<>> /\ size = 0
  /\ flights = [k \in Keys |-> NoFlight] /\ flight = [f \in Flights |-> NewFlight]
  /\ call = [c \in Callers |-> Idle]

-----------------------------------------------------------------------------
(* The LRU                                                                 *)

Retained(k) == MaxSize > 0 /\ k \in ToSet(items)
Without(k) ==
  IF k \in ToSet(items) THEN RemoveAt(items, CHOOSE i \in DOMAIN items : items[i] = k) ELSE items
Touched(k) == Append(Without(k), k)

\* What the keys of a sequence count together; no key is in it twice.
UnitsOf(k) == {k} \X (1..SizeOf[k])
Counted(s) == Cardinality(UNION {UnitsOf(k) : k \in ToSet(s)})

\* The oldest go until the rest fits.
Evicted(s) ==
  LET fitting == {i \in 0..Len(s) : Counted(SubSeq(s, i + 1, Len(s))) <= MaxSize}
      gone == CHOOSE i \in fitting : \A j \in fitting : i <= j
  IN SubSeq(s, gone + 1, Len(s))

-----------------------------------------------------------------------------
(* The steps of a call                                                     *)

At(c, where) == call[c].at = where
Move(c, where) == call' = [call EXCEPT ![c].at = where]
Return(c, outcome) == call' = [call EXCEPT ![c].at = "returned", ![c].outcome = outcome]
Idles(c) == call' = [call EXCEPT ![c] = Idle]

Call(c, k) ==
  /\ At(c, "idle")
  /\ call' = [call EXCEPT ![c].at = "look", ![c].key = k]
  /\ UNCHANGED <<items, size, flights, flight>>

\* get: under the lock, and the lock is free again when it returns.
Look(c) ==
  /\ At(c, "look")
  /\ IF Retained(call[c].key) THEN items' = Touched(call[c].key) /\ Return(c, "value")
     ELSE Move(c, "join") /\ UNCHANGED items
  /\ UNCHANGED <<size, flights, flight>>

\* Who finds no flight owns a new one.
Join(c) ==
  LET k == call[c].key
      owner == flights[k] = NoFlight
      f == IF owner THEN CHOOSE g \in Flights : flight[g].references = 0 ELSE flights[k]
  IN /\ At(c, "join")
     /\ flights' = [flights EXCEPT ![k] = f]
     /\ flight' = [flight EXCEPT ![f].references = @ + 1]
     /\ call' = [call EXCEPT ![c].at = IF owner THEN "recheck" ELSE "wait", ![c].flight = f]
     /\ UNCHANGED <<items, size>>

\* Between the first look and the flight another owner may have finished.
Recheck(c) ==
  /\ At(c, "recheck")
  /\ IF Retained(call[c].key) THEN items' = Touched(call[c].key) /\ Move(c, "publish")
     ELSE Move(c, "compute") /\ UNCHANGED items
  /\ UNCHANGED <<size, flights, flight>>

Leaves(c, outcome) == call' = [call EXCEPT ![c].at = "leave", ![c].outcome = outcome]

\* Mutant: an owner that fails tells nobody.
ComputeFailsAlone(c) ==
  /\ At(c, "compute") /\ Leaves(c, "error")
  /\ UNCHANGED <<items, size, flights, flight>>

Compute(c) ==
  /\ At(c, "compute") /\ Move(c, "put")
  /\ UNCHANGED <<items, size, flights, flight>>
ComputeFails(c) ==
  /\ At(c, "compute") /\ Leaves(c, "error")
  /\ flight' = [flight EXCEPT ![call[c].flight].outcome = "error"]
  /\ UNCHANGED <<items, size, flights>>

Put(c) ==
  LET k == call[c].key
  IN /\ At(c, "put") /\ Move(c, "publish")
     /\ items' = IF SizeOf[k] > MaxSize THEN items ELSE Evicted(Touched(k))
     /\ size' = Counted(items')
     /\ UNCHANGED <<flights, flight>>

Publish(c) ==
  /\ At(c, "publish") /\ Leaves(c, "value")
  /\ flight' = [flight EXCEPT ![call[c].flight].outcome = "value"]
  /\ UNCHANGED <<items, size, flights>>

\* A flight that has ended already answers at once, with its error too.
Await(c) ==
  /\ At(c, "wait") /\ flight[call[c].flight].outcome # "none"
  /\ Leaves(c, flight[call[c].flight].outcome)
  /\ UNCHANGED <<items, size, flights, flight>>

\* Mutant: the owner takes its flight away when it is done.
LeaveFirst(c) ==
  /\ At(c, "leave")
  /\ flight' = [flight EXCEPT ![call[c].flight].references = @ - 1]
  /\ flights' = [flights EXCEPT ![call[c].key] = NoFlight]
  /\ call' = [call EXCEPT ![c].at = "returned", ![c].flight = NoFlight]
  /\ UNCHANGED <<items, size>>

\* The last one to leave takes the flight away.
Leave(c) ==
  LET f == call[c].flight
      left == flight[f].references - 1
  IN /\ At(c, "leave")
     /\ flight' = [flight EXCEPT ![f] = IF left = 0 THEN NewFlight ELSE [@ EXCEPT !.references = left]]
     /\ flights' = [flights EXCEPT ![call[c].key] = IF left = 0 THEN NoFlight ELSE @]
     /\ call' = [call EXCEPT ![c].at = "returned", ![c].flight = NoFlight]
     /\ UNCHANGED <<items, size>>

Runs(c) ==
  \/ Look(c) \/ Join(c) \/ Recheck(c) \/ Compute(c) \/ ComputeFails(c)
  \/ Put(c) \/ Publish(c) \/ Await(c) \/ Leave(c)

-----------------------------------------------------------------------------
(* Properties                                                              *)

CacheTypeOK ==
  /\ ToSet(items) \subseteq Keys /\ size \in 0..MaxSize
  /\ flights \in [Keys -> Flights \union {NoFlight}]
  /\ flight \in [Flights -> [references : Nat, outcome : {"none", "value", "error"}]]
  /\ call \in [Callers ->
       [at : {"idle", "look", "join", "recheck", "compute", "put", "publish", "wait", "leave", "returned"},
        key : Keys \union {NoKey}, flight : Flights \union {NoFlight},
        outcome : {"none", "value", "error"}]]

Aboard(f) == {c \in Callers : call[c].flight = f}
Computing(k) == {c \in Callers : call[c].key = k /\ call[c].at \in {"compute", "put", "publish"}}

(* Whatever the threads that share a key do, it is computed by one of them *)
(* at a time, its flight is in the table exactly as long as someone is     *)
(* aboard, everybody aboard gets what its owner got, and what is retained  *)
(* is counted and within the bound (_digest.py:90, _compress.py:96).       *)
CacheExact ==
  /\ CacheTypeOK
  /\ size = Counted(items) /\ IsInjective(items)
  /\ \A k \in Keys : Cardinality(Computing(k)) <= 1
  /\ \A k \in Keys : flights[k] # NoFlight =>
       flight[flights[k]].references = Cardinality(Aboard(flights[k])) /\ Aboard(flights[k]) # {}
  /\ \A c \in Callers : call[c].flight # NoFlight => flights[call[c].key] = call[c].flight
  /\ \A c, d \in Callers :
       (At(c, "leave") /\ At(d, "leave") /\ call[c].flight = call[d].flight) => call[c].outcome = call[d].outcome
=============================================================================
