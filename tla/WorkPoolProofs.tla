--------------------------- MODULE WorkPoolProofs ---------------------------
(***************************************************************************)
(* Theorems about WorkPool, for every set of calls, every capacity and     *)
(* every weight.  The invariant Coherent says how the Future, callback,    *)
(* queue entry and coroutine of a call stand to its submitter; with it the *)
(* conservation of permits and of bytes is inductive, and so is Counted,   *)
(* which says of every counter which calls it has counted.                 *)
(***************************************************************************)
EXTENDS WorkPool, FiniteSetTheorems, TLAPS

InQueue(j) == \E i \in DOMAIN queue : queue[i] = j

Submitted == {"scheduled", "tracked", "returned"}
Raised == {"uncharge", "unwind", "error"}

JobCoherent(j) ==
    /\ cb[j] # "none" => pc[j] \in {"tracked", "returned"}
    /\ pc[j] = "returned" => cb[j] # "none"
    /\ pc[j] \in Submitted => fut[j] # "none"
    /\ fut[j] # "none" => pc[j] \in Submitted \cup Raised
    /\ cb[j] \in {"settle", "release", "done"} => fut[j] \in {"cancelled", "finished"}
    /\ InQueue(j) => fut[j] \in {"pending", "cancelled"}
    /\ waiter[j] # "none" => pc[j] = "returned"
    /\ dispose[j] # "none" => waiter[j] = "cancelled" /\ fut[j] \in {"running", "finished"}
    /\ fut[j] = "finished" <=> outcome[j] # "none"
    /\ dispose[j] = "disposed" => fut[j] = "finished" /\ outcome[j] = "succeeded"

NoDuplicates == \A i, k \in DOMAIN queue : queue[i] = queue[k] => i = k

Coherent == NoDuplicates /\ \A j \in Jobs : JobCoherent(j)

IInv == TypeOK /\ Coherent /\ PermitsConserved /\ BytesConserved /\ Counted

-----------------------------------------------------------------------------
(* Type correctness.                                                       *)

\* The head and tail of the work queue are calls.
LEMMA QueueHead ==
    ASSUME queue \in Seq(Jobs), queue # <<>>
    PROVE  Head(queue) \in Jobs /\ Tail(queue) \in Seq(Jobs)
  OBVIOUS

LEMMA InitTypeOK == Init => TypeOK
  <1> SUFFICES ASSUME Init PROVE TypeOK
    OBVIOUS
  <1>1. queue \in Seq(Jobs)
    BY DEF Init
  <1>2. threads \in 0 .. Workers /\ permits \in Nat /\ bytes \in Int
    BY CapacityAssumption DEF Init, Capacity
  <1>3. tally \in [Counters -> Nat]
    BY DEF Init
  <1>4. QED
    BY <1>1, <1>2, <1>3 DEF Init, TypeOK, PCs

LEMMA TypeStep == TypeOK /\ [Next]_vars => TypeOK'
  <1> SUFFICES ASSUME TypeOK, [Next]_vars PROVE TypeOK'
    OBVIOUS
  <1> USE CapacityAssumption, WeightAssumption DEF TypeOK, Goto, Bump, Fire, PCs, Counters,
            jobVars, asyncVars, execVars, poolVars, closeVars, Capacity
  <1>1. ASSUME NEW j \in Jobs, Submitter(j) PROVE TypeOK'
    <2>1. CASE CheckOpen(j)
      BY <2>1 DEF CheckOpen
    <2>2. CASE AcquirePermit(j)
      BY <2>2 DEF AcquirePermit
    <2>3. CASE RejectSaturated(j)
      BY <2>3 DEF RejectSaturated
    <2>4. CASE RefuseClosed(j)
      BY <2>4 DEF RefuseClosed
    <2>5. CASE RejectOverBudget(j)
      BY <2>5 DEF RejectOverBudget
    <2>6. CASE Charge(j)
      BY <2>6 DEF Charge
    <2>7. CASE Schedule(j)
      BY <2>7 DEF Schedule
    <2>8. CASE ScheduleFails(j)
      BY <2>8 DEF ScheduleFails
    <2>9. CASE ScheduleRefused(j)
      BY <2>9 DEF ScheduleRefused
    <2>10. CASE Uncharge(j)
      BY <2>10 DEF Uncharge
    <2>11. CASE Unwind(j)
      BY <2>11 DEF Unwind
    <2>12. CASE Track(j)
      BY <2>12 DEF Track
    <2>13. CASE Register(j)
      BY <2>13 DEF Register
    <2>14. CASE RunInline(j)
      BY <2>14 DEF RunInline
    <2>15. CASE ReturnInline(j)
      BY <2>15 DEF ReturnInline
    <2>16. QED
      BY <1>1, <2>1, <2>2, <2>3, <2>4, <2>5, <2>6, <2>7, <2>8, <2>9, <2>10, <2>11,
         <2>12, <2>13, <2>14, <2>15 DEF Submitter
  <1>2. ASSUME NEW j \in Jobs, Callback(j) PROVE TypeOK'
    <2>1. CASE Settle(j)
      <3>1. tally' \in [Counters -> Nat]
        BY <2>1 DEF Settle
      <3>2. futures' \in SUBSET Jobs /\ bytes' \in Int
        BY <2>1 DEF Settle
      <3>3. QED
        BY <2>1, <3>1, <3>2 DEF Settle
    <2>2. CASE ReleasePermit(j)
      BY <2>2 DEF ReleasePermit
    <2>3. QED
      BY <1>2, <2>1, <2>2 DEF Callback
  <1>3. ASSUME NEW j \in Jobs, Finish(j) PROVE TypeOK'
    BY <1>3 DEF Finish
  <1>4. ASSUME NEW j \in Jobs, Coroutine(j) PROVE TypeOK'
    BY <1>4 DEF Coroutine, Resume, CancelQueuedCall, DetachRunningCall
  <1>5. ASSUME NEW j \in Jobs, Dispose(j) PROVE TypeOK'
    BY <1>5 DEF Dispose
  <1>6. CASE Worker
    <2>1. CASE DropCancelled
      BY <2>1, QueueHead DEF DropCancelled
    <2>2. CASE Start
      BY <2>2, QueueHead DEF Start
    <2>3. QED
      BY <1>6, <2>1, <2>2 DEF Worker
  <1>7. CASE Closer
    <2>1. CASE CloseAdmission
      BY <2>1 DEF CloseAdmission
    <2>2. CASE ShutdownExecutor
      BY <2>2 DEF ShutdownExecutor
    <2>3. CASE DrainOne
      BY <2>3, QueueHead DEF DrainOne
    <2>4. CASE DrainDone
      BY <2>4 DEF DrainDone
    <2>5. CASE Join
      BY <2>5 DEF Join
    <2>6. QED
      BY <1>7, <2>1, <2>2, <2>3, <2>4, <2>5 DEF Closer
  <1>8. CASE UNCHANGED vars
    BY <1>8 DEF vars
  <1>9. QED
    BY <1>1, <1>2, <1>3, <1>4, <1>5, <1>6, <1>7, <1>8 DEF Next, Terminated

\* Every variable keeps its type.
THEOREM TypeCorrect == Spec => []TypeOK
  BY InitTypeOK, TypeStep, PTL DEF Spec

-----------------------------------------------------------------------------
(* Coherence.                                                              *)

\* Queueing a call that is not queued.
LEMMA QueueAppend ==
    ASSUME TypeOK, NoDuplicates, NEW j \in Jobs, ~InQueue(j), queue' = Append(queue, j)
    PROVE  NoDuplicates' /\ \A k \in Jobs : InQueue(k)' => InQueue(k) \/ k = j
  <1> USE DEF TypeOK, NoDuplicates, InQueue
  <1>1. /\ DOMAIN queue = 1 .. Len(queue)
        /\ DOMAIN queue' = 1 .. Len(queue) + 1
        /\ Len(queue) \in Nat
        /\ queue'[Len(queue) + 1] = j
        /\ \A i \in 1 .. Len(queue) : queue'[i] = queue[i]
    OBVIOUS
  <1>2. NoDuplicates'
    BY <1>1
  <1>3. ASSUME NEW k \in Jobs PROVE InQueue(k)' => InQueue(k) \/ k = j
    <2>1. SUFFICES ASSUME NEW i \in 1 .. Len(queue) + 1, queue'[i] = k
                   PROVE  InQueue(k) \/ k = j
      BY <1>1
    <2>2. CASE i = Len(queue) + 1
      BY <1>1, <2>1, <2>2
    <2>3. CASE i \in 1 .. Len(queue)
      BY <1>1, <2>1, <2>3
    <2>4. QED
      BY <1>1, <2>2, <2>3
  <1>4. QED
    BY <1>2, <1>3

\* Taking the head of the queue.
LEMMA QueueTail ==
    ASSUME TypeOK, NoDuplicates, queue # <<>>, queue' = Tail(queue)
    PROVE  /\ NoDuplicates'
           /\ InQueue(Head(queue))
           /\ \A k \in Jobs : InQueue(k)' => InQueue(k) /\ k # Head(queue)
  <1> USE DEF TypeOK, NoDuplicates, InQueue
  <1>1. /\ DOMAIN queue = 1 .. Len(queue)
        /\ DOMAIN queue' = 1 .. Len(queue) - 1
        /\ Len(queue) \in Nat \ {0}
        /\ queue[1] = Head(queue)
        /\ \A i \in 1 .. Len(queue) - 1 : queue'[i] = queue[i + 1]
    OBVIOUS
  <1>2. NoDuplicates'
    BY <1>1
  <1>3. ASSUME NEW k \in Jobs, InQueue(k)' PROVE InQueue(k) /\ k # Head(queue)
    <2>1. PICK i \in 1 .. Len(queue) - 1 : queue[i + 1] = k
      BY <1>1, <1>3
    <2>2. i + 1 \in DOMAIN queue /\ i + 1 # 1 /\ 1 \in DOMAIN queue
      BY <1>1
    <2>3. QED
      BY <1>1, <2>1, <2>2
  <1>4. QED
    BY <1>1, <1>2, <1>3

LEMMA InitCoherent == Init => Coherent
  BY DEF Init, Coherent, NoDuplicates, JobCoherent, InQueue, Submitted, Raised

\* An unchanged queue stays free of duplicates and holds the same calls.
LEMMA QueueSame ==
    ASSUME UNCHANGED queue
    PROVE  (NoDuplicates' <=> NoDuplicates) /\ \A k \in Jobs : InQueue(k)' <=> InQueue(k)
  BY DEF NoDuplicates, InQueue

LEMMA CoherentStep == TypeOK /\ Coherent /\ [Next]_vars => Coherent'
  <1> SUFFICES ASSUME TypeOK, Coherent, [Next]_vars PROVE Coherent'
    OBVIOUS
  <1>0. TypeOK'
    BY TypeStep
  <1> USE DEF Coherent, JobCoherent, Submitted, Raised, Goto, Fire,
              jobVars, asyncVars, execVars, poolVars, closeVars
  <1>1. ASSUME NEW j \in Jobs, Submitter(j) PROVE Coherent'
    <2>1. CASE Schedule(j) \/ ScheduleFails(j)
      <3>1. ~InQueue(j)
        BY <2>1 DEF Schedule, ScheduleFails
      <3>2. NoDuplicates' /\ \A k \in Jobs : InQueue(k)' => InQueue(k) \/ k = j
        BY <2>1, <3>1, QueueAppend DEF Schedule, ScheduleFails
      <3>3. QED
        BY <2>1, <3>2 DEF Schedule, ScheduleFails, TypeOK
    <2>2. CASE ~(Schedule(j) \/ ScheduleFails(j))
      <3>1. UNCHANGED queue
        BY <1>1, <2>2 DEF Submitter, CheckOpen, AcquirePermit, RejectSaturated, RefuseClosed,
             RejectOverBudget, Charge, ScheduleRefused, Uncharge, Unwind, Track, Register,
             RunInline, ReturnInline
      <3>2. NoDuplicates' /\ \A k \in Jobs : InQueue(k)' <=> InQueue(k)
        BY <3>1, QueueSame
      <3>3. CASE CheckOpen(j) \/ AcquirePermit(j) \/ RejectSaturated(j) \/ RefuseClosed(j)
                   \/ RejectOverBudget(j) \/ Charge(j)
        BY <3>2, <3>3 DEF CheckOpen, AcquirePermit, RejectSaturated, RefuseClosed,
             RejectOverBudget, Charge, TypeOK
      <3>4. CASE ScheduleRefused(j) \/ Uncharge(j) \/ Unwind(j) \/ Track(j)
        BY <3>2, <3>4 DEF ScheduleRefused, Uncharge, Unwind, Track, TypeOK
      <3>5. CASE Register(j) \/ RunInline(j) \/ ReturnInline(j)
        BY <3>2, <3>5 DEF Register, RunInline, ReturnInline, TypeOK
      <3>6. QED
        BY <1>1, <2>2, <3>3, <3>4, <3>5 DEF Submitter
    <2>3. QED
      BY <2>1, <2>2
  <1>2. ASSUME NEW j \in Jobs, Callback(j) PROVE Coherent'
    BY <1>2, QueueSame DEF Callback, Settle, ReleasePermit, TypeOK
  <1>3. ASSUME NEW j \in Jobs, Finish(j) PROVE Coherent'
    BY <1>3, QueueSame DEF Finish, TypeOK
  <1>4. ASSUME NEW j \in Jobs, Coroutine(j) PROVE Coherent'
    BY <1>4, QueueSame DEF Coroutine, Resume, CancelQueuedCall, DetachRunningCall, TypeOK
  <1>5. ASSUME NEW j \in Jobs, Dispose(j) PROVE Coherent'
    BY <1>5, QueueSame DEF Dispose, TypeOK
  <1>6. ASSUME DropCancelled \/ Start \/ DrainOne PROVE Coherent'
    <2>1. /\ NoDuplicates'
          /\ InQueue(Head(queue))
          /\ \A k \in Jobs : InQueue(k)' => InQueue(k) /\ k # Head(queue)
      BY <1>6, QueueTail DEF DropCancelled, Start, DrainOne
    <2>2. Head(queue) \in Jobs
      BY <1>6, QueueHead DEF DropCancelled, Start, DrainOne, TypeOK
    <2>3. QED
      BY <1>6, <2>1, <2>2 DEF DropCancelled, Start, DrainOne, TypeOK
  <1>7. ASSUME Closer, ~DrainOne PROVE Coherent'
    BY <1>7, QueueSame DEF Closer, CloseAdmission, ShutdownExecutor, DrainDone, Join
  <1>8. CASE UNCHANGED vars
    BY <1>8, QueueSame DEF vars
  <1>9. QED
    BY <1>1, <1>2, <1>3, <1>4, <1>5, <1>6, <1>7, <1>8 DEF Next, Worker, Terminated, Closer

-----------------------------------------------------------------------------
(* Permits.                                                                *)

\* What a step does to the set of holders: the steps that take or give back a
\* permit move one call in or out of it, every other step leaves it alone.
Takes(j) == /\ j \in Jobs /\ j \notin Holders
            /\ Holders' = Holders \cup {j}
            /\ permits > 0 /\ permits' = permits - 1
Gives(j) == /\ j \in Holders
            /\ Holders' = Holders \ {j}
            /\ permits' = permits + 1
Keeps == Holders' = Holders /\ permits' = permits

LEMMA HoldersFinite == IsFiniteSet(Holders) /\ Cardinality(Holders) \in Nat
  BY JobsAssumption, FS_Subset, FS_CardinalityType DEF Holders

LEMMA TakesStep ==
    ASSUME TypeOK, Coherent, NEW j \in Jobs, AcquirePermit(j)
    PROVE  Takes(j)
  BY DEF TypeOK, Coherent, JobCoherent, AcquirePermit, Goto, Takes, Holders, HoldsPermit

LEMMA GivesStep ==
    ASSUME TypeOK, Coherent, NEW j \in Jobs,
           RefuseClosed(j) \/ RejectOverBudget(j) \/ Unwind(j) \/ ReleasePermit(j)
    PROVE  Gives(j)
  BY DEF TypeOK, Coherent, JobCoherent, RefuseClosed, RejectOverBudget, Unwind, ReleasePermit,
         Goto, Gives, Holders, HoldsPermit

\* The steps that leave every permit where it is.
Neutral ==
    \/ \E j \in Jobs :
          \/ CheckOpen(j) \/ RejectSaturated(j) \/ Charge(j) \/ Schedule(j) \/ ScheduleFails(j)
          \/ ScheduleRefused(j) \/ Uncharge(j) \/ Track(j) \/ Register(j) \/ RunInline(j)
          \/ ReturnInline(j) \/ Settle(j) \/ Finish(j) \/ Coroutine(j) \/ Dispose(j)
    \/ Worker \/ Closer \/ UNCHANGED vars

LEMMA KeepsStep == TypeOK /\ Coherent /\ Neutral => Keeps
  <1> SUFFICES ASSUME TypeOK, Coherent, Neutral PROVE Keeps
    OBVIOUS
  <1> USE DEF TypeOK, Coherent, JobCoherent, Goto, Fire, Keeps, Holders, HoldsPermit,
              Submitted, Raised, jobVars, asyncVars, execVars, poolVars, closeVars
  <1>1. ASSUME NEW j \in Jobs,
               CheckOpen(j) \/ RejectSaturated(j) \/ Charge(j) \/ Schedule(j) \/ ScheduleFails(j)
        PROVE  Keeps
    BY <1>1 DEF CheckOpen, RejectSaturated, Charge, Schedule, ScheduleFails
  <1>2. ASSUME NEW j \in Jobs,
               ScheduleRefused(j) \/ Uncharge(j) \/ Track(j) \/ Register(j) \/ RunInline(j)
        PROVE  Keeps
    BY <1>2 DEF ScheduleRefused, Uncharge, Track, Register, RunInline
  <1>3. ASSUME NEW j \in Jobs, ReturnInline(j) PROVE Keeps
    BY <1>3 DEF ReturnInline
  <1>4. ASSUME NEW j \in Jobs, Settle(j) \/ Finish(j) PROVE Keeps
    BY <1>4 DEF Settle, Finish
  <1>5. ASSUME NEW j \in Jobs, Coroutine(j) \/ Dispose(j) PROVE Keeps
    BY <1>5 DEF Coroutine, Resume, CancelQueuedCall, DetachRunningCall, Dispose
  <1>6. CASE Worker \/ Closer
    <2>1. (DropCancelled \/ Start \/ DrainOne) => Head(queue) \in Jobs
      BY QueueHead DEF DropCancelled, Start, DrainOne
    <2>2. QED
      BY <1>6, <2>1 DEF Worker, DropCancelled, Start, Closer, CloseAdmission, ShutdownExecutor,
           DrainOne, DrainDone, Join
  <1>7. CASE UNCHANGED vars
    BY <1>7 DEF vars
  <1>8. QED
    BY <1>1, <1>2, <1>3, <1>4, <1>5, <1>6, <1>7 DEF Neutral

LEMMA NextCases ==
    ASSUME [Next]_vars
    PROVE  \/ Neutral
           \/ \E j \in Jobs : \/ AcquirePermit(j)
                              \/ RefuseClosed(j) \/ RejectOverBudget(j)
                              \/ Unwind(j) \/ ReleasePermit(j)
  BY DEF Next, Submitter, Callback, Neutral, Terminated

LEMMA PermitStep == TypeOK /\ Coherent /\ PermitsConserved /\ [Next]_vars => PermitsConserved'
  <1> SUFFICES ASSUME TypeOK, Coherent, PermitsConserved, [Next]_vars PROVE PermitsConserved'
    OBVIOUS
  <1>1. Cardinality(Holders) \in Nat /\ IsFiniteSet(Holders) /\ Capacity \in Nat
    BY HoldersFinite, CapacityAssumption DEF Capacity
  <1>2. CASE Neutral
    BY <1>2, KeepsStep DEF Keeps, PermitsConserved
  <1>3. ASSUME NEW j \in Jobs, AcquirePermit(j) PROVE PermitsConserved'
    <2>1. Takes(j)
      BY <1>3, TakesStep
    <2>2. Cardinality(Holders \cup {j}) = Cardinality(Holders) + 1
      BY <1>1, <2>1, FS_AddElement DEF Takes
    <2>3. QED
      BY <1>1, <2>1, <2>2 DEF Takes, PermitsConserved
  <1>4. ASSUME NEW j \in Jobs,
               RefuseClosed(j) \/ RejectOverBudget(j) \/ Unwind(j) \/ ReleasePermit(j)
        PROVE  PermitsConserved'
    <2>1. Gives(j)
      BY <1>4, GivesStep
    <2>2. Cardinality(Holders \ {j}) = Cardinality(Holders) - 1
      BY <1>1, <2>1, FS_RemoveElement DEF Gives
    <2>3. QED
      BY <1>1, <2>1, <2>2 DEF Gives, PermitsConserved
  <1>5. QED
    BY <1>2, <1>3, <1>4, NextCases

LEMMA InitPermits == Init => PermitsConserved
  <1> SUFFICES ASSUME Init PROVE PermitsConserved
    OBVIOUS
  <1>1. Holders = {}
    BY DEF Init, Holders, HoldsPermit
  <1>2. QED
    BY <1>1, FS_EmptySet, CapacityAssumption DEF Init, PermitsConserved, Capacity

-----------------------------------------------------------------------------
(* Bytes.                                                                  *)

\* What a step does to the reserved bytes: all of one call's come or go
\* together, and every other step leaves them alone.
Retainers == {j \in Jobs : HoldsBytes(j)}
Charges(j) == /\ j \notin Retainers /\ Retainers' = Retainers \cup {j}
              /\ bytes' = bytes + Weight[j] /\ bytes' <= ByteCapacity
Refunds(j) == /\ j \in Retainers /\ Retainers' = Retainers \ {j}
              /\ bytes' = bytes - Weight[j]
Retains == Retainers' = Retainers /\ bytes' = bytes

LEMMA ReservedOf == Reserved = UNION {BytesOf(j) : j \in Retainers}
  BY DEF Reserved, Retainers

\* A call has as many bytes as it declares.
LEMMA BytesOfFinite ==
    ASSUME NEW j \in Jobs
    PROVE  IsFiniteSet(BytesOf(j)) /\ Cardinality(BytesOf(j)) = Weight[j]
  <1>1. Weight[j] \in Nat
    BY WeightAssumption
  <1>2. IsFiniteSet(1 .. Weight[j]) /\ Cardinality(1 .. Weight[j]) = Weight[j]
    BY <1>1, FS_Interval
  <1>3. IsFiniteSet({j}) /\ Cardinality({j}) = 1
    BY FS_Singleton
  <1>4. /\ IsFiniteSet(BytesOf(j))
        /\ Cardinality(BytesOf(j)) = Cardinality({j}) * Cardinality(1 .. Weight[j])
    BY <1>2, <1>3, FS_Product, Zenon DEF BytesOf
  <1>5. QED
    BY <1>1, <1>2, <1>3, <1>4

LEMMA ReservedFinite == IsFiniteSet(Reserved) /\ Cardinality(Reserved) \in Nat
  <1>1. IsFiniteSet(Retainers)
    BY JobsAssumption, FS_Subset DEF Retainers
  <1>2. IsFiniteSet({BytesOf(j) : j \in Retainers})
    <2> DEFINE f == [j \in Retainers |-> BytesOf(j)]
               All == {BytesOf(j) : j \in Retainers}
    <2>1. f \in Surjection(Retainers, All)
      BY DEF Surjection
    <2>2. QED
      BY <1>1, <2>1, FS_Surjection
  <1>3. \A S \in {BytesOf(j) : j \in Retainers} : IsFiniteSet(S)
    BY BytesOfFinite DEF Retainers
  <1>4. IsFiniteSet(Reserved)
    BY <1>2, <1>3, FS_UNION, ReservedOf
  <1>5. QED
    BY <1>4, FS_CardinalityType

\* Adding to a finite set one that it does not meet.
LEMMA DisjointUnion ==
    ASSUME NEW S, NEW T, IsFiniteSet(S), IsFiniteSet(T), S \cap T = {}
    PROVE  IsFiniteSet(S \cup T) /\ Cardinality(S \cup T) = Cardinality(S) + Cardinality(T)
  <1>1. /\ IsFiniteSet(S \cup T)
        /\ Cardinality(S \cup T) = Cardinality(S) + Cardinality(T) - Cardinality(S \cap T)
    BY FS_Union
  <1>2. Cardinality(S \cap T) = 0
    BY FS_EmptySet
  <1>3. Cardinality(S) \in Nat /\ Cardinality(T) \in Nat
    BY FS_CardinalityType
  <1>4. QED
    BY <1>1, <1>2, <1>3

\* What one call adds to the union of all.
LEMMA OneMore ==
    ASSUME NEW J \in SUBSET Jobs, NEW j \in Jobs, j \notin J,
           IsFiniteSet(UNION {BytesOf(k) : k \in J})
    PROVE  Cardinality(UNION {BytesOf(k) : k \in J \cup {j}})
             = Cardinality(UNION {BytesOf(k) : k \in J}) + Weight[j]
  <1> DEFINE U == UNION {BytesOf(k) : k \in J}
  <1>1. UNION {BytesOf(k) : k \in J \cup {j}} = U \cup BytesOf(j)
    OBVIOUS
  <1>2. U \cap BytesOf(j) = {}
    BY DEF BytesOf
  <1>3. QED
    BY <1>1, <1>2, DisjointUnion, BytesOfFinite

LEMMA BytesKept ==
    ASSUME TypeOK, BytesConserved, Retains \/ \E j \in Jobs : Charges(j) \/ Refunds(j)
    PROVE  BytesConserved'
  <1>1. /\ Reserved' = UNION {BytesOf(j) : j \in Retainers'}
        /\ Retainers \in SUBSET Jobs /\ Retainers' \in SUBSET Jobs
    BY DEF Reserved, Retainers, BytesOf
  <1>2. CASE Retains
    BY <1>1, <1>2, ReservedOf DEF Retains, BytesConserved
  <1>3. ASSUME NEW j \in Jobs, Charges(j) PROVE BytesConserved'
    <2>1. Cardinality(Reserved') = Cardinality(Reserved) + Weight[j]
      BY <1>1, <1>3, OneMore, ReservedOf, ReservedFinite DEF Charges
    <2>2. QED
      BY <1>3, <2>1 DEF Charges, BytesConserved
  <1>4. ASSUME NEW j \in Jobs, Refunds(j) PROVE BytesConserved'
    <2>1. Retainers' \cup {j} = Retainers /\ j \notin Retainers'
      BY <1>4 DEF Refunds
    <2>2. Reserved' \subseteq Reserved
      BY <1>1, <2>1, ReservedOf
    <2>3. IsFiniteSet(Reserved') /\ Cardinality(Reserved') \in Nat
      BY <2>2, ReservedFinite, FS_Subset, FS_CardinalityType
    <2>4. Cardinality(Reserved) = Cardinality(Reserved') + Weight[j]
      BY <1>1, <2>1, <2>3, OneMore, ReservedOf
    <2>5. bytes' = Cardinality(Reserved') /\ bytes' <= bytes
      BY <1>4, <2>3, <2>4, WeightAssumption DEF Refunds, BytesConserved
    <2>6. QED
      BY <2>5, WeightAssumption, <1>4 DEF BytesConserved, TypeOK, Refunds
  <1>5. QED
    BY <1>2, <1>3, <1>4

LEMMA BytesMove ==
    ASSUME TypeOK, Coherent, [Next]_vars
    PROVE  Retains \/ \E j \in Jobs : Charges(j) \/ Refunds(j)
  <1> USE DEF TypeOK, Coherent, JobCoherent, Goto, Fire, Retains, Retainers, HoldsBytes,
              Submitted, Raised, jobVars, asyncVars, execVars, poolVars, closeVars
  <1>1. ASSUME NEW j \in Jobs, Charge(j) PROVE Charges(j)
    BY <1>1 DEF Charge, Charges
  <1>2. ASSUME NEW j \in Jobs, Uncharge(j) \/ Settle(j) PROVE Refunds(j)
    BY <1>2 DEF Uncharge, Settle, Refunds
  <1>3. ASSUME NEW j \in Jobs,
               \/ CheckOpen(j) \/ AcquirePermit(j) \/ RejectSaturated(j) \/ RefuseClosed(j)
               \/ RejectOverBudget(j)
        PROVE  Retains
    BY <1>3 DEF CheckOpen, AcquirePermit, RejectSaturated, RefuseClosed, RejectOverBudget
  <1>4. ASSUME NEW j \in Jobs,
               Schedule(j) \/ ScheduleFails(j) \/ ScheduleRefused(j) \/ Unwind(j) \/ Track(j)
        PROVE  Retains
    BY <1>4 DEF Schedule, ScheduleFails, ScheduleRefused, Unwind, Track
  <1>5. ASSUME NEW j \in Jobs, Register(j) \/ RunInline(j) \/ ReturnInline(j) PROVE Retains
    BY <1>5 DEF Register, RunInline, ReturnInline
  <1>6. ASSUME NEW j \in Jobs, ReleasePermit(j) \/ Finish(j) PROVE Retains
    BY <1>6 DEF ReleasePermit, Finish
  <1>7. ASSUME NEW j \in Jobs, Coroutine(j) \/ Dispose(j) PROVE Retains
    BY <1>7 DEF Coroutine, Resume, CancelQueuedCall, DetachRunningCall, Dispose
  <1>8. CASE Worker \/ Closer
    <2>1. (DropCancelled \/ Start \/ DrainOne) => Head(queue) \in Jobs
      BY QueueHead DEF DropCancelled, Start, DrainOne
    <2>2. QED
      BY <1>8, <2>1 DEF Worker, DropCancelled, Start, Closer, CloseAdmission, ShutdownExecutor,
           DrainOne, DrainDone, Join
  <1>9. CASE UNCHANGED vars
    BY <1>9 DEF vars
  <1>10. QED
    BY <1>1, <1>2, <1>3, <1>4, <1>5, <1>6, <1>7, <1>8, <1>9 DEF Next, Submitter, Callback, Terminated

LEMMA InitBytes == Init => BytesConserved
  <1> SUFFICES ASSUME Init PROVE BytesConserved
    OBVIOUS
  <1>1. Reserved = {}
    BY DEF Init, Reserved, HoldsBytes
  <1>2. QED
    BY <1>1, FS_EmptySet, WeightAssumption DEF Init, BytesConserved

LEMMA BytesStep == TypeOK /\ Coherent /\ BytesConserved /\ [Next]_vars => BytesConserved'
  BY BytesMove, BytesKept

-----------------------------------------------------------------------------
(* Counters.                                                               *)

LEMMA InitCounted == Init => Counted
  <1> SUFFICES ASSUME Init PROVE Counted
    OBVIOUS
  <1>1. /\ Awaited = {} /\ Tracked = {} /\ Saturated = {} /\ OverBudget = {} /\ Abandoned = {}
        /\ EndedAs("succeeded") = {} /\ EndedAs("failed") = {}
    BY DEF Init, Awaited, Tracked, Saturated, OverBudget, EndedAs, Abandoned
  <1>2. Cardinality({}) = 0
    BY FS_EmptySet
  <1>3. QED
    BY <1>1, <1>2 DEF Init, Counted, Counters

\* One call more in a set of calls.
LEMMA OneCall ==
    ASSUME NEW S \in SUBSET Jobs, NEW j \in Jobs, j \notin S
    PROVE  Cardinality(S \cup {j}) = Cardinality(S) + 1
  BY JobsAssumption, FS_Subset, FS_AddElement

\* What a step counts: nothing; a rejected or submitted call; what `finished`
\* or `invoke` counts.
SameCalls ==
    /\ Awaited' = Awaited /\ Tracked' = Tracked /\ Saturated' = Saturated
    /\ OverBudget' = OverBudget /\ Abandoned' = Abandoned
SameEnds == \A result \in {"succeeded", "failed"} : EndedAs(result)' = EndedAs(result)
Uncounting == futures' = futures /\ tally' = tally /\ SameCalls /\ SameEnds
Counting(j) == RejectSaturated(j) \/ RejectOverBudget(j) \/ Track(j) \/ Settle(j) \/ Finish(j)

LEMMA UncountingStep ==
    ASSUME TypeOK, Coherent, [Next]_vars, \A j \in Jobs : ~Counting(j)
    PROVE  Uncounting
  <1> USE DEF TypeOK, Coherent, JobCoherent, Goto, Fire, Uncounting, SameCalls, SameEnds, Awaited, Tracked,
              Saturated, OverBudget, EndedAs, Abandoned, Submitted, Raised, jobVars, asyncVars, execVars,
              poolVars, closeVars
  <1>1. ASSUME NEW j \in Jobs, CheckOpen(j) \/ AcquirePermit(j) \/ RefuseClosed(j) \/ Charge(j)
        PROVE  Uncounting
    BY <1>1 DEF CheckOpen, AcquirePermit, RefuseClosed, Charge
  <1>3. ASSUME NEW j \in Jobs, Schedule(j) \/ ScheduleFails(j) \/ ScheduleRefused(j) PROVE Uncounting
    <2>1. CASE Schedule(j) \/ ScheduleFails(j)
      <3>1. /\ UNCHANGED <<cb, futures, tally, outcome>>
            /\ fut[j] = "none" /\ cb[j] = "none" /\ fut' = [fut EXCEPT ![j] = "pending"]
            /\ pc[j] = "charged" /\ \E l \in {"scheduled", "uncharge"} : pc' = [pc EXCEPT ![j] = l]
        BY <2>1 DEF Schedule, ScheduleFails
      <3>2. SameEnds /\ Abandoned' = Abandoned
        BY <3>1
      <3>3. Tracked' = Tracked /\ Awaited' = Awaited
        BY <3>1
      <3>4. Saturated' = Saturated /\ OverBudget' = OverBudget
        BY <3>1
      <3>5. QED
        BY <3>1, <3>2, <3>3, <3>4
    <2>2. CASE ScheduleRefused(j)
      BY <2>2 DEF ScheduleRefused
    <2>3. QED
      BY <1>3, <2>1, <2>2
  <1>4. ASSUME NEW j \in Jobs, Uncharge(j) \/ Unwind(j) \/ RunInline(j) PROVE Uncounting
    BY <1>4 DEF Uncharge, Unwind, RunInline
  <1>5. ASSUME NEW j \in Jobs, Register(j) \/ ReturnInline(j) PROVE Uncounting
    BY <1>5 DEF Register, ReturnInline
  <1>6. ASSUME NEW j \in Jobs, ReleasePermit(j) \/ Dispose(j) PROVE Uncounting
    BY <1>6 DEF ReleasePermit, Dispose
  <1>7. ASSUME NEW j \in Jobs, Coroutine(j) PROVE Uncounting
    BY <1>7 DEF Coroutine, Resume, CancelQueuedCall, DetachRunningCall
  <1>8. CASE Worker \/ Closer
    <2>1. (DropCancelled \/ Start \/ DrainOne) => Head(queue) \in Jobs /\ InQueue(Head(queue))
      BY QueueHead, QueueTail DEF DropCancelled, Start, DrainOne
    <2>2. QED
      BY <1>8, <2>1 DEF Worker, DropCancelled, Start, Closer, CloseAdmission, ShutdownExecutor,
           DrainOne, DrainDone, Join
  <1>9. CASE UNCHANGED vars
    BY <1>9 DEF vars
  <1>10. QED
    BY <1>1, <1>3, <1>4, <1>5, <1>6, <1>7, <1>8, <1>9 DEF Next, Submitter, Callback, Terminated, Counting

LEMMA CountedStep == TypeOK /\ Coherent /\ Counted /\ [Next]_vars => Counted'
  <1> SUFFICES ASSUME TypeOK, Coherent, Counted, [Next]_vars PROVE Counted'
    OBVIOUS
  <1>0. /\ Tracked \in SUBSET Jobs /\ Saturated \in SUBSET Jobs /\ OverBudget \in SUBSET Jobs
        /\ Abandoned \in SUBSET Jobs /\ \A result : EndedAs(result) \in SUBSET Jobs
    BY DEF Tracked, Saturated, OverBudget, EndedAs, Abandoned
  <1>1. ASSUME NEW j \in Jobs, Track(j) PROVE Counted'
    <2>1. /\ Tracked' = Tracked \cup {j} /\ j \notin Tracked
          /\ Awaited' = Awaited \cup {j} /\ Abandoned' = Abandoned
          /\ Saturated' = Saturated /\ OverBudget' = OverBudget /\ SameEnds
      BY <1>1 DEF Track, Goto, TypeOK, Coherent, JobCoherent, Tracked, Awaited, Saturated, OverBudget,
           EndedAs, SameEnds, Abandoned
    <2>2. /\ tally'["submitted"] = tally["submitted"] + 1
          /\ \A c \in Counters \ {"submitted"} : tally'[c] = tally[c]
          /\ futures' = futures \cup {j}
      BY <1>1 DEF Track, Bump, TypeOK, Counters
    <2>3. QED
      BY <1>0, <2>1, <2>2, OneCall DEF Counted, SameEnds, Counters
  <1>2. ASSUME NEW j \in Jobs, Settle(j) PROVE Counted'
    <2>1. /\ Tracked' = Tracked /\ Awaited' = Awaited \ {j} /\ futures' = futures \ {j}
          /\ Saturated' = Saturated /\ OverBudget' = OverBudget /\ SameEnds
      BY <1>2 DEF Settle, TypeOK, Coherent, JobCoherent, Tracked, Saturated, OverBudget, EndedAs, SameEnds, Awaited
    <2>2. \A c \in Counters \ {"cancelled"} : tally'[c] = tally[c]
      BY <1>2 DEF Settle, TypeOK, Counters
    <2>3. tally'["cancelled"] = Cardinality(Abandoned')
      <3>1. CASE fut[j] = "cancelled"
        <4>1. Abandoned' = Abandoned \cup {j} /\ j \notin Abandoned
          BY <1>2, <3>1 DEF Settle, TypeOK, Abandoned
        <4>2. tally'["cancelled"] = tally["cancelled"] + 1
          BY <1>2, <3>1 DEF Settle, TypeOK, Counters
        <4>3. QED
          BY <1>0, <4>1, <4>2, OneCall DEF Counted
      <3>2. CASE fut[j] # "cancelled"
        <4>1. Abandoned' = Abandoned
          BY <1>2, <3>2 DEF Settle, TypeOK, Abandoned
        <4>2. tally'["cancelled"] = tally["cancelled"]
          BY <1>2, <3>2 DEF Settle, TypeOK, Counters
        <4>3. QED
          BY <4>1, <4>2 DEF Counted
      <3>3. QED
        BY <3>1, <3>2
    <2>4. QED
      BY <2>1, <2>2, <2>3 DEF Counted, SameEnds, Counters
  <1>3. ASSUME NEW j \in Jobs, Finish(j) PROVE Counted'
    <2>1. SameCalls /\ futures' = futures
      BY <1>3 DEF Finish, Fire, TypeOK, Coherent, JobCoherent, SameCalls, Tracked, Awaited, Saturated,
           OverBudget, Abandoned
    <2>2. PICK result \in {"succeeded", "failed"} :
            outcome' = [outcome EXCEPT ![j] = result] /\ tally' = [tally EXCEPT ![result] = @ + 1]
      BY <1>3 DEF Finish, Bump
    <2>3. /\ EndedAs(result)' = EndedAs(result) \cup {j} /\ j \notin EndedAs(result)
          /\ \A other \in {"succeeded", "failed"} \ {result} : EndedAs(other)' = EndedAs(other)
      BY <1>3, <2>2 DEF Finish, TypeOK, Coherent, JobCoherent, EndedAs
    <2>4. /\ tally'[result] = tally[result] + 1
          /\ \A c \in Counters \ {result} : tally'[c] = tally[c]
      BY <2>2 DEF TypeOK, Counters
    <2>5. Cardinality(EndedAs(result)') = Cardinality(EndedAs(result)) + 1
      BY <1>0, <2>3, OneCall
    <2>6. QED
      BY <2>1, <2>3, <2>4, <2>5 DEF Counted, SameCalls, Counters
  <1>4. ASSUME NEW j \in Jobs, RejectSaturated(j) PROVE Counted'
    <2>1. /\ Saturated' = Saturated \cup {j} /\ j \notin Saturated /\ futures' = futures
          /\ Tracked' = Tracked /\ Awaited' = Awaited /\ OverBudget' = OverBudget /\ Abandoned' = Abandoned
          /\ SameEnds
      BY <1>4 DEF RejectSaturated, Goto, TypeOK, Tracked, Awaited, Saturated, OverBudget, EndedAs, SameEnds, Abandoned
    <2>2. /\ tally'["rejected_capacity"] = tally["rejected_capacity"] + 1
          /\ \A c \in Counters \ {"rejected_capacity"} : tally'[c] = tally[c]
      BY <1>4 DEF RejectSaturated, Bump, TypeOK, Counters
    <2>3. QED
      BY <1>0, <2>1, <2>2, OneCall DEF Counted, SameEnds, Counters
  <1>5. ASSUME NEW j \in Jobs, RejectOverBudget(j) PROVE Counted'
    <2>1. /\ OverBudget' = OverBudget \cup {j} /\ j \notin OverBudget /\ futures' = futures
          /\ Tracked' = Tracked /\ Awaited' = Awaited /\ Saturated' = Saturated /\ Abandoned' = Abandoned
          /\ SameEnds
      BY <1>5 DEF RejectOverBudget, Goto, TypeOK, Tracked, Awaited, Saturated, OverBudget, EndedAs, SameEnds, Abandoned
    <2>2. /\ tally'["rejected_bytes"] = tally["rejected_bytes"] + 1
          /\ \A c \in Counters \ {"rejected_bytes"} : tally'[c] = tally[c]
      BY <1>5 DEF RejectOverBudget, Bump, TypeOK, Counters
    <2>3. QED
      BY <1>0, <2>1, <2>2, OneCall DEF Counted, SameEnds, Counters
  <1>6. ASSUME \A j \in Jobs : ~Counting(j) PROVE Counted'
    BY <1>6, UncountingStep DEF Uncounting, SameCalls, SameEnds, Counted
  <1>7. QED
    BY <1>1, <1>2, <1>3, <1>4, <1>5, <1>6 DEF Counting

\* In a settled pool every tracked call is under exactly one outcome, and what
\* ended without being tracked is a call whose submit raised.
LEMMA SettledCounts == TypeOK /\ Coherent /\ Counted => CountersSettle
  <1> SUFFICES ASSUME TypeOK, Coherent, Counted, Quiescent
               PROVE  /\ futures = {}
                      /\ tally["submitted"] = Cardinality({j \in Jobs : pc[j] = "returned"})
                      /\ tally["submitted"] + Cardinality({j \in Jobs : pc[j] = "error" /\ fut[j] = "finished"})
                           = tally["succeeded"] + tally["failed"] + tally["cancelled"]
    BY DEF CountersSettle
  <1> DEFINE Loose == {j \in Jobs : pc[j] = "error" /\ fut[j] = "finished"}
             Served == {j \in Jobs : pc[j] = "returned" /\ fut[j] = "finished"}
             Good == EndedAs("succeeded")
             Bad == EndedAs("failed")
  <1>1. futures = {} /\ Tracked = {j \in Jobs : pc[j] = "returned"}
    BY DEF Counted, Awaited, Tracked, Quiescent
  <1>2. Good \cup Bad = Served \cup Loose /\ Served \cap Loose = {} /\ Good \cap Bad = {}
    BY DEF EndedAs, TypeOK, Coherent, JobCoherent, Submitted, Raised, Quiescent
  <1>3. Tracked = Served \cup Abandoned /\ Served \cap Abandoned = {}
    BY DEF Tracked, Abandoned, TypeOK, Coherent, JobCoherent, Quiescent
  <1>4. IsFiniteSet(Served) /\ IsFiniteSet(Loose) /\ IsFiniteSet(Abandoned) /\ IsFiniteSet(Good) /\ IsFiniteSet(Bad)
    BY JobsAssumption, FS_Subset DEF Abandoned, EndedAs
  <1>5. /\ Cardinality(Served) \in Nat /\ Cardinality(Loose) \in Nat /\ Cardinality(Abandoned) \in Nat
        /\ Cardinality(Good) \in Nat /\ Cardinality(Bad) \in Nat
    BY <1>4, FS_CardinalityType
  <1> HIDE DEF Loose, Served, Good, Bad
  <1>6. Cardinality(Good) + Cardinality(Bad) = Cardinality(Served) + Cardinality(Loose)
    BY <1>2, <1>4, DisjointUnion
  <1>7. Cardinality(Tracked) = Cardinality(Served) + Cardinality(Abandoned)
    BY <1>3, <1>4, DisjointUnion
  <1>8. tally["submitted"] + Cardinality(Loose) = tally["succeeded"] + tally["failed"] + tally["cancelled"]
    BY <1>5, <1>6, <1>7 DEF Counted, Good, Bad
  <1>9. QED
    BY <1>1, <1>8 DEF Counted, Loose

\* The inductive invariant.
THEOREM Inductive == Spec => []IInv
  <1>1. Init => IInv
    BY InitTypeOK, InitCoherent, InitPermits, InitBytes, InitCounted DEF IInv
  <1>2. IInv /\ [Next]_vars => IInv'
    BY TypeStep, CoherentStep, PermitStep, BytesStep, CountedStep DEF IInv
  <1>3. QED
    BY <1>1, <1>2, PTL DEF Spec

\* No path through submit_weighted, its callback, cancellation or close leaks a
\* permit or releases one twice.
THEOREM PermitsAreConserved == Spec => []PermitsConserved
  BY Inductive, PTL DEF IInv

\* A call that runs or may still run keeps its permit and bytes.
THEOREM RunningCallsStayBudgeted == Spec => []BudgetCoversRunning
  <1>1. IInv => BudgetCoversRunning
    BY DEF IInv, TypeOK, Coherent, JobCoherent, Submitted, Raised, BudgetCoversRunning,
           HoldsPermit, HoldsBytes
  <1>2. QED
    BY <1>1, Inductive, PTL

\* A late result is disposed of only if the coroutine abandoned it.
THEOREM LateResultsHaveOneOwner == Spec => []OneOwner
  <1>1. IInv => OneOwner
    BY DEF IInv, Coherent, JobCoherent, OneOwner
  <1>2. QED
    BY <1>1, Inductive, PTL

\* Permits, bytes and results are owned exactly while their calls run.
THEOREM CallsAreOwned == Spec => []CallsOwned
  <1>1. TypeOK /\ PermitsConserved /\ BudgetCoversRunning /\ OneOwner => CallsOwned
    BY DEF CallsOwned
  <1>2. QED
    BY <1>1, TypeCorrect, PermitsAreConserved, RunningCallsStayBudgeted,
       LateResultsHaveOneOwner, PTL

\* The bytes that admission weighs a call against are those of the calls that
\* retain them, within the budget; each counter of the snapshot is at every moment
\* the number of the calls that it has to count; and in a settled pool they
\* account for every call once.
THEOREM CountersAreExact == Spec => []CountersExact
  <1>1. IInv => CountersExact
    BY SettledCounts DEF IInv, CountersExact
  <1>2. QED
    BY <1>1, Inductive, PTL

-----------------------------------------------------------------------------
(* Refinement.                                                             *)

\* The instance has its own copy of Cardinality.
LEMMA SameCardinality == \A S : Abstract!Cardinality(S) = Cardinality(S)
  BY DEF Abstract!Cardinality, Cardinality

LEMMA InitRefines == Init => Abstract!Init
  BY DEF Init, Abstract!Init, Holders, HoldsPermit, Saturated, Returned

LEMMA StepRefines == IInv /\ [Next]_vars => [Abstract!Next]_<<Holders, Saturated, Returned>>
  <1> SUFFICES ASSUME IInv, [Next]_vars
               PROVE  [Abstract!Next]_<<Holders, Saturated, Returned>>
    OBVIOUS
  <1> USE DEF IInv
  <1>1. Cardinality(Holders) \in Nat /\ Capacity \in Nat
    BY HoldersFinite, CapacityAssumption DEF Capacity
  <1>2. ASSUME NEW j \in Jobs, AcquirePermit(j) PROVE Abstract!Admit(j)
    <2>1. Takes(j)
      BY <1>2, TakesStep
    <2>2. UNCHANGED <<Saturated, Returned>> /\ j \notin Saturated \cup Returned
      BY <1>2 DEF TypeOK, Coherent, JobCoherent, AcquirePermit, Goto, Saturated, Returned
    <2>3. QED
      BY <1>1, <2>1, <2>2, SameCardinality DEF Takes, Abstract!Admit, PermitsConserved
  <1>3. ASSUME NEW j \in Jobs,
               RefuseClosed(j) \/ RejectOverBudget(j) \/ Unwind(j) \/ ReleasePermit(j)
        PROVE  Abstract!Return(j)
    <2>1. Gives(j)
      BY <1>3, GivesStep
    <2>2. UNCHANGED Saturated /\ Returned' = Returned \cup {j}
      BY <1>3 DEF TypeOK, Coherent, JobCoherent, RefuseClosed, RejectOverBudget, Unwind,
                  ReleasePermit, Goto, Saturated, Returned
    <2>3. QED
      BY <2>1, <2>2 DEF Gives, Abstract!Return
  <1>4. ASSUME NEW j \in Jobs, RejectSaturated(j) PROVE Abstract!Refuse(j)
    <2>1. Neutral
      BY <1>4 DEF Neutral
    <2>2. Keeps
      BY <2>1, KeepsStep
    <2>3. j \notin Holders \cup Saturated \cup Returned
      BY <1>4 DEF TypeOK, Coherent, JobCoherent, RejectSaturated, Holders, HoldsPermit,
                  Saturated, Returned
    <2>4. UNCHANGED Returned /\ Saturated' = Saturated \cup {j}
      BY <1>4 DEF TypeOK, Coherent, JobCoherent, RejectSaturated, Goto, Saturated, Returned
    <2>5. Cardinality(Holders) = Capacity
      BY <1>1, <1>4 DEF RejectSaturated, PermitsConserved
    <2>6. QED
      BY <2>2, <2>3, <2>4, <2>5, SameCardinality DEF Keeps, Abstract!Refuse
  <1>5. ASSUME Neutral, \A j \in Jobs : ~RejectSaturated(j)
        PROVE  UNCHANGED <<Holders, Saturated, Returned>>
    <2>1. UNCHANGED Holders
      BY <1>5, KeepsStep DEF Keeps
    <2>2. UNCHANGED <<Saturated, Returned>>
      <3> USE DEF TypeOK, Coherent, JobCoherent, Goto, Fire, Saturated, Returned,
                  jobVars, asyncVars, execVars, poolVars, closeVars
      <3>1. ASSUME NEW j \in Jobs, CheckOpen(j) \/ Charge(j) \/ Schedule(j) \/ ScheduleFails(j)
            PROVE  UNCHANGED <<Saturated, Returned>>
        BY <3>1 DEF CheckOpen, Charge, Schedule, ScheduleFails
      <3>2. ASSUME NEW j \in Jobs,
                   ScheduleRefused(j) \/ Uncharge(j) \/ Track(j) \/ Register(j) \/ RunInline(j)
            PROVE  UNCHANGED <<Saturated, Returned>>
        BY <3>2 DEF ScheduleRefused, Uncharge, Track, Register, RunInline
      <3>3. ASSUME NEW j \in Jobs, ReturnInline(j) PROVE UNCHANGED <<Saturated, Returned>>
        BY <3>3 DEF ReturnInline
      <3>4. ASSUME NEW j \in Jobs, Settle(j) \/ Finish(j) PROVE UNCHANGED <<Saturated, Returned>>
        BY <3>4 DEF Settle, Finish
      <3>5. ASSUME NEW j \in Jobs, Coroutine(j) \/ Dispose(j)
            PROVE  UNCHANGED <<Saturated, Returned>>
        BY <3>5 DEF Coroutine, Resume, CancelQueuedCall, DetachRunningCall, Dispose
      <3>6. ASSUME Worker \/ Closer PROVE UNCHANGED <<Saturated, Returned>>
        <4>1. (DropCancelled \/ Start \/ DrainOne) => Head(queue) \in Jobs
          BY QueueHead DEF DropCancelled, Start, DrainOne
        <4>2. QED
          BY <3>6, <4>1 DEF Worker, DropCancelled, Start, Closer, CloseAdmission,
               ShutdownExecutor, DrainOne, DrainDone, Join
      <3>7. CASE UNCHANGED vars
        BY <3>7 DEF vars
      <3>8. QED
        BY <1>5, <3>1, <3>2, <3>3, <3>4, <3>5, <3>6, <3>7 DEF Neutral
    <2>3. QED
      BY <2>1, <2>2
  <1>6. QED
    BY <1>2, <1>3, <1>4, <1>5, NextCases DEF Abstract!Next

\* BoundedWorkPool implements exact, non-blocking admission.
THEOREM PoolAdmitsExactly == Spec => ExactAdmission
  BY InitRefines, StepRefines, Inductive, PTL DEF Spec, ExactAdmission, Abstract!Spec
=============================================================================
