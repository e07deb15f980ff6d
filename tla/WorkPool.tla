------------------------------- MODULE WorkPool -------------------------------
(***************************************************************************)
(* servery's BoundedWorkPool (_work.py): a semaphore and a byte budget     *)
(* around a ThreadPoolExecutor.  Each element of Jobs is one call of       *)
(* submit_weighted with the submitter thread that makes it, its Future,    *)
(* the done-callback `finished` and, for run_async, the coroutine that     *)
(* awaits it.  Every section under the pool's condition is one step; so is *)
(* each semaphore operation outside it.                                    *)
(*                                                                         *)
(* Of one job:                                                             *)
(*   pc      the submitter in submit_weighted                              *)
(*   fut     the state of its Future, outcome what its function did        *)
(*   cb      the done-callback: none -> registered -> settle (to run its   *)
(*           locked section) -> release (to release the permit) -> done    *)
(*   waiter  the coroutine in run_async, dispose its late-result callback  *)
(* The executor (a FIFO queue, threads started on demand up to Workers) is *)
(* the standard library's, modelled from how the pool uses it.             *)
(***************************************************************************)
EXTENDS Integers, FiniteSets, Sequences

CONSTANTS Jobs,            \* calls of submit_weighted, each made once
          AsyncJobs,       \* those made by run_async, which await the result
          Workers,         \* threads the executor may start
          QueueCapacity,   \* admitted calls beyond the workers
          Weight,          \* declared bytes of each call
          ByteCapacity,    \* bytes that admitted calls may retain together
          ThreadStartMayFail  \* whether the OS may refuse a new thread

ASSUME JobsAssumption == IsFiniteSet(Jobs) /\ AsyncJobs \subseteq Jobs
ASSUME CapacityAssumption == Workers \in Nat \ {0} /\ QueueCapacity \in Nat
ASSUME WeightAssumption == Weight \in [Jobs -> Nat] /\ ByteCapacity \in Nat
ASSUME ModeAssumption == ThreadStartMayFail \in BOOLEAN

Capacity == Workers + QueueCapacity

VARIABLES pc, fut, outcome, cb,
          waiter, dispose,
          queue,      \* the executor's work queue
          threads,    \* executor threads started so far
          shutdown,   \* the executor refuses submissions
          permits,    \* the value of the pool's BoundedSemaphore
          bytes,      \* _bytes_reserved
          futures,    \* _futures
          closed,     \* _closed
          closer,     \* the thread in close()
          tally       \* the counters of the snapshot

jobVars   == <<pc, fut, outcome, cb>>
asyncVars == <<waiter, dispose>>
execVars  == <<queue, threads, shutdown>>
poolVars  == <<permits, bytes, futures, tally>>
closeVars == <<closed, closer>>
vars      == <<jobVars, asyncVars, execVars, poolVars, closeVars>>

PCs == {"new", "open", "permit", "charged", "scheduled", "tracked", "returned",
        "uncharge", "unwind", "saturated", "overbudget", "refusedClosed", "backedOut",
        "error"}
Counters == {"submitted", "rejected_capacity", "rejected_bytes",
             "succeeded", "failed", "cancelled"}

Bump(counter) == tally' = [tally EXCEPT ![counter] = @ + 1]

Init ==
    /\ pc = [j \in Jobs |-> "new"]
    /\ fut = [j \in Jobs |-> "none"]
    /\ outcome = [j \in Jobs |-> "none"]
    /\ cb = [j \in Jobs |-> "none"]
    /\ waiter = [j \in Jobs |-> "none"]
    /\ dispose = [j \in Jobs |-> "none"]
    /\ queue = <<>>
    /\ threads = 0
    /\ shutdown = FALSE
    /\ permits = Capacity
    /\ bytes = 0
    /\ futures = {}
    /\ closed = FALSE
    /\ closer = "idle"
    /\ tally = [c \in Counters |-> 0]

-----------------------------------------------------------------------------
(* The submitter: submit_weighted, one step per lock section.              *)

Goto(j, label) == pc' = [pc EXCEPT ![j] = label]

\* The first look at _closed.
CheckOpen(j) ==
    /\ pc[j] = "new"
    /\ Goto(j, IF closed THEN "refusedClosed" ELSE "open")
    /\ UNCHANGED <<fut, outcome, cb, asyncVars, execVars, poolVars, closeVars>>

\* The non-blocking acquire succeeds ...
AcquirePermit(j) ==
    /\ pc[j] = "open"
    /\ permits > 0
    /\ permits' = permits - 1
    /\ Goto(j, "permit")
    /\ UNCHANGED <<fut, outcome, cb, asyncVars, execVars, bytes, futures, tally, closeVars>>

\* Mutant: the last permit is never given out.
RejectEarly(j) ==
    /\ pc[j] = "open"
    /\ permits <= 1
    /\ Goto(j, "saturated")
    /\ Bump("rejected_capacity")
    /\ UNCHANGED <<fut, outcome, cb, asyncVars, execVars, permits, bytes, futures, closeVars>>

\* ... or fails, and the call is rejected for capacity.
RejectSaturated(j) ==
    /\ pc[j] = "open"
    /\ permits = 0
    /\ Goto(j, "saturated")
    /\ Bump("rejected_capacity")
    /\ UNCHANGED <<fut, outcome, cb, asyncVars, execVars, permits, bytes, futures, closeVars>>

\* The pool was closed while this call took its permit: the second look.
RefuseClosed(j) ==
    /\ pc[j] = "permit"
    /\ closed
    /\ permits' = permits + 1
    /\ Goto(j, "backedOut")
    /\ UNCHANGED <<fut, outcome, cb, asyncVars, execVars, bytes, futures, tally, closeVars>>

RejectOverBudget(j) ==
    /\ pc[j] = "permit"
    /\ ~closed
    /\ bytes + Weight[j] > ByteCapacity
    /\ permits' = permits + 1
    /\ Goto(j, "overbudget")
    /\ Bump("rejected_bytes")
    /\ UNCHANGED <<fut, outcome, cb, asyncVars, execVars, bytes, futures, closeVars>>

Charge(j) ==
    /\ pc[j] = "permit"
    /\ ~closed
    /\ bytes + Weight[j] <= ByteCapacity
    /\ bytes' = bytes + Weight[j]
    /\ Goto(j, "charged")
    /\ UNCHANGED <<fut, outcome, cb, asyncVars, execVars, permits, futures, tally, closeVars>>

\* Jobs that occupy an executor thread: their function runs, or the thread
\* still runs the callback of a Future it has just resolved.
OnThread(j) ==
    \/ fut[j] = "running"
    \/ fut[j] = "finished" /\ pc[j] = "returned" /\ cb[j] \in {"settle", "release"}
Busy == {j \in Jobs : OnThread(j)}

\* executor.submit queues the call, then reuses an idle thread, leaves it to
\* the busy ones, or starts one more.
Schedule(j) ==
    /\ pc[j] = "charged"
    /\ ~shutdown
    /\ queue' = Append(queue, j)
    /\ fut' = [fut EXCEPT ![j] = "pending"]
    /\ Goto(j, "scheduled")
    /\ \/ /\ threads = Workers \/ Cardinality(Busy) < threads
          /\ UNCHANGED threads
       \/ /\ threads < Workers
          /\ threads' = threads + 1
    /\ UNCHANGED <<outcome, cb, asyncVars, shutdown, poolVars, closeVars>>

\* The thread it wanted to start cannot be started: submit raises, and the
\* call it has queued already stays in the queue.
ScheduleFails(j) ==
    /\ ThreadStartMayFail
    /\ pc[j] = "charged"
    /\ ~shutdown
    /\ threads < Workers
    /\ queue' = Append(queue, j)
    /\ fut' = [fut EXCEPT ![j] = "pending"]
    /\ Goto(j, "uncharge")
    /\ UNCHANGED <<outcome, cb, asyncVars, threads, shutdown, poolVars, closeVars>>

\* executor.submit after executor.shutdown raises and queues nothing.
ScheduleRefused(j) ==
    /\ pc[j] = "charged"
    /\ shutdown
    /\ Goto(j, "uncharge")
    /\ UNCHANGED <<fut, outcome, cb, asyncVars, execVars, poolVars, closeVars>>

\* The handler of a submit that raised gives the bytes back, then the permit.
Uncharge(j) ==
    /\ pc[j] = "uncharge"
    /\ bytes' = bytes - Weight[j]
    /\ Goto(j, "unwind")
    /\ UNCHANGED <<fut, outcome, cb, asyncVars, execVars, permits, futures, tally, closeVars>>

Unwind(j) ==
    /\ pc[j] = "unwind"
    /\ permits' = permits + 1
    /\ Goto(j, "error")
    /\ UNCHANGED <<fut, outcome, cb, asyncVars, execVars, bytes, futures, tally, closeVars>>

Track(j) ==
    /\ pc[j] = "scheduled"
    /\ futures' = futures \cup {j}
    /\ Bump("submitted")
    /\ Goto(j, "tracked")
    /\ UNCHANGED <<fut, outcome, cb, asyncVars, execVars, permits, bytes, closeVars>>

\* add_done_callback: registered while the Future is unresolved ...
Register(j) ==
    /\ pc[j] = "tracked"
    /\ cb[j] = "none"
    /\ fut[j] \in {"pending", "running"}
    /\ cb' = [cb EXCEPT ![j] = "registered"]
    /\ Goto(j, "returned")
    /\ waiter' = [waiter EXCEPT ![j] = IF j \in AsyncJobs THEN "waiting" ELSE @]
    /\ UNCHANGED <<fut, outcome, dispose, execVars, poolVars, closeVars>>

\* ... and run at once, by the submitter, when it is resolved already.
RunInline(j) ==
    /\ pc[j] = "tracked"
    /\ cb[j] = "none"
    /\ fut[j] \in {"cancelled", "finished"}
    /\ cb' = [cb EXCEPT ![j] = "settle"]
    /\ UNCHANGED <<pc, fut, outcome, asyncVars, execVars, poolVars, closeVars>>

\* submit_weighted returns after the callback it ran itself.
ReturnInline(j) ==
    /\ pc[j] = "tracked"
    /\ cb[j] = "done"
    /\ Goto(j, "returned")
    /\ waiter' = [waiter EXCEPT ![j] = IF j \in AsyncJobs THEN "waiting" ELSE @]
    /\ UNCHANGED <<fut, outcome, cb, dispose, execVars, poolVars, closeVars>>

-----------------------------------------------------------------------------
(* The done-callback `finished`, on whichever thread resolved the Future.  *)

\* Mutant: `finished` counts no cancellation.
SettleUncounted(j) ==
    /\ cb[j] = "settle"
    /\ futures' = futures \ {j}
    /\ bytes' = bytes - Weight[j]
    /\ cb' = [cb EXCEPT ![j] = "release"]
    /\ UNCHANGED <<pc, fut, outcome, asyncVars, execVars, permits, tally, closeVars>>

Settle(j) ==
    /\ cb[j] = "settle"
    /\ futures' = futures \ {j}
    /\ bytes' = bytes - Weight[j]
    /\ tally' = [tally EXCEPT !["cancelled"] = @ + IF fut[j] = "cancelled" THEN 1 ELSE 0]
    /\ cb' = [cb EXCEPT ![j] = "release"]
    /\ UNCHANGED <<pc, fut, outcome, asyncVars, execVars, permits, closeVars>>

ReleasePermit(j) ==
    /\ cb[j] = "release"
    /\ permits' = permits + 1
    /\ cb' = [cb EXCEPT ![j] = "done"]
    /\ UNCHANGED <<pc, fut, outcome, asyncVars, execVars, bytes, futures, tally, closeVars>>

\* What resolving a Future does to its callback.
Fire(j) == cb' = [cb EXCEPT ![j] = IF @ = "registered" THEN "settle" ELSE @]

-----------------------------------------------------------------------------
(* The executor's threads and `invoke`.                                    *)

\* A free thread takes the head of the queue and drops it if it is cancelled.
DropCancelled ==
    /\ queue # <<>>
    /\ Cardinality(Busy) < threads
    /\ fut[Head(queue)] = "cancelled"
    /\ queue' = Tail(queue)
    /\ UNCHANGED <<jobVars, asyncVars, threads, shutdown, poolVars, closeVars>>

Start ==
    /\ queue # <<>>
    /\ Cardinality(Busy) < threads
    /\ fut[Head(queue)] = "pending"
    /\ fut' = [fut EXCEPT ![Head(queue)] = "running"]
    /\ queue' = Tail(queue)
    /\ UNCHANGED <<pc, outcome, cb, asyncVars, threads, shutdown, poolVars, closeVars>>

\* The function returns or raises: `invoke` counts it, then the thread
\* resolves the Future and runs its callbacks.
Finish(j) ==
    /\ fut[j] = "running"
    /\ fut' = [fut EXCEPT ![j] = "finished"]
    /\ \E result \in {"succeeded", "failed"} :
          /\ outcome' = [outcome EXCEPT ![j] = result]
          /\ Bump(result)
    /\ Fire(j)
    /\ UNCHANGED <<pc, asyncVars, execVars, permits, bytes, futures, closeVars>>

-----------------------------------------------------------------------------
(* The coroutine in run_async.                                             *)

\* It resumes with the result or the exception.  A Future runs its callbacks
\* in the order they were added, so `finished` is done by then.
Resume(j) ==
    /\ waiter[j] = "waiting"
    /\ fut[j] = "finished"
    /\ cb[j] = "done"
    /\ waiter' = [waiter EXCEPT ![j] = "resumed"]
    /\ UNCHANGED <<jobVars, dispose, execVars, poolVars, closeVars>>

\* It is cancelled while the call is queued (or the Future was cancelled under
\* it): future.cancel() succeeds.
CancelQueuedCall(j) ==
    /\ waiter[j] = "waiting"
    /\ fut[j] \in {"pending", "cancelled"}
    /\ fut' = [fut EXCEPT ![j] = "cancelled"]
    /\ Fire(j)
    /\ waiter' = [waiter EXCEPT ![j] = "cancelled"]
    /\ UNCHANGED <<pc, outcome, dispose, execVars, poolVars, closeVars>>

\* It is cancelled too late: the call keeps its permit and its result goes to
\* abandon_result.
DetachRunningCall(j) ==
    /\ waiter[j] = "waiting"
    /\ fut[j] \in {"running", "finished"}
    /\ waiter' = [waiter EXCEPT ![j] = "cancelled"]
    /\ dispose' = [dispose EXCEPT ![j] = "registered"]
    /\ UNCHANGED <<jobVars, execVars, poolVars, closeVars>>

\* Mutant: the late-result callback does not look at how the call ended.
DisposeBlindly(j) ==
    /\ dispose[j] = "registered"
    /\ fut[j] = "finished"
    /\ dispose' = [dispose EXCEPT ![j] = "disposed"]
    /\ UNCHANGED <<jobVars, waiter, execVars, poolVars, closeVars>>

Dispose(j) ==
    /\ dispose[j] = "registered"
    /\ fut[j] = "finished"
    /\ dispose' = [dispose EXCEPT ![j] = IF outcome[j] = "succeeded" THEN "disposed" ELSE "skipped"]
    /\ UNCHANGED <<jobVars, waiter, execVars, poolVars, closeVars>>

-----------------------------------------------------------------------------
(* close(wait = True, cancel_queued = either).                             *)

CloseAdmission ==
    /\ closer = "idle"
    /\ closed' = TRUE
    /\ closer' = "marked"
    /\ UNCHANGED <<jobVars, asyncVars, execVars, poolVars>>

ShutdownExecutor ==
    /\ closer = "marked"
    /\ shutdown' = TRUE
    /\ closer' \in {"draining", "joining"}
    /\ UNCHANGED <<jobVars, asyncVars, queue, threads, poolVars, closed>>

\* Mutant: shutdown empties the queue without cancelling the Futures.
DrainSilently ==
    /\ closer = "draining"
    /\ queue # <<>>
    /\ queue' = Tail(queue)
    /\ UNCHANGED <<jobVars, asyncVars, threads, shutdown, poolVars, closeVars>>

\* shutdown(cancel_futures = True) pops every queued call and cancels it.
DrainOne ==
    /\ closer = "draining"
    /\ queue # <<>>
    /\ queue' = Tail(queue)
    /\ fut' = [fut EXCEPT ![Head(queue)] = "cancelled"]
    /\ Fire(Head(queue))
    /\ UNCHANGED <<pc, outcome, asyncVars, threads, shutdown, poolVars, closeVars>>

DrainDone ==
    /\ closer = "draining"
    /\ queue = <<>>
    /\ closer' = "joining"
    /\ UNCHANGED <<jobVars, asyncVars, execVars, poolVars, closed>>

\* shutdown(wait = True) joins the threads, which exit on an empty queue.
Join ==
    /\ closer = "joining"
    /\ threads > 0 => queue = <<>>
    /\ Busy = {}
    /\ closer' = "closed"
    /\ UNCHANGED <<jobVars, asyncVars, execVars, poolVars, closed>>

-----------------------------------------------------------------------------
Submitter(j) ==
    \/ CheckOpen(j) \/ AcquirePermit(j) \/ RejectSaturated(j) \/ RefuseClosed(j)
    \/ RejectOverBudget(j) \/ Charge(j) \/ Schedule(j) \/ ScheduleFails(j)
    \/ ScheduleRefused(j) \/ Uncharge(j) \/ Unwind(j) \/ Track(j)
    \/ Register(j) \/ RunInline(j) \/ ReturnInline(j)
Callback(j) == Settle(j) \/ ReleasePermit(j)
Worker == DropCancelled \/ Start
Coroutine(j) == Resume(j) \/ CancelQueuedCall(j) \/ DetachRunningCall(j)
Closer == CloseAdmission \/ ShutdownExecutor \/ DrainOne \/ DrainDone \/ Join

\* Every call has returned, every Future is resolved and nothing is left to run.
Quiescent ==
    /\ \A j \in Jobs : /\ pc[j] \in {"returned", "saturated", "overbudget",
                                     "refusedClosed", "backedOut", "error"}
                       /\ pc[j] = "returned" => cb[j] = "done"
                       /\ fut[j] # "running"
    /\ queue = <<>> \/ threads = 0

Terminated == Quiescent /\ closer = "closed" /\ UNCHANGED vars

Next ==
    \/ \E j \in Jobs : Submitter(j) \/ Callback(j) \/ Finish(j) \/ Coroutine(j) \/ Dispose(j)
    \/ Worker
    \/ Closer
    \/ Terminated

Spec == Init /\ [][Next]_vars

\* Threads that are running keep running and submitted functions return.  Nobody
\* is obliged to submit, to cancel a coroutine, or to close the pool.  Every
\* step moves one job or the closer forward and none can repeat for ever, so
\* fairness of their disjunction is fairness of each.
Progress ==
    \/ \E j \in Jobs : \/ Submitter(j) /\ pc[j] # "new"
                      \/ Callback(j) \/ Finish(j) \/ Dispose(j)
    \/ Worker
    \/ Closer /\ closer # "idle"

Fairness == WF_vars(Progress)

FairSpec == Spec /\ Fairness
-----------------------------------------------------------------------------
(* Properties.                                                             *)

\* Every variable keeps its type: in particular no permit is taken that is not
\* there, and no more threads are started than the executor may have.
TypeOK ==
    /\ pc \in [Jobs -> PCs]
    /\ fut \in [Jobs -> {"none", "pending", "running", "cancelled", "finished"}]
    /\ outcome \in [Jobs -> {"none", "succeeded", "failed"}]
    /\ cb \in [Jobs -> {"none", "registered", "settle", "release", "done"}]
    /\ waiter \in [Jobs -> {"none", "waiting", "resumed", "cancelled"}]
    /\ dispose \in [Jobs -> {"none", "registered", "disposed", "skipped"}]
    /\ queue \in Seq(Jobs)
    /\ threads \in 0 .. Workers
    /\ shutdown \in BOOLEAN
    /\ permits \in Nat
    /\ bytes \in Int
    /\ futures \in SUBSET Jobs
    /\ closed \in BOOLEAN
    /\ closer \in {"idle", "marked", "draining", "joining", "closed"}
    /\ tally \in [Counters -> Nat]

\* The calls that hold a permit, by where their submitter and callback stand.
HoldsPermit(j) ==
    \/ pc[j] \in {"permit", "charged", "scheduled", "uncharge", "unwind"}
    \/ pc[j] \in {"tracked", "returned"} /\ cb[j] # "done"
Holders == {j \in Jobs : HoldsPermit(j)}

\* The calls whose bytes are reserved.
HoldsBytes(j) ==
    \/ pc[j] \in {"charged", "scheduled", "uncharge"}
    \/ pc[j] \in {"tracked", "returned"} /\ cb[j] \notin {"release", "done"}

\* Every permit is either free or held by exactly one call that has yet to give
\* it back: no exit of submit_weighted leaks a permit or releases it twice.
PermitsConserved == permits = Capacity - Cardinality(Holders)

\* One element for each byte that a call has reserved.
BytesOf(j) == {j} \X (1 .. Weight[j])
Reserved == UNION {BytesOf(j) : j \in {k \in Jobs : HoldsBytes(k)}}

\* The byte counter is exactly the declared weight of the calls that still
\* retain their budget, and never exceeds it.
BytesConserved ==
    /\ bytes = Cardinality(Reserved)
    /\ bytes <= ByteCapacity

\* A call whose Future a thread is running, or may still start, has its permit
\* and its bytes, whatever became of the coroutine that awaits it (module
\* docstring: "keeps capacity until a submitted call actually finishes").  The
\* exception is a call whose submit raised after queueing it.
BudgetCoversRunning ==
    \A j \in Jobs : fut[j] \in {"pending", "running"} =>
        \/ HoldsPermit(j) /\ HoldsBytes(j)
        \/ pc[j] \in {"uncharge", "unwind", "error"}

\* The calls that `finished` still has in _futures, and those that each counter
\* of the snapshot has counted.
Awaited == {j \in Jobs : pc[j] \in {"tracked", "returned"} /\ cb[j] \notin {"release", "done"}}
Tracked == {j \in Jobs : pc[j] \in {"tracked", "returned"}}
Saturated == {j \in Jobs : pc[j] = "saturated"}
OverBudget == {j \in Jobs : pc[j] = "overbudget"}
EndedAs(result) == {j \in Jobs : outcome[j] = result}
Abandoned == {j \in Jobs : fut[j] = "cancelled" /\ cb[j] \in {"release", "done"}}

\* At every moment each counter is the number of the calls that have come to
\* what it counts, whichever thread has counted them.
Counted ==
    /\ futures = Awaited
    /\ tally["submitted"] = Cardinality(Tracked)
    /\ tally["rejected_capacity"] = Cardinality(Saturated)
    /\ tally["rejected_bytes"] = Cardinality(OverBudget)
    /\ \A result \in {"succeeded", "failed"} : tally[result] = Cardinality(EndedAs(result))
    /\ tally["cancelled"] = Cardinality(Abandoned)

\* When everything has settled, the counters account for each submitted call
\* once, under exactly one outcome; only a call that submit refused to track
\* may add to succeeded or failed.
CountersSettle ==
    Quiescent =>
        /\ futures = {}
        /\ tally["submitted"] = Cardinality({j \in Jobs : pc[j] = "returned"})
        /\ tally["submitted"] + Cardinality({j \in Jobs : pc[j] = "error" /\ fut[j] = "finished"})
             = tally["succeeded"] + tally["failed"] + tally["cancelled"]

\* A late result is handed to abandon_result exactly when its coroutine did not
\* take it: never both, and not for a call that failed.
OneOwner ==
    \A j \in Jobs : dispose[j] = "disposed" =>
        waiter[j] = "cancelled" /\ outcome[j] = "succeeded"

\* Every call keeps what it was given until it has ended, and is given nothing
\* twice: its permit, its bytes, its result (_work.py:266, :312, :354).
CallsOwned == TypeOK /\ PermitsConserved /\ BudgetCoversRunning /\ OneOwner

\* The counter that admission weighs a call against, and those that
\* monitoring reads, agree with the calls at every moment, and with each other
\* when all has settled (_work.py:278, :322, :363).
CountersExact == BytesConserved /\ Counted /\ CountersSettle

\* No successful result of a cancelled coroutine is dropped.
LateResultDisposed ==
    \A j \in AsyncJobs :
        waiter[j] = "cancelled" /\ outcome[j] = "succeeded" ~> dispose[j] = "disposed"

\* Every admitted call gives its permit back.
PermitReturned == \A j \in Jobs : HoldsPermit(j) ~> ~HoldsPermit(j)

\* close(wait = True) returns.
CloseReturns == closer = "marked" ~> closer = "closed"

\* Nothing is stuck: not a late result, not a permit, not the thread that
\* closes the pool (_work.py:359, :329, :391).
PoolSettles == LateResultDisposed /\ PermitReturned /\ CloseReturns

\* The pool implements exact admission: a call is turned away for capacity only
\* while every permit is held, and no call is admitted twice.
Returned == {j \in Jobs : \/ pc[j] \in {"overbudget", "backedOut", "error"}
                          \/ pc[j] \in {"tracked", "returned"} /\ cb[j] = "done"}
Abstract == INSTANCE Admission WITH held <- Holders, refused <- Saturated, gone <- Returned
ExactAdmission == Abstract!Spec
=============================================================================
