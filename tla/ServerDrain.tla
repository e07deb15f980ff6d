------------------------------ MODULE ServerDrain ------------------------------
(***************************************************************************)
(* servery's threaded HTTP server (server.py, and the connection loop of   *)
(* handler.py): admission of connections, their handlers, and the drain    *)
(* that shutdown() and server_close() run.  Every section under            *)
(* _drain_condition is one step; so is each semaphore operation, each      *)
(* hand-over to a thread and each close of a socket.                       *)
(*                                                                         *)
(* Threads and where they stand:                                           *)
(*   stage[r]    the accepting thread in process_request(r); it is in at   *)
(*               most one call at a time                                   *)
(*   handler[r]  the thread that serves connection r                       *)
(*   at[d]       the threads in shutdown() and in server_close()           *)
(* With Pooled the handlers run on a ThreadPoolExecutor behind _slots,     *)
(* otherwise on a thread of their own (max_workers unset).  ThreadPool-    *)
(* Executor, Thread and socketserver are the standard library's.           *)
(***************************************************************************)
EXTENDS Integers, FiniteSets

CONSTANTS Conns,           \* connections that clients may open
          H2Conns,         \* those that speak HTTP/2
          MaxConnections,  \* config.max_connections
          MaxWorkers,      \* config.max_workers, in pooled mode
          SlotsPerWorker   \* 4 in the code

ASSUME ConnsAssumption == IsFiniteSet(Conns) /\ H2Conns \subseteq Conns
ASSUME LimitAssumption ==
    MaxConnections \in Nat \ {0} /\ MaxWorkers \in Nat \ {0} /\ SlotsPerWorker \in Nat \ {0}

SlotCapacity == MaxWorkers * SlotsPerWorker
Drainers == {"shutdown", "close"}

VARIABLES pooled,       \* whether max_workers is set; never changes
          stage, handler,
          loop,         \* serve_forever: running, stopping or exited
          open,         \* accepted sockets that are not closed yet
          connections,  \* the value of the _connections semaphore
          slots,        \* the value of the _slots semaphore
          permits,      \* _connection_permits
          active,       \* _active_sockets
          hooks,        \* the keys of _connection_drainers
          notices,      \* _notify_drainer calls made for each connection
          threads,      \* executor threads started
          draining,     \* _drain_event
          deadline,     \* _drain_deadline: unset, running or passed
          at, toNotify, toClose   \* the callers of begin_draining

callVars  == <<stage, handler>>
semVars   == <<connections, slots>>
regVars   == <<permits, active, hooks>>
drainVars == <<draining, deadline, at, toNotify, toClose>>
vars == <<pooled, callVars, loop, open, semVars, regVars, notices, threads, drainVars>>

Init ==
    /\ pooled \in BOOLEAN
    /\ stage = [r \in Conns |-> "pending"]
    /\ handler = [r \in Conns |-> "none"]
    /\ loop = "running"
    /\ open = {}
    /\ connections = MaxConnections
    /\ slots = SlotCapacity
    /\ permits = {} /\ active = {} /\ hooks = {}
    /\ notices = [r \in Conns |-> 0]
    /\ threads = 0
    /\ draining = FALSE
    /\ deadline = "unset"
    /\ at = [d \in Drainers |-> "idle"]
    /\ toNotify = [d \in Drainers |-> {}]
    /\ toClose = [d \in Drainers |-> {}]

Goto(r, label) == stage' = [stage EXCEPT ![r] = label]
Run(r, label) == handler' = [handler EXCEPT ![r] = label]

-----------------------------------------------------------------------------
(* The accepting thread: serve_forever and process_request.                *)

Resting == {"pending", "handed", "turnedAway"}

Accept(r) ==
    /\ loop = "running"
    /\ \A s \in Conns : stage[s] \in Resting
    /\ stage[r] = "pending"
    /\ open' = open \cup {r}
    /\ Goto(r, "accepted")
    /\ UNCHANGED <<pooled, handler, loop, semVars, regVars, notices, threads, drainVars>>

AcquireConnection(r) ==
    /\ stage[r] = "accepted"
    /\ connections > 0
    /\ connections' = connections - 1
    /\ Goto(r, "enroll")
    /\ UNCHANGED <<pooled, handler, loop, open, slots, regVars, notices, threads, drainVars>>

RefuseOverLimit(r) ==
    /\ stage[r] = "accepted"
    /\ connections = 0
    /\ Goto(r, "close")
    /\ UNCHANGED <<pooled, handler, loop, open, semVars, regVars, notices, threads, drainVars>>

\* The permit gets its owner; the socket is admitted unless the drain has begun.
Enroll(r) ==
    /\ stage[r] = "enroll"
    /\ permits' = permits \cup {r}
    /\ active' = IF draining THEN active ELSE active \cup {r}
    /\ Goto(r, IF draining THEN "withdraw" ELSE "dispatch")
    /\ UNCHANGED <<pooled, handler, loop, open, semVars, hooks, notices, threads, drainVars>>

AcquireSlot(r) ==
    /\ pooled
    /\ stage[r] = "dispatch"
    /\ slots > 0
    /\ slots' = slots - 1
    /\ Goto(r, "submit")
    /\ UNCHANGED <<pooled, handler, loop, open, connections, regVars, notices, threads, drainVars>>

RefuseQueueFull(r) ==
    /\ pooled
    /\ stage[r] = "dispatch"
    /\ slots = 0
    /\ Goto(r, "withdraw")
    /\ UNCHANGED <<pooled, handler, loop, open, semVars, regVars, notices, threads, drainVars>>

\* Pool threads that serve a connection.
Busy == {r \in Conns : handler[r] \notin {"none", "queued", "cancelled", "done"}}

\* executor.submit queues the call and starts a thread if it wants another.
Submit(r) ==
    /\ stage[r] = "submit"
    /\ Run(r, "queued")
    /\ Goto(r, "handed")
    /\ \/ /\ threads = MaxWorkers \/ Cardinality(Busy) < threads
          /\ UNCHANGED threads
       \/ /\ threads < MaxWorkers
          /\ threads' = threads + 1
    /\ UNCHANGED <<pooled, loop, open, semVars, regVars, notices, drainVars>>

\* The thread cannot be started: submit raises RuntimeError, with the call
\* queued already.
SubmitFails(r) ==
    /\ stage[r] = "submit"
    /\ threads < MaxWorkers
    /\ Run(r, "queued")
    /\ Goto(r, "unslot")
    /\ UNCHANGED <<pooled, loop, open, semVars, regVars, notices, threads, drainVars>>

\* The rollback gives the slot back.  A release above the initial value of a
\* BoundedSemaphore raises, and the rest of the rollback is skipped.
ReturnSlot(r) ==
    /\ stage[r] = "unslot"
    /\ slots' = IF slots < SlotCapacity THEN slots + 1 ELSE slots
    /\ Goto(r, IF slots < SlotCapacity THEN "withdraw" ELSE "close")
    /\ UNCHANGED <<pooled, handler, loop, open, connections, regVars, notices, threads, drainVars>>

StartThread(r) ==
    /\ ~pooled
    /\ stage[r] = "dispatch"
    /\ Run(r, "begin")
    /\ Goto(r, "handed")
    /\ UNCHANGED <<pooled, loop, open, semVars, regVars, notices, threads, drainVars>>

StartThreadFails(r) ==
    /\ ~pooled
    /\ stage[r] = "dispatch"
    /\ Goto(r, "withdraw")
    /\ UNCHANGED <<pooled, handler, loop, open, semVars, regVars, notices, threads, drainVars>>

\* _finish_connection, its locked section: whoever removes r from the owners
\* of a permit releases it.
Deregister(r) ==
    /\ hooks' = hooks \ {r}
    /\ active' = active \ {r}
    /\ permits' = permits \ {r}

Withdraw(r) ==
    /\ stage[r] = "withdraw"
    /\ Deregister(r)
    /\ Goto(r, IF r \in permits THEN "release" ELSE "close")
    /\ UNCHANGED <<pooled, handler, loop, open, semVars, notices, threads, drainVars>>

WithdrawRelease(r) ==
    /\ stage[r] = "release"
    /\ connections' = connections + 1
    /\ Goto(r, "close")
    /\ UNCHANGED <<pooled, handler, loop, open, slots, regVars, notices, threads, drainVars>>

\* Every refusal ends in shutdown_request, called here or, after an exception,
\* by socketserver.
TurnAway(r) ==
    /\ stage[r] = "close"
    /\ open' = open \ {r}
    /\ Goto(r, "turnedAway")
    /\ UNCHANGED <<pooled, handler, loop, semVars, regVars, notices, threads, drainVars>>

Acceptor(r) ==
    \/ AcquireConnection(r) \/ RefuseOverLimit(r) \/ Enroll(r) \/ AcquireSlot(r)
    \/ RefuseQueueFull(r) \/ Submit(r) \/ SubmitFails(r) \/ ReturnSlot(r)
    \/ StartThread(r) \/ StartThreadFails(r) \/ Withdraw(r) \/ WithdrawRelease(r)
    \/ TurnAway(r)

\* serve_forever ends when shutdown() asks for it, or by KeyboardInterrupt.
LoopExit ==
    /\ loop \in {"running", "stopping"}
    /\ \A r \in Conns : stage[r] \in Resting
    /\ loop' = "exited"
    /\ UNCHANGED <<pooled, callVars, open, semVars, regVars, notices, threads, drainVars>>

-----------------------------------------------------------------------------
(* The handler of a connection.                                            *)

\* The request serves the connection: a pool thread takes it from the queue ...
TakeUp(r) ==
    /\ handler[r] = "queued"
    /\ Cardinality(Busy) < threads
    /\ Run(r, "begin")
    /\ UNCHANGED <<pooled, stage, loop, open, semVars, regVars, notices, threads, drainVars>>

\* ... and _handle_http1 returns at once if the drain has begun.
Begin(r) ==
    /\ handler[r] = "begin"
    /\ Run(r, IF r \in H2Conns THEN "register" ELSE IF draining THEN "close" ELSE "reading")
    /\ UNCHANGED <<pooled, stage, loop, open, semVars, regVars, notices, threads, drainVars>>

\* A request arrives, also while draining if the handler was waiting for one.
ReadRequest(r) ==
    /\ handler[r] = "reading"
    /\ r \in open
    /\ Run(r, "serving")
    /\ UNCHANGED <<pooled, stage, loop, open, semVars, regVars, notices, threads, drainVars>>

\* The response head announces "Connection: close" while draining; otherwise
\* the client decides.
Respond(r) ==
    /\ handler[r] = "serving"
    /\ \E keepAlive \in BOOLEAN :
          Run(r, IF keepAlive /\ ~draining THEN "between" ELSE "close")
    /\ UNCHANGED <<pooled, stage, loop, open, semVars, regVars, notices, threads, drainVars>>

\* The loop looks at is_draining before it waits for the next request.
NextRequest(r) ==
    /\ handler[r] = "between"
    /\ Run(r, IF draining THEN "close" ELSE "reading")
    /\ UNCHANGED <<pooled, stage, loop, open, semVars, regVars, notices, threads, drainVars>>

\* Mutant: a hook registered during the drain is not called.
RegisterTooLate(r) ==
    /\ handler[r] = "register"
    /\ hooks' = IF r \in active THEN hooks \cup {r} ELSE hooks
    /\ Run(r, "h2")
    /\ UNCHANGED <<pooled, stage, loop, open, semVars, permits, active, notices, threads, drainVars>>

\* register_connection_drainer: a hook that comes after the drain began is
\* called by its own thread.
Register(r) ==
    /\ handler[r] = "register"
    /\ hooks' = IF r \in active THEN hooks \cup {r} ELSE hooks
    /\ notices' = [notices EXCEPT ![r] = IF r \in active /\ draining THEN @ + 1 ELSE @]
    /\ Run(r, "h2")
    /\ UNCHANGED <<pooled, stage, loop, open, semVars, permits, active, threads, drainVars>>

\* The HTTP/2 loop ends, for whatever reason, and unregisters its hook.
Unregister(r) ==
    /\ handler[r] = "h2"
    /\ hooks' = hooks \ {r}
    /\ Run(r, "close")
    /\ UNCHANGED <<pooled, stage, loop, open, semVars, permits, active, notices, threads, drainVars>>

\* The peer hangs up, a timeout fires, the socket was closed, or the request
\* raises.
Abort(r) ==
    /\ handler[r] \in {"begin", "reading", "serving", "register"}
    /\ Run(r, "close")
    /\ UNCHANGED <<pooled, stage, loop, open, semVars, regVars, notices, threads, drainVars>>

\* shutdown_request, on the handler's thread.
CloseSocket(r) ==
    /\ handler[r] = "close"
    /\ open' = open \ {r}
    /\ Run(r, IF pooled THEN "unslot" ELSE "finish")
    /\ UNCHANGED <<pooled, stage, loop, semVars, regVars, notices, threads, drainVars>>

\* _slots.release(); one release too many raises and skips _finish_connection.
ReleaseSlot(r) ==
    /\ handler[r] = "unslot"
    /\ slots' = IF slots < SlotCapacity THEN slots + 1 ELSE slots
    /\ Run(r, IF slots < SlotCapacity THEN "finish" ELSE "done")
    /\ UNCHANGED <<pooled, stage, loop, open, connections, regVars, notices, threads, drainVars>>

\* Mutant: cleanup releases a permit whether or not r still owns one.
FinishBlindly(r) ==
    /\ handler[r] = "finish"
    /\ Deregister(r)
    /\ Run(r, "release")
    /\ UNCHANGED <<pooled, stage, loop, open, semVars, notices, threads, drainVars>>

Finish(r) ==
    /\ handler[r] = "finish"
    /\ Deregister(r)
    /\ Run(r, IF r \in permits THEN "release" ELSE "done")
    /\ UNCHANGED <<pooled, stage, loop, open, semVars, notices, threads, drainVars>>

ReleaseConnection(r) ==
    /\ handler[r] = "release"
    /\ connections' = connections + 1
    /\ Run(r, "done")
    /\ UNCHANGED <<pooled, stage, loop, open, slots, regVars, notices, threads, drainVars>>

Handler(r) ==
    \/ TakeUp(r) \/ Begin(r) \/ ReadRequest(r) \/ Respond(r) \/ NextRequest(r)
    \/ Register(r) \/ Unregister(r) \/ Abort(r) \/ CloseSocket(r) \/ ReleaseSlot(r)
    \/ Finish(r) \/ ReleaseConnection(r)

-----------------------------------------------------------------------------
(* shutdown() and server_close(): begin_draining, then _wait_for_drain.    *)

Step(d, label) == at' = [at EXCEPT ![d] = label]

\* server_close runs once serve_forever has ended.  Only the first caller finds
\* hooks to call and sets the deadline.
BeginDraining(d) ==
    /\ at[d] = "idle"
    /\ d = "close" => loop = "exited"
    /\ draining' = TRUE
    /\ deadline' = IF draining THEN deadline ELSE "running"
    /\ toNotify' = [toNotify EXCEPT ![d] = IF draining THEN {} ELSE hooks]
    /\ Step(d, "notify")
    /\ UNCHANGED <<pooled, callVars, loop, open, semVars, regVars, notices, threads, toClose>>

\* Each hook is called on a thread of its own.
Notify(d) ==
    /\ at[d] = "notify"
    /\ \E r \in toNotify[d] :
          /\ notices' = [notices EXCEPT ![r] = @ + 1]
          /\ toNotify' = [toNotify EXCEPT ![d] = @ \ {r}]
    /\ UNCHANGED <<pooled, callVars, loop, open, semVars, regVars, threads,
                   draining, deadline, at, toClose>>

\* shutdown() asks serve_forever to stop; server_close closes the listener.
StopAccepting(d) ==
    /\ at[d] = "notify"
    /\ toNotify[d] = {}
    /\ loop' = IF d = "shutdown" /\ loop = "running" THEN "stopping" ELSE loop
    /\ Step(d, "stop")
    /\ UNCHANGED <<pooled, callVars, open, semVars, regVars, notices, threads,
                   draining, deadline, toNotify, toClose>>

LoopStopped(d) ==
    /\ at[d] = "stop"
    /\ loop = "exited"
    /\ Step(d, "wait")
    /\ UNCHANGED <<pooled, callVars, loop, open, semVars, regVars, notices, threads,
                   draining, deadline, toNotify, toClose>>

\* The wait ends when no socket is active or at the deadline; what is active
\* then is to be closed.
Wait(d) ==
    /\ at[d] = "wait"
    /\ active = {} \/ deadline = "passed"
    /\ toClose' = [toClose EXCEPT ![d] = active]
    /\ Step(d, "force")
    /\ UNCHANGED <<pooled, callVars, loop, open, semVars, regVars, notices, threads,
                   draining, deadline, toNotify>>

ForceClose(d) ==
    /\ at[d] = "force"
    /\ \E r \in toClose[d] :
          /\ open' = open \ {r}
          /\ toClose' = [toClose EXCEPT ![d] = @ \ {r}]
    /\ UNCHANGED <<pooled, callVars, loop, semVars, regVars, notices, threads,
                   draining, deadline, at, toNotify>>

\* server_close then shuts the executor down without waiting; queued calls are
\* cancelled and never reach their cleanup.
Complete(d) ==
    /\ at[d] = "force"
    /\ toClose[d] = {}
    /\ Step(d, "done")
    /\ handler' = IF d = "close"
                  THEN [r \in Conns |-> IF handler[r] = "queued" THEN "cancelled" ELSE handler[r]]
                  ELSE handler
    /\ UNCHANGED <<pooled, stage, loop, open, semVars, regVars, notices, threads,
                   draining, deadline, toNotify, toClose>>

DrainThread(d) ==
    \/ BeginDraining(d) \/ Notify(d) \/ StopAccepting(d) \/ LoopStopped(d)
    \/ Wait(d) \/ ForceClose(d) \/ Complete(d)

Expire ==
    /\ deadline = "running"
    /\ deadline' = "passed"
    /\ UNCHANGED <<pooled, callVars, loop, open, semVars, regVars, notices, threads,
                   draining, at, toNotify, toClose>>

-----------------------------------------------------------------------------
Terminated ==
    /\ \A d \in Drainers : at[d] = "done"
    /\ \A r \in Conns : handler[r] \in {"none", "done", "cancelled"}
    /\ UNCHANGED vars

Next ==
    \/ \E r \in Conns : Accept(r) \/ Acceptor(r) \/ Handler(r)
    \/ LoopExit
    \/ \E d \in Drainers : DrainThread(d)
    \/ Expire
    \/ Terminated

Spec == Init /\ [][Next]_vars

\* The accepting thread and the two drain threads keep running, and time
\* passes.  No handler is obliged to move: an application may be stuck.
Progress ==
    \/ \E r \in Conns : Acceptor(r)
    \/ loop = "stopping" /\ LoopExit
    \/ \E d \in Drainers : at[d] # "idle" /\ DrainThread(d)
    \/ Expire

FairSpec == Spec /\ WF_vars(Progress)

-----------------------------------------------------------------------------
(* Properties.                                                             *)

Stages == {"pending", "accepted", "enroll", "dispatch", "submit", "unslot",
           "withdraw", "release", "close", "handed", "turnedAway"}
Handlers == {"none", "queued", "cancelled", "begin", "reading", "serving", "between",
             "register", "h2", "close", "unslot", "finish", "release", "done"}

\* Every variable keeps its type: in particular neither semaphore is released
\* above its initial value, and no more threads are started than allowed.
TypeOK ==
    /\ pooled \in BOOLEAN
    /\ stage \in [Conns -> Stages]
    /\ handler \in [Conns -> Handlers]
    /\ loop \in {"running", "stopping", "exited"}
    /\ open \in SUBSET Conns
    /\ connections \in 0 .. MaxConnections
    /\ slots \in 0 .. SlotCapacity
    /\ permits \in SUBSET Conns /\ active \in SUBSET Conns /\ hooks \in SUBSET Conns
    /\ notices \in [Conns -> Nat]
    /\ threads \in 0 .. MaxWorkers
    /\ draining \in BOOLEAN
    /\ deadline \in {"unset", "running", "passed"}
    /\ at \in [Drainers -> {"idle", "notify", "stop", "wait", "force", "done"}]
    /\ toNotify \in [Drainers -> SUBSET Conns]
    /\ toClose \in [Drainers -> SUBSET Conns]

\* The connections that own a max-connections permit: enrolled ones, and those
\* on their way into or out of the set of owners.
HoldsPermit(r) ==
    \/ stage[r] \in {"enroll", "release"}
    \/ r \in permits
    \/ handler[r] = "release"
PermitHolders == {r \in Conns : HoldsPermit(r)}

\* A connection permit is free or owned by one connection, across refusals,
\* failed submissions (whose handler may still run) and normal completion
\* (_connection_permits, server.py:72-75).
PermitsConserved == connections = MaxConnections - Cardinality(PermitHolders)

\* Every socket the process accepted is closed by the time shutdown() or
\* server_close() is done, whatever its handler is stuck in.
ClosedWhenStopped ==
    (\E d \in Drainers : at[d] = "done") => open = {}

\* Until the drain deadline no connection loses its socket under a handler that
\* has not decided to close it: admitted work may finish.
ServedWhileOpen ==
    \A r \in Conns :
        /\ deadline # "passed"
        /\ stage[r] = "handed"
        /\ handler[r] \in {"queued", "begin", "reading", "serving", "between", "register", "h2"}
        => r \in open

\* An HTTP/2 connection is told to drain at most once, although its hook may be
\* registered just before or just after the drain begins.
NotifiedOnce == \A r \in Conns : notices[r] <= 1

\* The drain is orderly at every moment: permits are neither leaked nor given
\* back twice, admitted work keeps its socket until the deadline and no socket
\* outlives the drain, and no hook is called twice (server.py:176, :233, :292).
DrainOrderly ==
    TypeOK /\ PermitsConserved /\ ClosedWhenStopped /\ ServedWhileOpen /\ NotifiedOnce

\* ... and it is told, unless it ends first.
DrainerNotified ==
    \A r \in Conns : draining /\ r \in hooks ~> notices[r] = 1 \/ r \notin hooks

\* shutdown() and server_close() return although handlers may be stuck.
DrainReturns == \A d \in Drainers : at[d] = "notify" ~> at[d] = "done"

\* The drain ends: every HTTP/2 connection hears of it, and the threads that
\* wait for it return (server.py:230, :284).
DrainSettles == DrainerNotified /\ DrainReturns
=============================================================================
