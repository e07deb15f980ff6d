------------------------------ MODULE Supervisor ------------------------------
(***************************************************************************)
(* servery's multi-process supervisor (_supervisor.py): serve() on the     *)
(* main thread, shutdown() called by another thread, SIGTERM, the death of *)
(* the supervisor process, and the worker processes of one generation.     *)
(*                                                                         *)
(*   main        serve(): spawn, await (readiness), commit, then peek,     *)
(*               nap and scan in wait(), and at last shutdown              *)
(*   phase[t]    shutdown() on the main thread and on another one          *)
(*   child[w]    a worker process; sees commit, stop and the loss of its   *)
(*               control pipe, reports on its status pipe                  *)
(* Deadlines (readiness, drain, force, final reap) may pass at any moment. *)
(* Processes, pipes, signals and threading.Event are the standard          *)
(* library's, and so are the multiprocessing events: an event that a       *)
(* process dies inside is jammed, its lock or its count of sleepers gone,  *)
(* and whoever sets or waits for it afterwards does so forever.            *)
(***************************************************************************)
EXTENDS Integers, Sequences, FiniteSets

CONSTANTS Workers,       \* 1 .. config.workers, spawned in this order
          Stubborn       \* workers that may hang instead of starting or stopping

ASSUME WorkersAssumption == Workers \in Nat \ {0, 1} /\ Stubborn \subseteq 1 .. Workers

Generation == 1 .. Workers
Callers == {"main", "other"}

VARIABLES main, phase,
          dead,        \* the supervisor process has died
          lock,        \* owner of _lifecycle_lock
          requested,   \* _shutdown_requested
          sigterm,     \* none, pending, or stuck in its handler
          stopped,     \* _stopped
          failed,      \* start() raised
          listening,   \* the parent's listener is open
          spawned,     \* how many workers have been started
          child,
          pipe,        \* unread status reports of each worker
          prepared, ready, committed,   \* what the parent has recorded
          commit, stop, controlled,     \* workers with commit set, stop set, control pipe open
          signal,      \* the signal sent to each worker's process group
          jammed       \* the events inside which a process has died

serveVars  == <<main, failed, listening, spawned>>
parentVars == <<prepared, ready, committed>>
ctlVars    == <<commit, stop, controlled, signal>>
workerVars == <<child, pipe, jammed>>
vars == <<serveVars, phase, dead, lock, requested, sigterm, stopped, workerVars, parentVars, ctlVars>>

Init ==
    /\ main = "spawn"
    /\ phase = [t \in Callers |-> "idle"]
    /\ dead = FALSE
    /\ lock = "main"                \* start() has taken it
    /\ requested = FALSE /\ sigterm = "none" /\ stopped = FALSE
    /\ failed = FALSE /\ listening = TRUE
    /\ spawned = 0
    /\ child = [w \in Generation |-> "unborn"]
    /\ pipe = [w \in Generation |-> <<>>]
    /\ prepared = {} /\ ready = {} /\ committed = FALSE
    /\ commit = {} /\ stop = {} /\ controlled = {}
    /\ signal = [w \in Generation |-> "none"]
    /\ jammed = {}

Gone(w) == child[w] \in {"unborn", "exited"}
Running == ~dead /\ sigterm # "stuck"

-----------------------------------------------------------------------------
(* serve(): start() on the main thread, holding the lifecycle lock.        *)

At(label) == ~dead /\ sigterm # "stuck" /\ main = label

Spawn ==
    /\ At("spawn")
    /\ ~requested
    /\ spawned < Workers
    /\ spawned' = spawned + 1
    /\ child' = [child EXCEPT ![spawned + 1] = "booting"]
    /\ controlled' = controlled \cup {spawned + 1}
    /\ UNCHANGED <<main, failed, listening, phase, dead, lock, requested, sigterm, stopped,
                   pipe, jammed, parentVars, commit, stop, signal>>

SpawnedAll ==
    /\ At("spawn")
    /\ spawned = Workers
    /\ main' = "await"
    /\ UNCHANGED <<failed, listening, spawned, phase, dead, lock, requested, sigterm, stopped,
                   workerVars, parentVars, ctlVars>>

\* start() gives up: it calls shutdown() with the lock held and raises.  The
\* call that serve() makes in its finally then finds everything stopped.
GiveUp ==
    /\ main' = "shutdown"
    /\ failed' = TRUE
    /\ requested' = TRUE
    /\ phase' = [phase EXCEPT !["main"] = "enter"]
    /\ UNCHANGED <<listening, spawned, dead, lock, sigterm, stopped, workerVars, parentVars, ctlVars>>

\* A shutdown request is seen between two spawns or while awaiting readiness;
\* Process.start may raise, and so does Ctrl-C.
StartCancelled == (At("spawn") \/ At("await")) /\ requested /\ GiveUp
StartRaises == (At("spawn") \/ At("await") \/ At("commit")) /\ GiveUp

Pending == Generation \ ready

\* A worker exits or closes its pipe without having become ready, or reports
\* an error.
WorkerLost ==
    /\ At("await")
    /\ \E w \in Pending : \/ pipe[w] = <<>> /\ child[w] = "exited"
                          \/ pipe[w] # <<>> /\ Head(pipe[w]) = "error"
    /\ GiveUp

\* The readiness deadline.
StartTimeout == At("await") /\ Pending # {} /\ GiveUp

NotePrepared(w) ==
    /\ At("await")
    /\ w \in Pending /\ pipe[w] # <<>> /\ Head(pipe[w]) = "prepared"
    /\ ~committed
    /\ prepared' = prepared \cup {w}
    /\ pipe' = [pipe EXCEPT ![w] = Tail(@)]
    /\ UNCHANGED <<serveVars, phase, dead, lock, requested, sigterm, stopped, child, jammed,
                   ready, committed, ctlVars>>

\* Mutant: commit goes out with the first prepared worker.
DecideEarly ==
    /\ At("await")
    /\ ~committed /\ prepared # {}
    /\ committed' = TRUE
    /\ main' = "commit"
    /\ UNCHANGED <<failed, listening, spawned, phase, dead, lock, requested, sigterm, stopped,
                   workerVars, prepared, ready, ctlVars>>

\* The whole quorum is prepared: commit is broadcast, one event at a time.
Decide ==
    /\ At("await")
    /\ ~committed /\ prepared = Generation
    /\ committed' = TRUE
    /\ main' = "commit"
    /\ UNCHANGED <<failed, listening, spawned, phase, dead, lock, requested, sigterm, stopped,
                   workerVars, prepared, ready, ctlVars>>

\* The first of the workers whose event is to be set next.
First(these) == {w \in these : \A v \in these : w <= v}
ToCommit == First(Generation \ commit)
ToStop == First((1 .. spawned) \ stop)

\* set() returns unless the event is jammed: then the worker that is counted as
\* asleep never wakes up, or its lock is never given back.
CommitOne ==
    /\ At("commit")
    /\ \E w \in ToCommit : <<"commit", w>> \notin jammed /\ commit' = commit \cup {w}
    /\ UNCHANGED <<serveVars, phase, dead, lock, requested, sigterm, stopped, workerVars,
                   parentVars, stop, controlled, signal>>

CommitDone ==
    /\ At("commit")
    /\ commit = Generation
    /\ main' = "await"
    /\ UNCHANGED <<failed, listening, spawned, phase, dead, lock, requested, sigterm, stopped,
                   workerVars, parentVars, ctlVars>>

NoteReady(w) ==
    /\ At("await")
    /\ w \in Pending /\ pipe[w] # <<>> /\ Head(pipe[w]) = "ready"
    /\ committed
    /\ ready' = ready \cup {w}
    /\ pipe' = [pipe EXCEPT ![w] = Tail(@)]
    /\ UNCHANGED <<serveVars, phase, dead, lock, requested, sigterm, stopped, child, jammed,
                   prepared, committed, ctlVars>>

\* start() returns once every worker is ready, and releases the lock.
StartReturns ==
    /\ At("await")
    /\ Pending = {}
    /\ main' = "peek"
    /\ lock' = "free"
    /\ UNCHANGED <<failed, listening, spawned, phase, dead, requested, sigterm, stopped,
                   workerVars, parentVars, ctlVars>>

-----------------------------------------------------------------------------
(* wait(): _shutdown_requested.wait(0.1), then a look at the exit codes.   *)

\* Inside Event.wait, with the event's internal lock held, before or after the
\* timed sleep.
EnterWait ==
    /\ At("peek")
    /\ main' = "nap"
    /\ UNCHANGED <<failed, listening, spawned, phase, dead, lock, requested, sigterm, stopped,
                   workerVars, parentVars, ctlVars>>

LeaveWait ==
    /\ At("nap")
    /\ main' = IF requested THEN "stop" ELSE "scan"
    /\ UNCHANGED <<failed, listening, spawned, phase, dead, lock, requested, sigterm, stopped,
                   workerVars, parentVars, ctlVars>>

\* Under the lifecycle lock: any worker that is gone is an unexpected exit.
Scan ==
    /\ At("scan")
    /\ lock = "free"
    /\ main' = IF \E w \in Generation : Gone(w) THEN "stop" ELSE "peek"
    /\ UNCHANGED <<failed, listening, spawned, phase, dead, lock, requested, sigterm, stopped,
                   workerVars, parentVars, ctlVars>>

\* Ctrl-C ends wait().
Interrupt ==
    /\ At("nap") \/ At("scan")
    /\ main' = "stop"
    /\ UNCHANGED <<failed, listening, spawned, phase, dead, lock, requested, sigterm, stopped,
                   workerVars, parentVars, ctlVars>>

\* wait() returned or raised: serve() calls shutdown().
CallShutdown ==
    /\ At("stop")
    /\ main' = "shutdown"
    /\ requested' = TRUE
    /\ phase' = [phase EXCEPT !["main"] = "acquire"]
    /\ UNCHANGED <<failed, listening, spawned, dead, lock, sigterm, stopped, workerVars,
                   parentVars, ctlVars>>

Serve ==
    \/ Spawn \/ SpawnedAll \/ StartCancelled \/ StartRaises \/ WorkerLost \/ StartTimeout
    \/ \E w \in Generation : NotePrepared(w) \/ NoteReady(w)
    \/ Decide \/ CommitOne \/ CommitDone \/ StartReturns
    \/ EnterWait \/ LeaveWait \/ Scan \/ Interrupt \/ CallShutdown

-----------------------------------------------------------------------------
(* SIGTERM: the handler calls request_shutdown() on the main thread.       *)

Sigterm ==
    /\ ~dead /\ sigterm = "none" /\ main # "shutdown"
    /\ sigterm' = "pending"
    /\ UNCHANGED <<serveVars, phase, dead, lock, requested, stopped, workerVars, parentVars, ctlVars>>

\* The handler sets the event, unless it interrupts Event.wait with the
\* event's lock held, a lock that is not re-entrant: then the main thread
\* waits for itself.
RequestShutdown ==
    /\ ~dead /\ sigterm = "pending"
    /\ \E blocks \in {FALSE, main = "nap"} :
          /\ sigterm' = IF blocks THEN "stuck" ELSE "handled"
          /\ requested' = (requested \/ ~blocks)
    /\ UNCHANGED <<serveVars, phase, dead, lock, stopped, workerVars, parentVars, ctlVars>>

-----------------------------------------------------------------------------
(* shutdown(), by t.                                                       *)

In(t, label) == ~dead /\ phase[t] = label
Move(t, label) == phase' = [phase EXCEPT ![t] = label]

\* Another thread calls shutdown(): the event first, then the lock.
OtherCalls ==
    /\ Running /\ phase["other"] = "idle"
    /\ requested' = TRUE
    /\ Move("other", "acquire")
    /\ UNCHANGED <<serveVars, dead, lock, sigterm, stopped, workerVars, parentVars, ctlVars>>

Acquire(t) ==
    /\ In(t, "acquire")
    /\ lock = "free"
    /\ lock' = t
    /\ Move(t, "enter")
    /\ UNCHANGED <<serveVars, dead, requested, sigterm, stopped, workerVars, parentVars, ctlVars>>

AlreadyStopped(t) ==
    /\ In(t, "enter")
    /\ stopped
    /\ Move(t, "returned")
    /\ lock' = "free"
    /\ UNCHANGED <<serveVars, dead, requested, sigterm, stopped, workerVars, parentVars, ctlVars>>

\* The listener is closed; then, worker by worker, the control pipe is closed
\* and the stop event set.
StopWorkers(t) ==
    /\ In(t, "enter")
    /\ ~stopped
    /\ stopped' = TRUE
    /\ listening' = FALSE
    /\ Move(t, IF spawned = 0 THEN "drain" ELSE "stop")
    /\ UNCHANGED <<main, failed, spawned, dead, lock, requested, sigterm, workerVars,
                   parentVars, ctlVars>>

StopOne(t) ==
    /\ In(t, "stop")
    /\ \E w \in ToStop :
          /\ <<"stop", w>> \notin jammed
          /\ controlled' = controlled \ {w}
          /\ stop' = stop \cup {w}
          /\ Move(t, IF w = spawned THEN "drain" ELSE "stop")
    /\ UNCHANGED <<serveVars, dead, lock, requested, sigterm, stopped, workerVars,
                   parentVars, commit, signal>>

\* The event that is being set; and one whose set() never returns, while the
\* lifecycle lock is held.
Setting ==
    (IF main = "commit" THEN {"commit"} \X ToCommit ELSE {})
      \cup (IF \E t \in Callers : phase[t] = "stop" THEN {"stop"} \X ToStop ELSE {})
Stuck == Setting \cap jammed # {}

Alive == {w \in Generation : ~Gone(w)}
Signalled(kind) == [w \in Generation |-> IF w \in Alive THEN kind ELSE signal[w]]

\* Each join ends early when nobody is alive, otherwise at its deadline, and
\* then the next signal goes to the survivors.
Escalate(t, from, to, kind) ==
    /\ In(t, from)
    /\ Move(t, to)
    /\ signal' = Signalled(kind)
    /\ UNCHANGED <<serveVars, dead, lock, requested, sigterm, stopped, workerVars,
                   parentVars, commit, stop, controlled>>

DrainOver(t) == Escalate(t, "drain", "force", "term")
ForceOver(t) == Escalate(t, "force", "reap", "kill")

\* After the final deadline shutdown() returns, or raises if a worker survived.
ReapOver(t) ==
    /\ In(t, "reap")
    /\ Move(t, IF Alive = {} THEN "returned" ELSE "raised")
    /\ lock' = "free"
    /\ UNCHANGED <<serveVars, dead, requested, sigterm, stopped, workerVars, parentVars, ctlVars>>

Shutdown(t) ==
    \/ Acquire(t) \/ AlreadyStopped(t) \/ StopWorkers(t) \/ StopOne(t)
    \/ DrainOver(t) \/ ForceOver(t) \/ ReapOver(t)

\* The supervisor process is killed, inside an event perhaps: its ends of all
\* pipes close, and what it knew is gone; the events are shared memory.
Die ==
    /\ ~dead
    /\ dead' = TRUE
    /\ jammed' \in {jammed} \cup {jammed \cup {event} : event \in Setting}
    /\ controlled' = {} /\ listening' = FALSE
    /\ pipe' = [w \in Generation |-> <<>>]
    /\ main' = "killed" /\ phase' = [t \in Callers |-> "idle"]
    /\ lock' = "free" /\ requested' = FALSE /\ sigterm' = "none" /\ stopped' = FALSE /\ failed' = FALSE
    /\ UNCHANGED <<spawned, child, parentVars, commit, stop, signal>>

-----------------------------------------------------------------------------
(* A worker process.                                                       *)

Become(w, state) == child' = [child EXCEPT ![w] = state]
Report(w, kind) == pipe' = [pipe EXCEPT ![w] = IF dead THEN @ ELSE Append(@, kind)]
parent == <<serveVars, phase, dead, lock, requested, sigterm, stopped, parentVars, ctlVars>>
beside == <<parent, jammed>>

StopSeen(w) == w \in stop \/ w \notin controlled

\* The events that the thread of _wait_for_commit and of _shutdown_requested
\* sleeps in or locks; an application's server starts it before it has booted.
Polled(w) ==
    CASE child[w] \in {"booting", "prepared"} -> {"commit", "stop"}
      [] child[w] = "serving"                 -> {"stop"}
      [] OTHER                                -> {}

\* Its polls return.
Polls(w) == \A event \in Polled(w) : <<event, w>> \notin jammed

\* The process ends with that thread wherever it is.  Of the events only those
\* make a difference that the supervisor may still set: commit is not set for a
\* generation of which a worker died before it was prepared.
ToSet(w) ==
    {event \in {"commit", "stop"} :
        /\ ~dead
        /\ event = "commit" => child[w] = "prepared" /\ w \notin commit /\ ~failed
        /\ event = "stop" => w \notin stop}
Dies(w) ==
    /\ Become(w, "exited")
    /\ jammed' \in {jammed} \cup {jammed \cup {<<event, w>>} : event \in Polled(w) \cap ToSet(w)}

\* The application is loaded and the listener adopted.
Prepare(w) ==
    /\ child[w] = "booting"
    /\ Become(w, "prepared")
    /\ Report(w, "prepared")
    /\ UNCHANGED beside

BootFails(w) ==
    /\ child[w] = "booting"
    /\ Dies(w)
    /\ Report(w, "error")
    /\ UNCHANGED parent

\* _wait_for_commit is true: the worker reports ready and starts to accept.
SeeCommit(w) ==
    /\ child[w] = "prepared"
    /\ Polls(w) /\ w \in commit /\ ~StopSeen(w)
    /\ Become(w, "serving")
    /\ Report(w, "ready")
    /\ UNCHANGED beside

\* _wait_for_commit is false: stop or the loss of the supervisor came first.
RollBack(w) ==
    /\ child[w] = "prepared"
    /\ Polls(w) /\ StopSeen(w)
    /\ Become(w, "exited")
    /\ UNCHANGED <<beside, pipe>>

StartDraining(w) ==
    /\ child[w] = "serving"
    /\ Polls(w) /\ StopSeen(w)
    /\ Become(w, "draining")
    /\ UNCHANGED <<beside, pipe>>

Drained(w) ==
    /\ child[w] = "draining"
    /\ Become(w, "exited")
    /\ UNCHANGED <<beside, pipe>>

\* A worker may crash, and a signalled one dies.
Crash(w) ==
    /\ ~Gone(w)
    /\ Dies(w)
    /\ UNCHANGED <<parent, pipe>>

Worker(w) ==
    \/ Prepare(w) \/ BootFails(w) \/ SeeCommit(w) \/ RollBack(w)
    \/ StartDraining(w) \/ Drained(w)

-----------------------------------------------------------------------------
Terminated ==
    /\ dead \/ phase["main"] \in {"returned", "raised"}
    /\ dead \/ phase["other"] \notin {"acquire", "enter", "stop", "drain", "force", "reap"}
    /\ \A w \in Generation : Gone(w)
    /\ UNCHANGED vars

Next ==
    \/ Serve
    \/ Sigterm \/ RequestShutdown
    \/ OtherCalls \/ \E t \in Callers : Shutdown(t)
    \/ Die
    \/ \E w \in Generation : Worker(w) \/ Crash(w)
    \/ Terminated

Spec == Init /\ [][Next]_vars

\* The supervisor's threads run and deadlines pass.  A worker that is not
\* stubborn boots, notices what it polls and drains; any worker dies of a
\* signal.  Nobody is obliged to crash or to ask for a shutdown.
FairSpec ==
    /\ Spec
    /\ WF_vars(Serve)
    /\ WF_vars(RequestShutdown)
    /\ \A t \in Callers : WF_vars(Shutdown(t))
    /\ \A w \in Generation \ Stubborn : WF_vars(Worker(w))
    /\ \A w \in Stubborn : WF_vars(signal[w] # "none" /\ Crash(w))

-----------------------------------------------------------------------------
(* Properties.                                                             *)

\* No worker accepts a connection before every worker of the generation has
\* been prepared: a generation that cannot start never serves.  start() returns
\* only with the whole generation ready, and after it raised (or shutdown()
\* returned) no worker of the generation is left, unless that is reported: no
\* process is spawned behind a shutdown's back.
GenerationWhole ==
    /\ \A w \in Generation : child[w] \in {"serving", "draining"} => prepared = Generation
    /\ main \in {"peek", "nap", "scan"} => ready = Generation /\ ~failed
    /\ (\E t \in Callers : phase[t] = "returned") /\ (\A t \in Callers : phase[t] # "raised")
         => Alive = {} /\ ~listening
    /\ spawned \in 0 .. Workers

\* shutdown() returns within its deadlines, whatever the workers do, unless one
\* of them died inside the event that is set for it; and workers outlive neither
\* a shutdown nor, unless they hang, their supervisor: they notice the loss of
\* the control pipe before and after commit, unless the supervisor died inside
\* the event that they poll.
ShutdownEnds ==
    /\ \A t \in Callers : phase[t] = "acquire" ~> phase[t] \in {"returned", "raised"} \/ dead \/ Stuck
    /\ \A w \in Generation \ Stubborn : dead ~> Gone(w) \/ ~Polls(w)
    /\ \A w \in Generation : signal[w] # "none" ~> Gone(w)
=============================================================================
