------------------------------ MODULE LaunchProofs ------------------------------
(***************************************************************************)
(* What a launch keeps, whatever is started, fails, is interrupted or dies *)
(* in between, for any number of workers, domains and archives.  The four  *)
(* parts of the state have an invariant each: the supervisor and its       *)
(* workers, the certificate, the leases, and what is open.  A step of the  *)
(* launch changes one part, and leaves the others alone.                   *)
(***************************************************************************)
EXTENDS Launch, FiniteSetTheorems, SequenceTheorems, TLAPS

-----------------------------------------------------------------------------
(* The supervisor                                                          *)

Phases == {"idle", "acquire", "enter", "stop", "drain", "force", "reap", "returned", "raised"}

\* A worker serves only when commit was broadcast, and that only when all of
\* the generation had reported that they are prepared.
CommitWhole ==
  /\ prepared \subseteq Generation /\ ready \subseteq Generation
  /\ committed => prepared = Generation
  /\ main = "commit" \/ commit # {} => committed
  /\ \A w \in Generation : child[w] \in {"serving", "draining"} => prepared = Generation

\* serve() is in wait() only after start() returned, and start() has not raised
\* before shutdown() is called.
StartedWhole ==
  /\ main \in {"peek", "nap", "scan"} => ready = Generation
  /\ failed => main = "shutdown"

\* shutdown() runs under the lifecycle lock, which start() holds till it ends;
\* and from the first call on, a shutdown is requested.
ShutdownLocked ==
  /\ phase \in [Callers -> Phases]
  /\ \A t \in Callers : phase[t] \in {"enter", "stop", "drain", "force", "reap"} => lock = t
  /\ main \in {"spawn", "await", "commit"} => lock = "main"
  /\ phase["main"] # "idle" => main = "shutdown"
  /\ \A t \in Callers : phase[t] # "idle" => requested

\* The first call stops the workers, and waits for them; who comes later finds
\* them stopped, and the first call over.
Stopping == {"stop", "drain", "force", "reap"}
Ended == {"returned", "raised"}
StoppedOnce ==
  /\ \A t \in Callers : phase[t] \in Stopping \cup Ended => stopped
  /\ stopped => ~listening /\ \E t \in Callers : phase[t] \in Stopping \cup Ended
  /\ (\E t \in Callers : phase[t] = "returned") /\ (\A t \in Callers : phase[t] # "raised")
       => Alive = {}

Children == {"unborn", "booting", "prepared", "serving", "draining", "exited"}

SupervisorInv ==
  /\ spawned \in 0 .. Workers /\ child \in [Generation -> Children]
  /\ CommitWhole /\ StartedWhole /\ ShutdownLocked /\ StoppedOnce

\* What serve() does before and after it waits, shutdown(), and the rest.
Starting ==
  \/ Spawn \/ SpawnedAll \/ StartCancelled \/ StartRaises \/ WorkerLost \/ StartTimeout
  \/ \E w \in Generation : NotePrepared(w) \/ NoteReady(w)
  \/ Decide \/ CommitOne \/ CommitDone \/ StartReturns
Waiting == EnterWait \/ LeaveWait \/ Scan \/ Interrupt \/ CallShutdown
Outer == Sigterm \/ RequestShutdown \/ OtherCalls \/ Die \/ Terminated

LEMMA SpawnedKept ==
  ASSUME SupervisorInv, Next
  PROVE  spawned' \in 0 .. Workers /\ child' \in [Generation -> Children]
  <1> USE DEF SupervisorInv, Generation, Children
  <1>1. CASE Starting
    BY <1>1, WorkersAssumption DEF Starting, Spawn, SpawnedAll, StartCancelled, StartRaises, WorkerLost,
       StartTimeout, GiveUp, NotePrepared, NoteReady, Decide, CommitOne, CommitDone, StartReturns,
       At, serveVars, workerVars
  <1>2. CASE Waiting
    BY <1>2 DEF Waiting, EnterWait, LeaveWait, Scan, Interrupt, CallShutdown, workerVars
  <1>3. CASE Outer
    BY <1>3 DEF Outer, Sigterm, RequestShutdown, OtherCalls, Die, Terminated, serveVars, workerVars, vars
  <1>4. ASSUME NEW t \in Callers, Shutdown(t) PROVE spawned' = spawned /\ child' = child
    BY <1>4 DEF Shutdown, Acquire, AlreadyStopped, StopWorkers, StopOne, DrainOver, ForceOver, ReapOver,
       Escalate, serveVars, workerVars
  <1>5. ASSUME NEW w \in Generation, Worker(w) \/ Crash(w) PROVE spawned' = spawned /\ child' \in [Generation -> Children]
    BY <1>5 DEF Worker, Prepare, BootFails, SeeCommit, RollBack, StartDraining, Drained, Crash, Dies, Become,
       beside, parent, serveVars
  <1> QED
    BY <1>1, <1>2, <1>3, <1>4, <1>5 DEF Next, Serve, Starting, Waiting, Outer

LEMMA CommitKept == ASSUME SupervisorInv, Next PROVE CommitWhole'
  <1> USE DEF SupervisorInv, CommitWhole
  <1>1. CASE Starting
    <2> USE DEF At, parentVars, ctlVars, workerVars, serveVars
    <2>1. CASE Spawn
      BY <2>1, WorkersAssumption DEF Spawn, Generation, Children
    <2>2. CASE SpawnedAll \/ CommitDone \/ StartReturns
      BY <2>2 DEF SpawnedAll, CommitDone, StartReturns
    <2>3. CASE GiveUp
      BY <2>3 DEF GiveUp
    <2>4. ASSUME NEW w \in Generation, NotePrepared(w) \/ NoteReady(w) PROVE CommitWhole'
      <3>1. /\ prepared' \in {prepared, prepared \cup {w}} /\ ready' \in {ready, ready \cup {w}}
            /\ UNCHANGED <<main, child, commit, committed>> /\ (committed => prepared' = prepared)
        BY <2>4 DEF NotePrepared, NoteReady
      <3>2. prepared = Generation => prepared' = Generation
        BY <3>1
      <3> QED BY <3>1, <3>2
    <2>5. CASE Decide
      BY <2>5 DEF Decide
    <2>6. CASE CommitOne
      BY <2>6 DEF CommitOne
    <2> QED
      BY <1>1, <2>1, <2>2, <2>3, <2>4, <2>5, <2>6
      DEF Starting, StartCancelled, StartRaises, WorkerLost, StartTimeout
  <1>2. CASE Waiting
    BY <1>2 DEF Waiting, EnterWait, LeaveWait, Scan, Interrupt, CallShutdown, parentVars, ctlVars, workerVars
  <1>3. CASE Outer
    BY <1>3 DEF Outer, Sigterm, RequestShutdown, OtherCalls, Die, Terminated, serveVars, workerVars,
       parentVars, ctlVars, vars
  <1>4. ASSUME NEW t \in Callers, Shutdown(t) PROVE CommitWhole'
    BY <1>4 DEF Shutdown, Acquire, AlreadyStopped, StopWorkers, StopOne, DrainOver, ForceOver, ReapOver,
       Escalate, serveVars, workerVars, parentVars, ctlVars
  <1>5. ASSUME NEW w \in Generation, Worker(w) \/ Crash(w) PROVE CommitWhole'
    BY <1>5 DEF Worker, Prepare, BootFails, SeeCommit, RollBack, StartDraining, Drained, Crash, Dies, Become,
       beside, parent, serveVars, parentVars, ctlVars, Children
  <1> QED
    BY <1>1, <1>2, <1>3, <1>4, <1>5 DEF Next, Serve, Starting, Waiting, Outer

LEMMA StartedKept == ASSUME SupervisorInv, Next PROVE StartedWhole'
  <1> USE DEF SupervisorInv, StartedWhole
  <1>1. CASE Starting
    <2> USE DEF At, parentVars, serveVars
    <2>1. CASE Spawn \/ SpawnedAll \/ Decide \/ CommitOne \/ CommitDone
      BY <2>1 DEF Spawn, SpawnedAll, Decide, CommitOne, CommitDone
    <2>2. CASE StartReturns
      BY <2>2 DEF StartReturns, Pending, CommitWhole
    <2>3. CASE GiveUp
      BY <2>3 DEF GiveUp
    <2>4. ASSUME NEW w \in Generation, NotePrepared(w) \/ NoteReady(w) PROVE StartedWhole'
      BY <2>4 DEF NotePrepared, NoteReady
    <2> QED
      BY <1>1, <2>1, <2>2, <2>3, <2>4
      DEF Starting, StartCancelled, StartRaises, WorkerLost, StartTimeout
  <1>2. CASE Waiting
    BY <1>2 DEF Waiting, EnterWait, LeaveWait, Scan, Interrupt, CallShutdown, parentVars, At
  <1>3. CASE Outer
    BY <1>3 DEF Outer, Sigterm, RequestShutdown, OtherCalls, Die, Terminated, serveVars, parentVars, vars
  <1>4. ASSUME NEW t \in Callers, Shutdown(t) PROVE StartedWhole'
    BY <1>4 DEF Shutdown, Acquire, AlreadyStopped, StopWorkers, StopOne, DrainOver, ForceOver, ReapOver,
       Escalate, serveVars, parentVars
  <1>5. ASSUME NEW w \in Generation, Worker(w) \/ Crash(w) PROVE StartedWhole'
    BY <1>5 DEF Worker, Prepare, BootFails, SeeCommit, RollBack, StartDraining, Drained, Crash, Dies,
       beside, parent, serveVars, parentVars
  <1> QED
    BY <1>1, <1>2, <1>3, <1>4, <1>5 DEF Next, Serve, Starting, Waiting, Outer

LEMMA LockedKept == ASSUME SupervisorInv, Next PROVE ShutdownLocked'
  <1> USE DEF SupervisorInv, ShutdownLocked, Callers, Phases
  <1>1. CASE Starting
    <2> USE DEF At, serveVars
    <2>1. CASE Spawn \/ SpawnedAll \/ Decide \/ CommitOne \/ CommitDone
      BY <2>1 DEF Spawn, SpawnedAll, Decide, CommitOne, CommitDone
    <2>2. CASE StartReturns
      BY <2>2 DEF StartReturns
    <2>3. ASSUME main \in {"spawn", "await", "commit"}, GiveUp PROVE ShutdownLocked'
      BY <2>3 DEF GiveUp
    <2>4. ASSUME NEW w \in Generation, NotePrepared(w) \/ NoteReady(w) PROVE ShutdownLocked'
      BY <2>4 DEF NotePrepared, NoteReady
    <2> QED
      BY <1>1, <2>1, <2>2, <2>3, <2>4
      DEF Starting, StartCancelled, StartRaises, WorkerLost, StartTimeout
  <1>2. CASE Waiting
    <2>1. CASE CallShutdown
      BY <2>1 DEF CallShutdown, At
    <2> QED BY <1>2, <2>1 DEF Waiting, EnterWait, LeaveWait, Scan, Interrupt, At
  <1>3. CASE Outer
    <2>1. CASE OtherCalls
      BY <2>1 DEF OtherCalls, Move, serveVars
    <2>2. CASE RequestShutdown
      <3>1. UNCHANGED <<phase, lock, main>> /\ (requested => requested')
        BY <2>2 DEF RequestShutdown, serveVars
      <3> QED BY <3>1
    <2>3. CASE Die
      BY <2>3 DEF Die
    <2> QED BY <1>3, <2>1, <2>2, <2>3 DEF Outer, Sigterm, Terminated, serveVars, vars
  <1>4. ASSUME NEW t \in Callers, Shutdown(t) PROVE ShutdownLocked'
    <2> USE DEF In, Move, serveVars
    <2>1. CASE Acquire(t)
      BY <2>1 DEF Acquire
    <2>2. CASE AlreadyStopped(t) \/ StopWorkers(t)
      BY <2>2 DEF AlreadyStopped, StopWorkers
    <2>5. CASE StopOne(t)
      <3>1. PICK next \in {"stop", "drain"} : phase' = [phase EXCEPT ![t] = next]
        BY <2>5 DEF StopOne
      <3>2. UNCHANGED <<lock, main, requested>> /\ phase[t] = "stop"
        BY <2>5 DEF StopOne
      <3> QED BY <3>1, <3>2
    <2>3. CASE DrainOver(t) \/ ForceOver(t)
      BY <2>3 DEF DrainOver, ForceOver, Escalate
    <2>4. CASE ReapOver(t)
      BY <2>4 DEF ReapOver
    <2> QED BY <1>4, <2>1, <2>2, <2>3, <2>4, <2>5 DEF Shutdown
  <1>5. ASSUME NEW w \in Generation, Worker(w) \/ Crash(w) PROVE ShutdownLocked'
    BY <1>5 DEF Worker, Prepare, BootFails, SeeCommit, RollBack, StartDraining, Drained, Crash, Dies,
       beside, parent, serveVars
  <1> QED
    BY <1>1, <1>2, <1>3, <1>4, <1>5 DEF Next, Serve, Starting, Waiting, Outer

\* Nobody is spawned behind a shutdown's back: from its first call on, the
\* processes that are alive only become fewer.
LEMMA FewerAlive ==
  ASSUME SupervisorInv, Next, NEW t \in Callers, phase[t] # "idle"
  PROVE  Alive' \subseteq Alive
  <1> USE DEF SupervisorInv, Alive, Gone, Children
  <1>0. requested
    BY DEF ShutdownLocked
  <1>1. CASE Starting
    BY <1>0, <1>1 DEF Starting, Spawn, SpawnedAll, StartCancelled, StartRaises, WorkerLost,
       StartTimeout, GiveUp, NotePrepared, NoteReady, Decide, CommitOne, CommitDone, StartReturns, workerVars
  <1>2. CASE Waiting
    BY <1>2 DEF Waiting, EnterWait, LeaveWait, Scan, Interrupt, CallShutdown, workerVars
  <1>3. CASE Outer
    BY <1>3 DEF Outer, Sigterm, RequestShutdown, OtherCalls, Die, Terminated, workerVars, vars
  <1>4. ASSUME NEW s \in Callers, Shutdown(s) PROVE child' = child
    BY <1>4 DEF Shutdown, Acquire, AlreadyStopped, StopWorkers, StopOne, DrainOver, ForceOver, ReapOver,
       Escalate, workerVars
  <1>5. ASSUME NEW w \in Generation, Worker(w) \/ Crash(w) PROVE Alive' \subseteq Alive
    BY <1>5 DEF Worker, Prepare, BootFails, SeeCommit, RollBack, StartDraining, Drained, Crash, Dies, Become
  <1> QED
    BY <1>1, <1>2, <1>3, <1>4, <1>5 DEF Next, Serve, Starting, Waiting, Outer

\* Who finds the workers stopped comes after the first call; and who returns
\* from it has seen that nobody is left.
LEMMA StoppedKept == ASSUME SupervisorInv, Next PROVE StoppedOnce'
  <1> USE DEF SupervisorInv, Stopping, Ended, Callers
  <1>a. ASSUME NEW t \in Callers, phase[t] = "returned" PROVE Alive' \subseteq Alive
    BY <1>a, FewerAlive
  <1>1. CASE Starting
    <2>1. phase' = phase \/ (phase["main"] \in {"idle", "enter"} /\ phase' = [phase EXCEPT !["main"] = "enter"])
      BY <1>1 DEF Starting, Spawn, SpawnedAll, StartCancelled, StartRaises, WorkerLost, StartTimeout, At,
         GiveUp, NotePrepared, NoteReady, Decide, CommitOne, CommitDone, StartReturns, ShutdownLocked, Phases
    <2>2. stopped' = stopped /\ listening' = listening
      BY <1>1 DEF Starting, Spawn, SpawnedAll, StartCancelled, StartRaises, WorkerLost, StartTimeout,
         GiveUp, NotePrepared, NoteReady, Decide, CommitOne, CommitDone, StartReturns, serveVars
    <2> QED BY <2>1, <2>2, <1>a DEF StoppedOnce, ShutdownLocked, Phases
  <1>2. CASE Waiting
    <2>1. phase' = phase \/ (phase["main"] = "idle" /\ phase' = [phase EXCEPT !["main"] = "acquire"])
      BY <1>2 DEF Waiting, EnterWait, LeaveWait, Scan, Interrupt, CallShutdown, At, ShutdownLocked, Phases
    <2>2. stopped' = stopped /\ listening' = listening
      BY <1>2 DEF Waiting, EnterWait, LeaveWait, Scan, Interrupt, CallShutdown
    <2> QED BY <2>1, <2>2, <1>a DEF StoppedOnce, ShutdownLocked, Phases
  <1>3. CASE Outer /\ ~Die
    <2>1. phase' = phase \/ (phase["other"] = "idle" /\ phase' = [phase EXCEPT !["other"] = "acquire"])
      BY <1>3 DEF Outer, Sigterm, RequestShutdown, OtherCalls, Terminated, Move, vars
    <2>2. stopped' = stopped /\ (~listening => ~listening')
      BY <1>3 DEF Outer, Sigterm, RequestShutdown, OtherCalls, Terminated, serveVars, vars
    <2> QED BY <2>1, <2>2, <1>a DEF StoppedOnce, ShutdownLocked, Phases
  <1>6. CASE Die
    BY <1>6 DEF Die, StoppedOnce
  <1>4. ASSUME NEW t \in Callers, Shutdown(t) PROVE StoppedOnce'
    <2> USE DEF In, Move, serveVars, StoppedOnce, ShutdownLocked, Phases
    <2>0. Alive' = Alive
      BY <1>4 DEF Shutdown, Acquire, AlreadyStopped, StopWorkers, StopOne, DrainOver, ForceOver, ReapOver,
         Escalate, workerVars, Alive, Gone
    <2>1. CASE Acquire(t)
      BY <2>0, <2>1 DEF Acquire
    <2>2. CASE AlreadyStopped(t)
      <3>1. PICK s \in Callers : phase[s] \in Ended
        BY <2>2 DEF AlreadyStopped
      <3>2. s # t /\ phase' = [phase EXCEPT ![t] = "returned"] /\ UNCHANGED <<stopped, listening>>
        BY <2>2, <3>1 DEF AlreadyStopped
      <3>3. phase'[s] \in Ended
        BY <3>1, <3>2
      <3>4. phase[s] = "returned" => Alive = {}
        BY <2>2, <3>1, <3>2 DEF AlreadyStopped
      <3> QED BY <2>0, <2>2, <3>1, <3>2, <3>3, <3>4 DEF AlreadyStopped
    <2>3. CASE StopWorkers(t)
      <3>1. \A s \in Callers : phase[s] \notin Stopping \cup Ended
        BY <2>3 DEF StopWorkers
      <3>2. PICK next \in {"stop", "drain"} : phase' = [phase EXCEPT ![t] = next]
        BY <2>3 DEF StopWorkers
      <3> QED BY <2>0, <2>3, <3>1, <3>2 DEF StopWorkers
    <2>4. CASE StopOne(t) \/ DrainOver(t) \/ ForceOver(t)
      <3>1. PICK next \in Stopping : phase' = [phase EXCEPT ![t] = next]
        BY <2>4 DEF StopOne, DrainOver, ForceOver, Escalate
      <3>2. UNCHANGED <<stopped, listening>> /\ phase[t] \in Stopping
        BY <2>4 DEF StopOne, DrainOver, ForceOver, Escalate
      <3> QED BY <2>0, <3>1, <3>2
    <2>5. CASE ReapOver(t)
      <3>1. UNCHANGED <<stopped, listening>> /\ phase[t] = "reap"
        BY <2>5 DEF ReapOver
      <3>2. CASE Alive = {}
        BY <2>0, <2>5, <3>1, <3>2 DEF ReapOver
      <3>3. CASE Alive # {}
        BY <2>0, <2>5, <3>1, <3>3 DEF ReapOver
      <3> QED BY <3>2, <3>3
    <2> QED BY <1>4, <2>1, <2>2, <2>3, <2>4, <2>5 DEF Shutdown
  <1>5. ASSUME NEW w \in Generation, Worker(w) \/ Crash(w) PROVE StoppedOnce'
    <2>1. UNCHANGED <<phase, stopped, listening>>
      BY <1>5 DEF Worker, Prepare, BootFails, SeeCommit, RollBack, StartDraining, Drained, Crash, Dies,
         beside, parent, serveVars
    <2> QED BY <2>1, <1>a DEF StoppedOnce
  <1> QED
    BY <1>1, <1>2, <1>3, <1>4, <1>5, <1>6 DEF Next, Serve, Starting, Waiting, Outer

LEMMA SupervisorStep == ASSUME SupervisorInv, Next PROVE SupervisorInv'
  <1> QED BY SpawnedKept, CommitKept, StartedKept, LockedKept, StoppedKept DEF SupervisorInv

LEMMA SupervisorStays == ASSUME SupervisorInv, UNCHANGED supervisorVars PROVE SupervisorInv'
  <1> QED
    BY DEF SupervisorInv, supervisorVars, vars, serveVars, parentVars, workerVars, ctlVars, CommitWhole,
       StartedWhole, ShutdownLocked, StoppedOnce, Alive, Gone

LEMMA SupervisorInit == ASSUME Init PROVE SupervisorInv
  <1> QED
    BY WorkersAssumption DEF Init, SupervisorInv, CommitWhole, StartedWhole, ShutdownLocked, StoppedOnce,
       Generation, Children, Callers, Phases, Stopping, Ended

LEMMA WholeGeneration == ASSUME SupervisorInv PROVE GenerationWhole
  <1> QED
    BY DEF SupervisorInv, GenerationWhole, CommitWhole, StartedWhole, ShutdownLocked, StoppedOnce, Ended

(* Of the supervisor by itself: no worker serves before the whole          *)
(* generation is prepared, start() returns only with all of it ready, and  *)
(* when shutdown() returned nobody is left, whoever called it, whatever    *)
(* was signalled, crashed or died in between (_supervisor.py:181-437).     *)
THEOREM WholeOrNothing == Spec => []GenerationWhole
  <1>1. SupervisorInv /\ [Next]_vars => SupervisorInv'
    BY SupervisorStep, SupervisorStays DEF supervisorVars
  <1> QED
    BY <1>1, SupervisorInit, WholeGeneration, PTL DEF Spec

-----------------------------------------------------------------------------
(* The certificate                                                         *)

Asking == Posts \cup {"directory"}
Validating == {"authz", "challenge", "pollAuthz"}

AcmeTyped ==
  /\ files \in [account : {Missing, Empty, 1}, chain : Int, key : Int, recent : BOOLEAN]
  /\ made \in [keys : {0, 1}, chains : 0 .. MaxIssues]
  /\ ca \in [accounts : SUBSET {1}, authz : [Domains -> {"none", "pending", "processing", "valid", "invalid"}],
             order : {"none", "pending", "processing", "valid", "invalid"}]

\* There is one account key at most, it is on the disk before the authority
\* hears of it, and it is never lost.
OneAccount ==
  /\ files.account = 1 <=> made.keys = 1
  /\ acme = "saveAccount" => files.account = Empty
  /\ acme \in Asking \cup {"listen"} => made.keys = 1
  /\ ca.accounts # {} => made.keys = 1

\* The pair on the disk is one pair, but while it is written, or after a start
\* has died over it.
OnePair ==
  /\ files.chain \in Empty .. made.chains /\ files.key \in Empty .. made.chains
  /\ ca.order = "valid" => made.chains < MaxIssues
  /\ acme = "download" => ca.order = "valid"
  /\ ~torn => files.chain = files.key /\ files.chain # Empty
  /\ acme = "saveChain" => made.chains > 0
  /\ acme = "saveKey" => made.chains > 0 /\ torn /\ files.chain = made.chains
  /\ acme = "done" => torn \/ (files.chain = files.key /\ files.chain > 0)

\* Only the authorization that is polled for can be under way, and its answer
\* is there.
OneChallenge ==
  /\ left \subseteq Domains
  /\ left # {} <=> acme \in Validating
  /\ httpd <=> acme \in Asking
  /\ ~httpd => tokens = {}
  /\ acme \in {"challenge", "pollAuthz"} => Current \in tokens
  /\ \A d \in left : ca.authz[d] = "processing" => d = Current /\ acme = "pollAuthz"

AcmeInv == AcmeTyped /\ OneAccount /\ OnePair /\ OneChallenge

\* What is done on the disk, what is asked, and what goes on elsewhere.
Disk == Reuse \/ NeedsOne \/ MakeAccount \/ SaveAccount \/ LoadAccount \/ SaveChain \/ SaveKey
Begins == Listening \/ Directory \/ NewNonce \/ BadNonce \/ PollLate
Asks == Register \/ Order \/ Authz \/ Challenge \/ PollAuthz \/ Finalize \/ PollOrder
AcmeStep == Obtain \/ Fails \/ Lost \/ PollLate \/ Authority

LEMMA AcmeSteps ==
  AcmeStep <=> Disk \/ Begins \/ Asks \/ Download \/ Fails \/ Lost \/ Authority
  <1> QED BY DEF AcmeStep, Obtain, Disk, Begins, Asks

LEMMA CurrentOne == left # {} => Current \in left
  <1> QED BY DEF Current

LEMMA CurrentSame == left' = left => Current' = Current
  <1> QED BY DEF Current

LEMMA TypedKept == ASSUME AcmeInv, AcmeStep PROVE AcmeTyped'
  <1> USE AcmeAssumption DEF AcmeInv, AcmeTyped, OnDisk
  <1>0. left # {} => Current \in Domains
    BY CurrentOne DEF OneChallenge
  <1>1. CASE Disk
    <2> USE DEF Missing, Empty
    <2>1. CASE SaveAccount
      <3>1. made.keys = 0
        BY <2>1 DEF SaveAccount, OneAccount
      <3>2. made' = [made EXCEPT !.keys = 1] /\ files' = [files EXCEPT !.account = 1] /\ ca' = ca
        BY <2>1, <3>1 DEF SaveAccount
      <3> QED BY <3>2
    <2>2. CASE MakeAccount
      BY <2>2 DEF MakeAccount
    <2>3. CASE SaveChain
      <3>1. made' = made /\ ca' = ca /\ made.chains \in Int
        BY <2>3 DEF SaveChain
      <3>2. CASE files' = [files EXCEPT !.chain = -1, !.recent = TRUE]
        <4> DEFINE emptied == [files EXCEPT !.chain = -1]
        <4>1. emptied \in [account : {Missing, Empty, 1}, chain : Int, key : Int, recent : BOOLEAN]
          OBVIOUS
        <4>2. files' = [emptied EXCEPT !.recent = TRUE]
          BY <3>2
        <4> QED BY <3>1, <4>1, <4>2
      <3>3. CASE files' = [files EXCEPT !.chain = made.chains]
        BY <3>1, <3>3
      <3> QED BY <2>3, <3>2, <3>3 DEF SaveChain
    <2>4. CASE SaveKey
      BY <2>4 DEF SaveKey
    <2> QED BY <1>1, <2>1, <2>2, <2>3, <2>4 DEF Disk, Reuse, NeedsOne, LoadAccount
  <1>2. CASE Begins \/ Fails
    BY <1>2 DEF Begins, Fails, Listening, Directory, NewNonce, BadNonce, PollLate
  <1>3. CASE Asks
    <2> USE DEF Answered
    <2>1. CASE Register \/ Order
      <3>1. made.keys = 1 /\ UNCHANGED OnDisk
        BY <2>1 DEF Register, Order, OneAccount, Asking, Posts
      <3>2. CASE Register
        BY <3>1, <3>2 DEF Register
      <3>3. CASE Order
        BY <3>1, <3>3 DEF Order
      <3> QED BY <2>1, <3>2, <3>3
    <2>2. CASE Authz \/ PollAuthz \/ PollOrder
      BY <2>2 DEF Authz, PollAuthz, PollOrder, PollAgain, Authorized
    <2>3. CASE Challenge
      BY <2>3, <1>0 DEF Challenge, OneChallenge, Validating
    <2>4. CASE Finalize
      BY <2>4 DEF Finalize
    <2> QED BY <1>3, <2>1, <2>2, <2>3, <2>4 DEF Asks
  <1>4. CASE Download
    BY <1>4 DEF Download, OnePair
  <1>5. CASE Lost
    BY <1>5, <1>0 DEF Lost, OneAccount, OneChallenge, Asking, Posts, Validating
  <1>6. CASE Authority
    <2>1. CASE Issue
      BY <2>1 DEF Issue
    <2>2. CASE Months
      BY <2>2 DEF Months
    <2>3. ASSUME NEW d \in Domains, Validate(d) PROVE AcmeTyped'
      <3>1. UNCHANGED <<files, torn, made>> /\ \E verdict \in {"invalid", "valid"} : ca' = [ca EXCEPT !.authz[d] = verdict]
        BY <2>3 DEF Validate
      <3> QED BY <3>1
    <2> QED BY <1>6, <2>1, <2>2, <2>3 DEF Authority
  <1> QED BY <1>1, <1>2, <1>3, <1>4, <1>5, <1>6, AcmeSteps

LEMMA AccountKept == ASSUME AcmeInv, AcmeStep PROVE OneAccount'
  <1> USE DEF AcmeInv, AcmeTyped, OneAccount, OnDisk, Flow
  <1>1. CASE Disk
    <2> USE DEF Missing, Empty, Asking, Posts
    <2>1. CASE SaveAccount
      BY <2>1 DEF SaveAccount
    <2>2. CASE MakeAccount
      BY <2>2 DEF MakeAccount
    <2>3. CASE SaveChain
      BY <2>3 DEF SaveChain
    <2>4. CASE SaveKey
      BY <2>4 DEF SaveKey
    <2>5. CASE LoadAccount
      BY <2>5 DEF LoadAccount
    <2>6. CASE Reuse \/ NeedsOne
      BY <2>6 DEF Reuse, NeedsOne
    <2> QED BY <1>1, <2>1, <2>2, <2>3, <2>4, <2>5, <2>6 DEF Disk
  <1>2. CASE Begins \/ Fails
    BY <1>2 DEF Begins, Fails, Listening, Directory, NewNonce, BadNonce, PollLate, Asking, Posts
  <1>3. CASE Asks
    <2> USE DEF Answered, Asking, Posts
    <2>1. CASE Register \/ Order
      BY <2>1 DEF Register, Order
    <2>2. CASE Authz \/ PollAuthz \/ PollOrder
      BY <2>2 DEF Authz, PollAuthz, PollOrder, PollAgain, Authorized
    <2>3. CASE Challenge \/ Finalize
      BY <2>3 DEF Challenge, Finalize
    <2> QED BY <1>3, <2>1, <2>2, <2>3 DEF Asks
  <1>4. CASE Download
    BY <1>4 DEF Download, Asking, Posts
  <1>5. CASE Lost
    BY <1>5 DEF Lost, Asking, Posts
  <1>6. CASE Authority
    BY <1>6 DEF Authority, Issue, Months, Validate
  <1> QED BY <1>1, <1>2, <1>3, <1>4, <1>5, <1>6, AcmeSteps

LEMMA PairKept == ASSUME AcmeInv, AcmeStep PROVE OnePair'
  <1> USE AcmeAssumption DEF AcmeInv, AcmeTyped, OnePair, OnDisk, Flow, Empty, Missing
  <1>1. CASE Disk
    <2> USE DEF Asking, Posts
    <2>1. CASE SaveAccount
      BY <2>1 DEF SaveAccount
    <2>2. CASE MakeAccount
      BY <2>2 DEF MakeAccount
    <2>3. CASE SaveChain
      <3>1. made' = made /\ ca' = ca /\ torn' /\ files'.key = files.key /\ acme = "saveChain"
        BY <2>3 DEF SaveChain
      <3>2. \/ files'.chain = -1 /\ acme' = acme
            \/ files'.chain = made.chains /\ acme' = "saveKey"
        BY <2>3 DEF SaveChain
      <3> QED BY <3>1, <3>2
    <2>4. CASE SaveKey
      <3>1. made' = made /\ ca' = ca /\ files'.chain = files.chain /\ acme = "saveKey"
        BY <2>4 DEF SaveKey
      <3>2. \/ files'.key = -1 /\ acme' = acme /\ (torn => torn')
            \/ files'.key = made.chains /\ acme' = "done"
        BY <2>4 DEF SaveKey
      <3> QED BY <3>1, <3>2
    <2>5. CASE LoadAccount
      BY <2>5 DEF LoadAccount
    <2>6. CASE Reuse \/ NeedsOne
      BY <2>6 DEF Reuse, NeedsOne
    <2> QED BY <1>1, <2>1, <2>2, <2>3, <2>4, <2>5, <2>6 DEF Disk
  <1>2. CASE Begins \/ Fails
    BY <1>2 DEF Begins, Fails, Listening, Directory, NewNonce, BadNonce, PollLate
  <1>3. CASE Asks
    <2> USE DEF Answered
    <2>1. CASE Register \/ Order
      BY <2>1 DEF Register, Order
    <2>2. CASE Authz \/ PollAuthz \/ PollOrder
      BY <2>2 DEF Authz, PollAuthz, PollOrder, PollAgain, Authorized
    <2>3. CASE Challenge \/ Finalize
      BY <2>3 DEF Challenge, Finalize
    <2> QED BY <1>3, <2>1, <2>2, <2>3 DEF Asks
  <1>4. CASE Download
    BY <1>4 DEF Download
  <1>5. CASE Lost
    BY <1>5 DEF Lost
  <1>6. CASE Authority
    BY <1>6 DEF Authority, Issue, Months, Validate
  <1> QED BY <1>1, <1>2, <1>3, <1>4, <1>5, <1>6, AcmeSteps

LEMMA ChallengeKept == ASSUME AcmeInv, AcmeStep PROVE OneChallenge'
  <1> USE DEF AcmeInv, AcmeTyped, OneChallenge, OnDisk, Flow, Validating, Asking, Posts, clientVars
  <1>0. (left # {} => Current \in left) /\ (left' = left => Current' = Current) /\ (left' # {} => Current' \in left')
    BY CurrentOne, CurrentSame DEF Current
  <1>1. CASE Disk
    BY <1>0, <1>1 DEF Disk, Reuse, NeedsOne, MakeAccount, SaveAccount, LoadAccount, SaveChain, SaveKey
  <1>2. CASE Begins
    BY <1>0, <1>2 DEF Begins, Listening, Directory, NewNonce, BadNonce, PollLate
  <1>3. CASE Fails \/ Lost \/ Download
    BY <1>3 DEF Fails, Lost, Download, Becomes, NoClient
  <1>4. CASE Asks
    <2> USE DEF Answered, Becomes, Client
    <2>1. CASE Register
      BY <1>0, <2>1 DEF Register
    <2>2. CASE Order
      <3>1. left' = Domains /\ tokens' = tokens /\ httpd' = httpd /\ acme' = "authz"
        BY <2>2 DEF Order
      <3>2. \A d \in Domains : ca'.authz[d] # "processing"
        BY <2>2 DEF Order
      <3> QED BY <2>2, <3>1, <3>2, AcmeAssumption DEF Order
    <2>3. ASSUME acme \in {"authz", "pollAuthz"}, ca.authz[Current] = "valid", Authorized(Client)
          PROVE OneChallenge'
      <3>1. left' = left \ {Current} /\ tokens' = tokens \ {Current} /\ httpd' = httpd /\ ca' = ca
        BY <2>3 DEF Authorized
      <3>2. acme' = IF left' = {} THEN "finalize" ELSE "authz"
        BY <2>3, <3>1 DEF Authorized
      <3>3. \A d \in left' : ca.authz[d] # "processing"
        BY <2>3, <3>1
      <3> QED BY <2>3, <3>1, <3>2, <3>3
    <2>4. CASE Authz /\ ca.authz[Current] # "valid"
      BY <1>0, <2>4 DEF Authz
    <2>5. CASE Challenge
      BY <1>0, <2>5 DEF Challenge
    <2>6. CASE PollAuthz /\ PollAgain("pollAuthz")
      BY <1>0, <2>6 DEF PollAgain
    <2>7. CASE Finalize
      BY <1>0, <2>7 DEF Finalize
    <2>8. CASE PollOrder
      BY <1>0, <2>8 DEF PollOrder, PollAgain
    <2> QED BY <1>4, <2>1, <2>2, <2>3, <2>4, <2>5, <2>6, <2>7, <2>8 DEF Asks, Authz, PollAuthz
  <1>5. CASE Authority
    BY <1>0, <1>5 DEF Authority, Issue, Months, Validate
  <1> QED BY <1>1, <1>2, <1>3, <1>4, <1>5, AcmeSteps

LEMMA AcmeKept == ASSUME AcmeInv, AcmeStep PROVE AcmeInv'
  <1> QED BY TypedKept, AccountKept, PairKept, ChallengeKept DEF AcmeInv

\* Where the start stands can change without the rest: when a start begins, is
\* interrupted, or dies; the files and what the authority knows are kept.
LEMMA AcmeRestarts ==
  ASSUME AcmeInv, UNCHANGED <<files, torn, made, ca>>, left' = {}, tokens' = {}, ~httpd',
         acme' \in {"idle", "look", "failed"}
  PROVE  AcmeInv'
  <1> USE DEF AcmeInv, AcmeTyped, OneAccount, OnePair, OneChallenge, Validating, Asking, Posts
  <1> QED OBVIOUS

LEMMA AcmeStays == ASSUME AcmeInv, UNCHANGED acmeVars PROVE AcmeInv'
  <1>1. Current' = Current
    BY CurrentSame DEF acmeVars, clientVars
  <1> QED
    BY <1>1 DEF AcmeInv, AcmeTyped, OneAccount, OnePair, OneChallenge, acmeVars, clientVars

LEMMA AcmeStarts == ASSUME AcmeInit PROVE AcmeInv
  <1> QED
    BY AcmeAssumption DEF AcmeInit, AcmeInv, AcmeTyped, OneAccount, OnePair, OneChallenge, Validating,
       Asking, Posts, Missing, Empty

LEMMA SoundCertificate == ASSUME AcmeInv PROVE CertificateSound /\ ChallengeServed
  <1> USE DEF AcmeInv, AcmeTyped, Missing, Empty
  <1>1. Cardinality(ca.accounts) <= 1
    <2>1. ca.accounts = {} \/ ca.accounts = {1}
      OBVIOUS
    <2>2. Cardinality({}) = 0 /\ Cardinality({1}) = 1
      BY FS_EmptySet, FS_Singleton, Zenon
    <2>3. Cardinality(ca.accounts) \in {0, 1}
      BY <2>1, <2>2
    <2> QED BY <2>3
  <1>2. ca.accounts \subseteq {files.account}
    BY DEF OneAccount
  <1>3. CertificateSound
    <2>1. files.account \in Empty..1 /\ files.chain \in Empty..MaxIssues /\ files.key \in Empty..MaxIssues
      BY AcmeAssumption DEF OnePair
    <2> QED BY <1>1, <1>2, <2>1 DEF CertificateSound, OnePair
  <1>4. ChallengeServed
    BY DEF ChallengeServed, OneChallenge, Served, Asking, Posts, Validating
  <1> QED BY <1>3, <1>4

-----------------------------------------------------------------------------
(* The leases of the archives                                              *)

Held == {t \in Archivers : lease[t] = "held"}

LimiterInv ==
  /\ limiter \in [closed : BOOLEAN, active : 0 .. MaxArchives, submitted : Nat, succeeded : Nat, failures : Nat]
  /\ lease \in [Archivers -> {"none", "held", "failed", "over"}]
  /\ LeasesExact

LEMMA HeldFinite == IsFiniteSet(Held) /\ IsFiniteSet(Held')
  <1> QED BY LimiterAssumption, FS_Subset DEF Held

\* A permit that goes back.
LEMMA LeaseOver ==
  ASSUME LimiterInv, NEW t \in Archivers, lease[t] = "held", NEW what \in {"failed", "over"}, Has(t, what),
         NEW fails \in BOOLEAN, limiter' = GivenBack(fails)
  PROVE  LimiterInv'
  <1> USE DEF LimiterInv, Has
  <1>1. \/ limiter' = [limiter EXCEPT !.active = @ - 1, !.failures = @ + 1]
        \/ limiter' = [limiter EXCEPT !.active = @ - 1, !.succeeded = @ + 1]
    BY DEF GivenBack
  <1>2. t \in Held /\ Held' = Held \ {t}
    BY DEF Held
  <1>3. Cardinality(Held') = Cardinality(Held) - 1
    BY <1>2, HeldFinite, FS_RemoveElement
  <1>4. limiter.active = Cardinality(Held) /\ Cardinality(Held') \in Nat
    BY HeldFinite, FS_CardinalityType DEF LeasesExact, Held
  <1>5. lease' \in [Archivers -> {"none", "held", "failed", "over"}]
    OBVIOUS
  <1>6. limiter.active > 0 /\ limiter.active - 1 \in 0 .. MaxArchives
    BY <1>3, <1>4, LimiterAssumption
  <1>7. limiter.active \in Int /\ limiter.submitted \in Nat /\ limiter.succeeded \in Nat /\ limiter.failures \in Nat
    BY LimiterAssumption
  <1>8. PICK won \in Nat, lost \in Nat :
          /\ limiter' = [closed |-> limiter.closed, active |-> limiter.active - 1, submitted |-> limiter.submitted,
                         succeeded |-> won, failures |-> lost]
          /\ won + lost = limiter.succeeded + limiter.failures + 1
    <2>1. CASE limiter' = [limiter EXCEPT !.active = @ - 1, !.failures = @ + 1]
      <3>1. limiter' = [closed |-> limiter.closed, active |-> limiter.active - 1, submitted |-> limiter.submitted,
                        succeeded |-> limiter.succeeded, failures |-> limiter.failures + 1]
        BY <2>1
      <3> QED BY <1>7, <3>1
    <2>2. CASE limiter' = [limiter EXCEPT !.active = @ - 1, !.succeeded = @ + 1]
      <3>1. limiter' = [closed |-> limiter.closed, active |-> limiter.active - 1, submitted |-> limiter.submitted,
                        succeeded |-> limiter.succeeded + 1, failures |-> limiter.failures]
        BY <2>2
      <3> QED BY <1>7, <3>1
    <2> QED BY <1>1, <2>1, <2>2
  <1>9. limiter.submitted = limiter.active + limiter.succeeded + limiter.failures
    BY DEF LeasesExact
  <1>10. limiter' \in [closed : BOOLEAN, active : 0 .. MaxArchives, submitted : Nat, succeeded : Nat, failures : Nat]
    BY <1>6, <1>7, <1>8
  <1>11. LeasesExact'
    <2>1. limiter'.active = Cardinality(Held') /\ limiter'.active \in 0 .. MaxArchives
      BY <1>3, <1>4, <1>6, <1>8
    <2>2. limiter'.submitted = limiter'.active + limiter'.succeeded + limiter'.failures
      BY <1>7, <1>8, <1>9
    <2> QED BY <2>1, <2>2 DEF LeasesExact, Held
  <1> QED BY <1>5, <1>10, <1>11

LEMMA LimiterKept == ASSUME LimiterInv, NEW t \in Archivers, Archives(t) PROVE LimiterInv'
  <1> USE DEF LimiterInv, Has
  <1>1. CASE Reserve(t)
    <2>1. t \notin Held /\ Held' = Held \cup {t}
      BY <1>1 DEF Held, Reserve
    <2>2. Cardinality(Held') = Cardinality(Held) + 1
      BY <2>1, HeldFinite, FS_AddElement
    <2>3. limiter.active = Cardinality(Held)
      BY DEF LeasesExact, Held
    <2>4. lease' \in [Archivers -> {"none", "held", "failed", "over"}]
      BY <1>1 DEF Reserve
    <2>5. limiter' = [closed |-> limiter.closed, active |-> limiter.active + 1, submitted |-> limiter.submitted + 1,
                      succeeded |-> limiter.succeeded, failures |-> limiter.failures]
      BY <1>1 DEF Reserve
    <2>6. limiter.active \in Int /\ limiter.submitted \in Nat /\ limiter.succeeded \in Nat /\ limiter.failures \in Nat
          /\ limiter.active + 1 \in 0 .. MaxArchives
      BY <1>1, LimiterAssumption DEF Reserve
    <2>7. limiter' \in [closed : BOOLEAN, active : 0 .. MaxArchives, submitted : Nat, succeeded : Nat, failures : Nat]
      BY <2>5, <2>6
    <2>8. LeasesExact'
      BY <2>2, <2>3, <2>5, <2>6 DEF LeasesExact, Held
    <2> QED BY <2>4, <2>7, <2>8
  <1>2. CASE Refused(t) \/ (Leave(t) /\ lease[t] = "failed")
    <2>1. Held' = Held /\ limiter' = limiter /\ lease' \in [Archivers -> {"none", "held", "failed", "over"}]
      BY <1>2 DEF Held, Refused, Leave
    <2> QED BY <2>1 DEF LeasesExact, Held
  <1>3. CASE StreamFails(t)
    BY <1>3, LeaseOver DEF StreamFails
  <1>4. CASE Leave(t) /\ lease[t] = "held"
    <2>1. PICK fails \in BOOLEAN : limiter' = GivenBack(fails)
      BY <1>4 DEF Leave
    <2> QED BY <1>4, <2>1, LeaseOver DEF Leave
  <1> QED BY <1>1, <1>2, <1>3, <1>4 DEF Archives, Leave

LEMMA LimiterStays ==
  ASSUME LimiterInv, lease' = lease, limiter' = limiter \/ limiter' = [limiter EXCEPT !.closed = TRUE]
  PROVE  LimiterInv'
  <1> QED BY DEF LimiterInv, LeasesExact

\* Of a process that starts.
LEMMA LimiterStarts ==
  ASSUME limiter = [closed |-> FALSE, active |-> 0, submitted |-> 0, succeeded |-> 0, failures |-> 0],
         lease = [t \in Archivers |-> "none"]
  PROVE  LimiterInv
  <1>1. {t \in Archivers : lease[t] = "held"} = {}
    OBVIOUS
  <1>2. Cardinality({}) = 0
    BY FS_EmptySet, Zenon
  <1> QED BY <1>1, <1>2, LimiterAssumption DEF LimiterInv, LeasesExact

LEMMA LimiterAgain ==
  ASSUME limiter' = [closed |-> FALSE, active |-> 0, submitted |-> 0, succeeded |-> 0, failures |-> 0],
         lease' = [t \in Archivers |-> "none"]
  PROVE  LimiterInv'
  <1>1. {t \in Archivers : lease'[t] = "held"} = {}
    OBVIOUS
  <1>2. Cardinality({}) = 0
    BY FS_EmptySet, Zenon
  <1> QED BY <1>1, <1>2, LimiterAssumption DEF LimiterInv, LeasesExact

-----------------------------------------------------------------------------
(* What is open                                                            *)

Parts == {"files", "tftp", "tcp", "http3", "mdns"}
Covers(part) == IF part = "tcp" THEN {"tcp", "log"} ELSE {part}

\* What the clauses that are entered will close, and what is between its start
\* and its clause.
CoveredBy(clauses) == UNION {Covers(clauses[i]) : i \in DOMAIN clauses}
Covered == CoveredBy(cleanups)
Loose ==
  CASE where = "adopt" -> {"bound"}
    [] where \in {"wrap", "equip"} -> {"bound", "tcp"}
    [] where = "mdns" -> {"http3"}
    [] where = "try" -> {"http3", "mdns"}
    [] where \in {"unwinding", "ended"} -> strays
    [] OTHER -> {}

OpenCovered ==
  /\ cleanups \in Seq(Parts)
  /\ alive \subseteq Covered \cup Loose
  /\ where \in {"down", "acme", "ended"} => cleanups = <<>>
  /\ strays \subseteq {"http3", "mdns"}
  /\ strays # {} => outcome = "raised" /\ where \in {"unwinding", "ended"}
  /\ where = "down" => acme = "idle"

\* A supervisor does nothing else; and serve() returns only when the supervisor's
\* serve() has.
ReturnedWhole ==
  /\ where \in {"tftp", "bind", "adopt", "wrap", "equip", "http3", "mdns", "try", "serving"}
       => plan.serves # "workers"
  /\ plan.serves = "workers" /\ where \in {"unwinding", "ended"} /\ outcome = "returned"
       => dead \/ phase["main"] = "returned"

\* After the goodbye the thread can be over one answer only, and looks at the
\* event before the next.
ResponderLast ==
  /\ responder \in [thread : {"none", "look", "send", "over"}, stop : BOOLEAN, late : 0 .. 1]
  /\ ~responder.stop => responder.late = 0
  /\ responder.late = 1 => responder.thread # "send"
  /\ responder.thread # "none" /\ "mdns" \notin alive => responder.stop

LaunchInv == SupervisorInv /\ AcmeInv /\ LimiterInv /\ OpenCovered /\ ReturnedWhole /\ ResponderLast

LEMMA ClauseEntered ==
  ASSUME NEW clauses \in Seq(Parts), NEW part \in Parts
  PROVE  Append(clauses, part) \in Seq(Parts)
         /\ CoveredBy(Append(clauses, part)) = CoveredBy(clauses) \cup Covers(part)
  <1> DEFINE more == Append(clauses, part)
  <1>1. more \in Seq(Parts) /\ Len(more) = Len(clauses) + 1 /\ more[Len(clauses) + 1] = part
        /\ \A i \in 1 .. Len(clauses) : more[i] = clauses[i]
    OBVIOUS
  <1>2. DOMAIN more = (DOMAIN clauses) \cup {Len(clauses) + 1}
    BY <1>1
  <1> QED BY <1>1, <1>2 DEF CoveredBy

LEMMA ClauseLeft ==
  ASSUME NEW clauses \in Seq(Parts), clauses # <<>>
  PROVE  LET rest == SubSeq(clauses, 1, Len(clauses) - 1)
             last == clauses[Len(clauses)]
         IN rest \in Seq(Parts) /\ last \in Parts /\ CoveredBy(clauses) = CoveredBy(rest) \cup Covers(last)
  <1> DEFINE rest == SubSeq(clauses, 1, Len(clauses) - 1)
             last == clauses[Len(clauses)]
  <1>1. Len(clauses) \in Nat \ {0}
    OBVIOUS
  <1>2. rest \in Seq(Parts) /\ Len(rest) = Len(clauses) - 1 /\ \A i \in 1 .. Len(rest) : rest[i] = clauses[i]
    <2>1. \A i \in 1 .. Len(clauses) - 1 : clauses[i] \in Parts
      BY <1>1
    <2>2. /\ rest \in Seq(Parts)
          /\ Len(rest) = IF 1 <= Len(clauses) - 1 THEN Len(clauses) - 1 - 1 + 1 ELSE 0
          /\ \A i \in 1 .. Len(clauses) - 1 - 1 + 1 : rest[i] = clauses[1 + i - 1]
      <3> HIDE DEF Parts
      <3> QED BY <1>1, <2>1, SubSeqProperties
    <2> HIDE DEF rest
    <2>3. Len(rest) = Len(clauses) - 1
      <3>1. \A n \in Nat \ {0} : (IF 1 <= n - 1 THEN n - 1 - 1 + 1 ELSE 0) = n - 1
        OBVIOUS
      <3> QED BY <1>1, <2>2, <3>1, Zenon
    <2>4. ASSUME NEW i \in 1 .. Len(rest) PROVE rest[i] = clauses[i]
      <3>1. i \in 1 .. Len(clauses) - 1 - 1 + 1 /\ 1 + i - 1 = i
        BY <1>1, <2>3
      <3> QED BY <2>2, <3>1
    <2> QED BY <2>2, <2>3, <2>4
  <1>3. last \in Parts /\ DOMAIN clauses = 1 .. Len(clauses) /\ DOMAIN rest = 1 .. Len(rest)
    BY <1>1, <1>2
  <1> HIDE DEF rest, last
  <1>4. 1 .. Len(clauses) = (1 .. Len(rest)) \cup {Len(clauses)}
    BY <1>1, <1>2
  <1>5. CoveredBy(clauses) = CoveredBy(rest) \cup Covers(clauses[Len(clauses)])
    BY <1>2, <1>3, <1>4 DEF CoveredBy
  <1> QED BY <1>2, <1>3, <1>5 DEF rest, last

LEMMA CoveredSame == cleanups' = cleanups => Covered' = Covered
  <1> QED BY DEF Covered, CoveredBy

LEMMA CoveredMore ==
  ASSUME OpenCovered, NEW part \in Parts, Enter(part)
  PROVE  cleanups' \in Seq(Parts) /\ Covered' = Covered \cup Covers(part)
  <1> QED BY ClauseEntered DEF OpenCovered, Covered, Enter

LEMMA TryKept == ASSUME OpenCovered, Try PROVE OpenCovered'
  <1> DEFINE one == cleanups \o Clause("http3")
             two == one \o Clause("mdns")
  <1>1. one \in Seq(Parts) /\ Covered \subseteq CoveredBy(one) /\ ("http3" \in alive => "http3" \in CoveredBy(one))
    <2>1. CASE "http3" \in alive
      <3>1. one = Append(cleanups, "http3")
        BY <2>1 DEF Clause, OpenCovered
      <3> HIDE DEF one
      <3> QED BY <3>1, ClauseEntered DEF OpenCovered, Parts, Covered, Covers
    <2>2. CASE "http3" \notin alive
      <3>1. one = cleanups
        BY <2>2 DEF Clause, OpenCovered
      <3> HIDE DEF one
      <3> QED BY <2>2, <3>1 DEF OpenCovered, Covered
    <2> QED BY <2>1, <2>2
  <1>2. cleanups' = two
    BY DEF Try
  <1> HIDE DEF one
  <1>3. two \in Seq(Parts) /\ Covered \subseteq CoveredBy(two) /\ alive \cap {"http3", "mdns"} \subseteq CoveredBy(two)
    <2>1. CASE "mdns" \in alive
      <3>1. two = Append(one, "mdns")
        BY <1>1, <2>1 DEF Clause
      <3> HIDE DEF two
      <3> QED BY <1>1, <3>1, ClauseEntered DEF Parts, Covers
    <2>2. CASE "mdns" \notin alive
      <3>1. two = one
        BY <1>1, <2>2 DEF Clause
      <3> HIDE DEF two
      <3> QED BY <1>1, <2>2, <3>1
    <2> QED BY <2>1, <2>2
  <1> HIDE DEF two
  <1>4. alive \subseteq Covered \cup {"http3", "mdns"}
    BY DEF OpenCovered, Try, Loose
  <1>5. cleanups' \in Seq(Parts) /\ alive' \subseteq Covered'
    BY <1>2, <1>3, <1>4 DEF Covered, Try
  <1> QED BY <1>5 DEF OpenCovered, Try, Goto

LEMMA StartsKept == ASSUME OpenCovered, Starts PROVE OpenCovered'
  <1> USE CoveredSame DEF OpenCovered, Goto, Open, Elsewhere, Apart, Raise, Loose
  <1>1. CASE AcmeEnds
    BY <1>1 DEF AcmeEnds
  <1>2. CASE GenerateFiles
    <2>1. CASE plan.generated
      <3>1. cleanups' \in Seq(Parts) /\ Covered' = Covered \cup {"files"}
        BY <1>2, <2>1, CoveredMore DEF GenerateFiles, Parts, Covers
      <3> QED BY <1>2, <2>1, <3>1 DEF GenerateFiles
    <2> QED BY <1>2, <2>1 DEF GenerateFiles
  <1>3. CASE StartTftp
    <2>1. CASE Enter("tftp")
      <3>1. cleanups' \in Seq(Parts) /\ Covered' = Covered \cup {"tftp"}
        BY <2>1, CoveredMore DEF Parts, Covers
      <3> QED BY <1>3, <2>1, <3>1 DEF StartTftp, AfterTftp
    <2> QED BY <1>3, <2>1 DEF StartTftp, AfterTftp
  <1>4. CASE Bind \/ Adopt \/ WrapTls
    BY <1>4 DEF Bind, Adopt, WrapTls, Undo
  <1>5. CASE Equip
    <2>1. CASE Enter("tcp")
      <3>1. cleanups' \in Seq(Parts) /\ Covered' = Covered \cup {"tcp", "log"}
        BY <2>1, CoveredMore DEF Parts, Covers
      <3> QED BY <1>5, <2>1, <3>1 DEF Equip, Undo
    <2> QED BY <1>5, <2>1 DEF Equip, Undo
  <1>6. CASE StartHttp3
    <2>1. CASE Enter("http3")
      <3>1. cleanups' \in Seq(Parts) /\ Covered' = Covered \cup {"http3"}
        BY <2>1, CoveredMore DEF Parts, Covers
      <3> QED BY <1>6, <2>1, <3>1 DEF StartHttp3
    <2> QED BY <1>6, <2>1 DEF StartHttp3
  <1>7. CASE StartMdns
    <2>1. alive \subseteq Covered \cup {"http3"} /\ Covered' = Covered /\ cleanups' = cleanups /\ strays = {}
      BY <1>7 DEF StartMdns
    <2>2. CASE where' = "try"
      BY <1>7, <2>1, <2>2 DEF StartMdns
    <2>3. CASE where' = "unwinding"
      BY <1>7, <2>1, <2>3 DEF StartMdns
    <2> QED BY <1>7, <2>2, <2>3 DEF StartMdns
  <1>8. CASE Try
    BY <1>8, TryKept
  <1> QED BY <1>1, <1>2, <1>3, <1>4, <1>5, <1>6, <1>7, <1>8 DEF Starts

LEMMA UnwindKept == ASSUME OpenCovered, Unwind PROVE OpenCovered'
  <1>1. cleanups' \in Seq(Parts) /\ Covered = Covered' \cup Covers(Top)
    BY ClauseLeft DEF OpenCovered, Covered, Unwind, Unwinding, Pop, Top
  <1>2. alive' \subseteq Covered' \cup Loose
    BY <1>1 DEF OpenCovered, Unwind, Covers
  <1> QED BY <1>1, <1>2 DEF OpenCovered, Unwind, Unwinding, Loose

LEMMA OverdueKept == ASSUME OpenCovered, Overdue PROVE OpenCovered'
  <1>1. cleanups' \in Seq(Parts) /\ Covered = Covered' \cup Covers(Top)
    BY ClauseLeft DEF OpenCovered, Covered, Overdue, Unwinding, Pop, Top
  <1>2. Covered = Covered' \cup {"http3"} /\ where = "unwinding" /\ where' = "unwinding" /\ alive' = alive
        /\ strays' = strays \cup {"http3"} /\ outcome' = "raised"
    BY <1>1 DEF Overdue, Unwinding, Covers
  <1>3. alive' \subseteq Covered' \cup strays'
    BY <1>2 DEF OpenCovered, Loose
  <1> QED BY <1>1, <1>2, <1>3 DEF OpenCovered, Loose

\* Every other step of the launch, and those of its threads.
Ends == Stopped \/ Interrupted \/ SupervisorEnds \/ Http3Ends \/ Goodbye \/ End
AcmeOf == Certified(Obtain) \/ Certified(Fails) \/ Certified(Lost) \/ Certified(PollLate) \/ Outside

LEMMA OpenKept == ASSUME OpenCovered, LaunchNext PROVE OpenCovered'
  <1> USE CoveredSame DEF OpenCovered, Goto, Elsewhere, Apart, Raise
  <1>1. CASE Starts \/ Unwind \/ Overdue
    BY <1>1, StartsKept, UnwindKept, OverdueKept
  <1>2. CASE Begin
    BY <1>2 DEF Begin, Loose
  <1>3. CASE Ends
    <2>1. CASE Interrupted
      <3>1. alive \subseteq Covered \cup {"http3", "mdns"} /\ cleanups' = cleanups /\ alive' = alive
            /\ where' = "unwinding" /\ outcome' = "raised" /\ strays' = alive \cap {"http3", "mdns"}
        BY <2>1 DEF Interrupted, Loose
      <3> QED BY <3>1 DEF Loose
    <2> QED BY <1>3, <2>1 DEF Ends, Stopped, SupervisorEnds, Http3Ends, Goodbye, Unwinding, End, Loose
  <1>4. CASE Again
    BY <1>4 DEF Again, Loose, Covered, CoveredBy
  <1>5. CASE Responder
    BY <1>5 DEF Responder, Look, Announce, Responds, Loose, acmeVars
  <1>6. CASE AcmeInterrupted \/ AcmeOf
    <2>1. UNCHANGED launchVars
      BY <1>6 DEF AcmeInterrupted, AcmeOf, Certified, Outside
    <2>2. where = "acme" \/ acme' = acme
      BY <1>6 DEF AcmeInterrupted, AcmeOf, Certified, Outside, Authority, Issue, Months, Validate
    <2> QED BY <2>1, <2>2 DEF launchVars, Loose
  <1>7. CASE (\E t \in Archivers : Archive(t)) \/ Supervised(Next)
    BY <1>7 DEF Archive, Supervised, launchVars, acmeVars, Loose
  <1> QED BY <1>1, <1>2, <1>3, <1>4, <1>5, <1>6, <1>7 DEF LaunchNext, Ends, AcmeOf

\* Only a supervisor's own steps change what its shutdown() has come to, and
\* after a return only its death does.
LEMMA ReturnStays ==
  ASSUME SupervisorInv, Next, phase["main"] = "returned"
  PROVE  dead' \/ phase'["main"] = "returned"
  <1> USE DEF SupervisorInv, ShutdownLocked, Callers
  <1>0. main = "shutdown"
    OBVIOUS
  <1>1. CASE Starting
    BY <1>0, <1>1 DEF Starting, Spawn, SpawnedAll, StartCancelled, StartRaises, WorkerLost, StartTimeout, At,
       NotePrepared, NoteReady, Decide, CommitOne, CommitDone, StartReturns
  <1>2. CASE Waiting
    BY <1>0, <1>2 DEF Waiting, EnterWait, LeaveWait, Scan, Interrupt, CallShutdown, At
  <1>3. CASE Outer
    BY <1>3 DEF Outer, Sigterm, RequestShutdown, OtherCalls, Die, Terminated, Move, vars
  <1>4. ASSUME NEW t \in Callers, Shutdown(t) PROVE phase'["main"] = "returned"
    BY <1>4 DEF Shutdown, Acquire, AlreadyStopped, StopWorkers, StopOne, DrainOver, ForceOver, ReapOver,
       Escalate, In, Move
  <1>5. ASSUME NEW w \in Generation, Worker(w) \/ Crash(w) PROVE phase' = phase
    BY <1>5 DEF Worker, Prepare, BootFails, SeeCommit, RollBack, StartDraining, Drained, Crash, Dies,
       beside, parent
  <1> QED
    BY <1>1, <1>2, <1>3, <1>4, <1>5 DEF Next, Serve, Starting, Waiting, Outer

LEMMA DeathStays == ASSUME Next, dead PROVE dead'
  <1>1. CASE Starting \/ Waiting
    BY <1>1 DEF Starting, Spawn, SpawnedAll, StartCancelled, StartRaises, WorkerLost, StartTimeout, At,
       NotePrepared, NoteReady, Decide, CommitOne, CommitDone, StartReturns,
       Waiting, EnterWait, LeaveWait, Scan, Interrupt, CallShutdown
  <1>2. CASE Outer
    BY <1>2 DEF Outer, Sigterm, RequestShutdown, OtherCalls, Die, Terminated, Running, vars
  <1>3. ASSUME NEW t \in Callers, Shutdown(t) PROVE FALSE
    BY <1>3 DEF Shutdown, Acquire, AlreadyStopped, StopWorkers, StopOne, DrainOver, ForceOver, ReapOver,
       Escalate, In
  <1>4. ASSUME NEW w \in Generation, Worker(w) \/ Crash(w) PROVE dead' = dead
    BY <1>4 DEF Worker, Prepare, BootFails, SeeCommit, RollBack, StartDraining, Drained, Crash, Dies,
       beside, parent
  <1> QED
    BY <1>1, <1>2, <1>3, <1>4 DEF Next, Serve, Starting, Waiting, Outer

LEMMA ReturnKept == ASSUME SupervisorInv, ReturnedWhole, LaunchNext PROVE ReturnedWhole'
  <1> USE DEF ReturnedWhole, Goto, Raise, Elsewhere, Apart
  <1>1. CASE Supervised(Next)
    <2>1. UNCHANGED <<where, plan, outcome>>
      BY <1>1 DEF Supervised, launchVars
    <2>2. dead \/ phase["main"] = "returned" => dead' \/ phase'["main"] = "returned"
      BY <1>1, ReturnStays, DeathStays DEF Supervised
    <2> QED BY <2>1, <2>2
  <1>2. CASE ~Supervised(Next)
    <2>0. phase' = phase /\ dead' = dead
      BY <1>2 DEF LaunchNext, Certified, Outside, Begin, AcmeInterrupted, Starts, AcmeEnds, GenerateFiles, StartTftp,
         Bind, Adopt, WrapTls, Equip, StartHttp3, StartMdns, Try, Undo, Stopped, Interrupted,
         SupervisorEnds, Http3Ends, Goodbye, Unwind, Overdue, End, Again, Responder, Look, Announce, Responds,
         Archive, supervisorVars, vars, serveVars
    <2>1. CASE Begin \/ Again
      BY <2>1 DEF Begin, Again
    <2>2. CASE AcmeEnds \/ GenerateFiles \/ StartTftp \/ StartHttp3 \/ StartMdns \/ Try
      BY <2>0, <2>2 DEF AcmeEnds, GenerateFiles, StartTftp, AfterTftp, StartHttp3, StartMdns, Try
    <2>3. CASE Bind \/ Adopt \/ WrapTls \/ Equip
      BY <2>0, <2>3 DEF Bind, Adopt, WrapTls, Equip, Undo
    <2>4. CASE Stopped \/ Interrupted \/ SupervisorEnds
      BY <2>0, <2>4 DEF Stopped, Interrupted, SupervisorEnds
    <2>5. CASE Http3Ends \/ Goodbye \/ Unwind \/ Overdue \/ End \/ Responder
      BY <2>0, <2>5 DEF Http3Ends, Goodbye, Unwind, Unwinding, Overdue, End, Responder, Look, Announce, Responds
    <2>6. CASE AcmeInterrupted \/ AcmeOf \/ \E t \in Archivers : Archive(t)
      BY <2>0, <2>6 DEF AcmeInterrupted, AcmeOf, Certified, Outside, Archive, launchVars
    <2> QED BY <1>2, <2>1, <2>2, <2>3, <2>4, <2>5, <2>6 DEF LaunchNext, Starts, AcmeOf
  <1> QED BY <1>1, <1>2

LEMMA ResponderKept == ASSUME OpenCovered, ResponderLast, LaunchNext PROVE ResponderLast'
  <1> USE DEF ResponderLast, Elsewhere, Apart, Goto, Open, Raise
  <1>1. CASE Starts
    <2>1. CASE StartMdns
      <3>1. CASE UNCHANGED <<responder, alive>>
        BY <3>1
      <3>2. CASE alive' = alive \cup {"mdns"} /\ responder' = [thread |-> "look", stop |-> FALSE, late |-> 0]
        BY <3>2
      <3> QED BY <2>1, <3>1, <3>2 DEF StartMdns, NoResponder
    <2>2. CASE AcmeEnds \/ GenerateFiles \/ StartTftp \/ StartHttp3 \/ Try
      BY <2>2 DEF AcmeEnds, GenerateFiles, StartTftp, StartHttp3, Try
    <2>3. CASE Bind \/ Adopt \/ WrapTls \/ Equip
      BY <2>3 DEF Bind, Adopt, WrapTls, Equip, Undo
    <2> QED BY <1>1, <2>1, <2>2, <2>3 DEF Starts
  <1>2. CASE Begin
    BY <1>2 DEF Begin
  <1>3. CASE Ends
    BY <1>3 DEF Ends, Stopped, Interrupted, SupervisorEnds, Http3Ends, Goodbye, End
  <1>4. CASE Again
    BY <1>4 DEF Again, NoResponder
  <1>5. CASE Look
    BY <1>5 DEF Look, Responds
  <1>6. CASE Announce
    <2>1. alive' = alive /\ responder.thread = "send" /\ responder.late = 0
      BY <1>6 DEF Announce, Responds
    <2>2. responder' = [thread |-> "look", stop |-> responder.stop,
                        late |-> IF responder.stop /\ "mdns" \in alive THEN 1 ELSE 0]
      <3>1. responder' = [thread |-> "look", stop |-> responder.stop,
                          late |-> IF responder.stop /\ "mdns" \in alive THEN responder.late + 1 ELSE responder.late]
        <4>1. responder = [thread |-> responder.thread, stop |-> responder.stop, late |-> responder.late]
          OBVIOUS
        <4>2. responder' = [responder EXCEPT !.thread = "look",
                              !.late = IF responder.stop /\ "mdns" \in alive THEN responder.late + 1 ELSE responder.late]
          BY <1>6 DEF Announce, Responds
        <4> QED BY <4>1, <4>2, Zenon
      <3> QED BY <2>1, <3>1
    <2>3. responder' \in [thread : {"none", "look", "send", "over"}, stop : BOOLEAN, late : 0 .. 1]
      BY <2>2
    <2> QED BY <2>1, <2>2, <2>3
  <1>7. CASE Unwind \/ Overdue
    BY <1>7 DEF Unwind, Overdue
  <1>8. CASE AcmeInterrupted \/ AcmeOf \/ Supervised(Next) \/ \E t \in Archivers : Archive(t)
    BY <1>8 DEF AcmeInterrupted, AcmeOf, Certified, Outside, Archive, Supervised, launchVars
  <1> QED BY <1>1, <1>2, <1>3, <1>4, <1>5, <1>6, <1>7, <1>8 DEF LaunchNext, Ends, AcmeOf, Responder

\* The other three parts change by their own steps, by a start, by an end, or
\* with the process.
LEMMA CertificateKept == ASSUME AcmeInv, OpenCovered, LaunchNext PROVE AcmeInv'
  <1>1. CASE AcmeOf
    BY <1>1, AcmeKept DEF AcmeOf, AcmeStep, Certified, Outside
  <1>2. CASE Begin
    <2>1. acme = "idle"
      BY <1>2 DEF Begin, OpenCovered
    <2>2. left = {} /\ tokens = {} /\ ~httpd
      BY <2>1 DEF AcmeInv, OneChallenge, Asking, Posts, Validating
    <2> QED BY <1>2, <2>1, <2>2, AcmeRestarts DEF Begin, clientVars
  <1>3. CASE AcmeInterrupted
    <2>1. left = {} /\ tokens = {} /\ ~httpd
      BY <1>3 DEF AcmeInterrupted, AcmeInv, OneChallenge, Asking, Posts, Validating
    <2> QED BY <1>3, <2>1, AcmeRestarts DEF AcmeInterrupted, Flow, clientVars
  <1>4. CASE Again
    BY <1>4, AcmeRestarts DEF Again
  <1>5. CASE ~(AcmeOf \/ Begin \/ AcmeInterrupted \/ Again)
    <2>1. UNCHANGED acmeVars
      BY <1>5 DEF LaunchNext, AcmeOf, Starts, AcmeEnds, GenerateFiles, StartTftp, Bind, Adopt, WrapTls, Equip,
         StartHttp3, StartMdns, Try, Undo, Elsewhere, Apart, Stopped, Interrupted, SupervisorEnds, Http3Ends,
         Goodbye, Unwind, Overdue, End, Responder, Look, Announce, Responds, Archive, Supervised
    <2> QED BY <2>1, AcmeStays
  <1> QED BY <1>1, <1>2, <1>3, <1>4, <1>5

LEMMA LeasesKept == ASSUME LimiterInv, LaunchNext PROVE LimiterInv'
  <1>1. CASE \E t \in Archivers : Archive(t)
    BY <1>1, LimiterKept DEF Archive
  <1>2. CASE Again
    BY <1>2, LimiterAgain DEF Again
  <1>3. CASE ~Again /\ ~(\E t \in Archivers : Archive(t))
    <2>1. lease' = lease /\ (limiter' = limiter \/ limiter' = [limiter EXCEPT !.closed = TRUE])
      BY <1>3 DEF LaunchNext, Certified, Outside, Begin, AcmeInterrupted, Starts, AcmeEnds, GenerateFiles, StartTftp,
         Bind, Adopt, WrapTls, Equip, StartHttp3, StartMdns, Try, Undo, Elsewhere, Apart, Stopped, Interrupted,
         SupervisorEnds, Http3Ends, Goodbye, Unwind, Overdue, End, Responder, Look, Announce, Responds, Supervised,
         CloseLimiter, limiterVars
    <2> QED BY <2>1, LimiterStays
  <1> QED BY <1>1, <1>2, <1>3

LEMMA WorkersKept == ASSUME SupervisorInv, LaunchNext PROVE SupervisorInv'
  <1>1. CASE Supervised(Next)
    BY <1>1, SupervisorStep DEF Supervised
  <1>2. CASE ~Supervised(Next)
    <2>1. UNCHANGED supervisorVars
      BY <1>2 DEF LaunchNext, Certified, Outside, Begin, AcmeInterrupted, Starts, AcmeEnds, GenerateFiles, StartTftp,
         Bind, Adopt, WrapTls, Equip, StartHttp3, StartMdns, Try, Undo, Elsewhere, Apart, Stopped, Interrupted,
         SupervisorEnds, Http3Ends, Goodbye, Unwind, Overdue, End, Again, Responder, Look, Announce, Responds, Archive
    <2> QED BY <2>1, SupervisorStays
  <1> QED BY <1>1, <1>2

LEMMA LaunchStarts == ASSUME LaunchInit PROVE LaunchInv
  <1>1. SupervisorInv /\ AcmeInv
    BY SupervisorInit, AcmeStarts DEF LaunchInit
  <1>2. LimiterInv
    BY LimiterStarts DEF LaunchInit, LimiterInit
  <1>3. OpenCovered /\ ReturnedWhole /\ ResponderLast
    BY DEF LaunchInit, OpenCovered, ReturnedWhole, NoPlan, ResponderLast, NoResponder, Covered, CoveredBy, Loose, AcmeInit
  <1> QED BY <1>1, <1>2, <1>3 DEF LaunchInv

LEMMA LaunchStep == ASSUME LaunchInv, [LaunchNext]_allVars PROVE LaunchInv'
  <1>1. CASE LaunchNext
    BY <1>1, WorkersKept, CertificateKept, LeasesKept, OpenKept, ReturnKept, ResponderKept DEF LaunchInv
  <1>2. CASE UNCHANGED allVars
    <2>1. UNCHANGED launchVars /\ UNCHANGED acmeVars /\ UNCHANGED limiterVars /\ UNCHANGED supervisorVars
      BY <1>2 DEF allVars
    <2>2. OpenCovered' /\ ReturnedWhole' /\ ResponderLast'
      BY <2>1, CoveredSame DEF LaunchInv, OpenCovered, ReturnedWhole, ResponderLast, launchVars, acmeVars, Loose,
         supervisorVars, vars, serveVars
    <2> QED BY <2>1, <2>2, AcmeStays, LimiterStays, SupervisorStays DEF LaunchInv, limiterVars
  <1> QED BY <1>1, <1>2

LEMMA AllReleased == ASSUME LaunchInv PROVE Released
  <1> USE DEF LaunchInv, OpenCovered, ResponderLast, LimiterInv
  <1>1. where = "ended" => alive \subseteq strays
    BY DEF Covered, CoveredBy, Loose
  <1>2. ASSUME where = "ended", outcome = "returned", plan.serves = "workers", ~dead, phase["other"] # "raised"
        PROVE  Alive = {} /\ ~listening
    <2>1. phase["main"] = "returned"
      BY <1>2 DEF ReturnedWhole
    <2> QED BY <1>2, <2>1 DEF SupervisorInv, StoppedOnce, Callers, Ended
  <1> QED BY <1>1, <1>2 DEF Released

LEMMA LaunchSound == LaunchSpec => []LaunchInv
  <1> QED BY LaunchStarts, LaunchStep, PTL DEF LaunchSpec

(* A start that returns has left nothing open, and, of a supervisor, no    *)
(* worker alive.  One that raises has left no listener, file or log open;  *)
(* at most HTTP/3 and the responder, where the code has no clause for them *)
(* yet, and an HTTP/3 thread that did not end when it was told to.  The    *)
(* goodbye of the responder is its last word but one; and the leases of    *)
(* the archives are exact (server.py:595-670, http3.py:404, _mdns.py:166,  *)
(* _supervisor.py:397, _work.py:101).                                      *)
THEOREM LaunchReleases == LaunchSpec => []Released
  <1> QED BY LaunchSound, AllReleased, PTL

(* Over any number of starts, renewals, failures and deaths: the           *)
(* certificate in use is the one of the key beside it, and the authority   *)
(* knows one account; every challenge that it may ask for is answered, and *)
(* no listener is left behind (server.py:504-528, _acme.py:193, :258).     *)
THEOREM CertificateKeyed == LaunchSpec => []AcmeSound
  <1> QED
    <2>1. LaunchInv => AcmeSound
      BY SoundCertificate DEF LaunchInv, AcmeSound
    <2> QED BY <2>1, LaunchSound, PTL

(* Within a launch as by itself: no part of a generation ever serves, and  *)
(* none of it is left behind a shutdown that returned                      *)
(* (_supervisor.py:181-437).                                               *)
THEOREM LaunchWhole == LaunchSpec => []GenerationWhole
  <1> QED
    <2>1. LaunchInv => GenerationWhole
      BY WholeGeneration DEF LaunchInv
    <2> QED BY <2>1, LaunchSound, PTL

=============================================================================
