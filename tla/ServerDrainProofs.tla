--------------------------- MODULE ServerDrainProofs ---------------------------
(***************************************************************************)
(* That the drain is orderly, for any number of connections, pool threads  *)
(* and slots.  A connection owns its permit through its place in the       *)
(* accepting thread, as a key of _connection_permits, or through its       *)
(* handler, and never through two of them: a rollback that races the       *)
(* handler it has queued is the reason to prove it.                        *)
(* And of the ASGI server, which drains on an event loop: its argument is  *)
(* below, before its lemmas.                                               *)
(***************************************************************************)
EXTENDS ServerDrain, Asgi, FiniteSetTheorems, TLAPS

Fresh == {"pending", "accepted", "enroll"}

\* A connection has no handler before it is dispatched, and it is removed from
\* the owners by one thread only.
OneOwner ==
  \A r \in Conns :
    /\ stage[r] \in Fresh => r \notin permits \cup active \cup hooks
    /\ stage[r] \in Fresh \cup {"dispatch", "submit"} => handler[r] = "none"
    /\ stage[r] = "release" => r \notin permits /\ handler[r] # "release"
    /\ handler[r] = "release" => r \notin permits

\* A socket is open from its acceptance until the handler or the refusal closes
\* it, and what is open and handed over is active.
OpenSockets ==
  \A r \in Conns :
    /\ stage[r] \in {"accepted", "enroll", "dispatch", "submit"} => r \in open
    /\ stage[r] \in {"pending", "turnedAway"} => r \notin open
    /\ handler[r] \in {"unslot", "finish", "release", "done"} => r \notin open
    /\ stage[r] \in {"dispatch", "submit"} => r \in active
    /\ stage[r] = "handed" /\ r \in open => r \in active

\* The drain waits for the end of the accepting loop, and closes what it finds
\* active only when the time is over.
DrainInOrder ==
  /\ loop = "exited" => \A r \in Conns : stage[r] \in Resting
  /\ deadline # "unset" <=> draining
  /\ \A d \in Drainers :
       /\ at[d] \in {"wait", "force", "done"} => loop = "exited"
       /\ at[d] = "idle" => toNotify[d] = {}
       /\ at[d] # "idle" => draining
       /\ at[d] # "force" => toClose[d] = {}
       /\ toClose[d] # {} => deadline = "passed"
       /\ at[d] = "force" => open \subseteq toClose[d]
       /\ at[d] = "done" => open = {}

\* The hooks that wait for a call have had none, and are with one caller.
NoticeDue ==
  \A r \in Conns :
    /\ notices[r] \in {0, 1}
    /\ ~draining => notices[r] = 0 /\ \A d \in Drainers : r \notin toNotify[d]
    /\ \A d \in Drainers : r \in toNotify[d] => notices[r] = 0 /\ \A e \in Drainers \ {d} : r \notin toNotify[e]
    /\ handler[r] \in {"none", "queued", "begin", "register"} =>
         notices[r] = 0 /\ r \notin hooks /\ \A d \in Drainers : r \notin toNotify[d]

DrainInv ==
  TypeOK /\ PermitsConserved /\ ServedWhileOpen /\ OneOwner /\ OpenSockets /\ DrainInOrder /\ NoticeDue

LEMMA Capacity == SlotCapacity \in Nat
  <1>1. \A m, n \in Nat : m * n \in Nat
    OBVIOUS
  <1> QED BY <1>1, LimitAssumption DEF SlotCapacity

\* The accepting thread on its way in, and out; a handler at work, and at its
\* end; and what waits for the drain.
Admits(r) == Accept(r) \/ AcquireConnection(r) \/ RefuseOverLimit(r) \/ Enroll(r) \/ AcquireSlot(r)
Hands(r) == RefuseQueueFull(r) \/ Submit(r) \/ SubmitFails(r) \/ ReturnSlot(r) \/ StartThread(r) \/ StartThreadFails(r)
Leaves(r) == Withdraw(r) \/ WithdrawRelease(r) \/ TurnAway(r)
Works(r) == TakeUp(r) \/ Begin(r) \/ ReadRequest(r) \/ Respond(r) \/ NextRequest(r) \/ Abort(r)
Hooks(r) == Register(r) \/ Unregister(r)
Cleans(r) == CloseSocket(r) \/ ReleaseSlot(r) \/ Finish(r) \/ ReleaseConnection(r)

LEMMA Steps ==
  Next <=> \/ \E r \in Conns : Admits(r) \/ Hands(r) \/ Leaves(r) \/ Works(r) \/ Hooks(r) \/ Cleans(r)
           \/ \E d \in Drainers : DrainThread(d)
           \/ LoopExit \/ Expire \/ Terminated
  <1> QED BY DEF Next, Acceptor, Handler, Admits, Hands, Leaves, Works, Hooks, Cleans

-----------------------------------------------------------------------------
(* Types                                                                   *)

LEMMA TypesKept == ASSUME DrainInv, Next, connections' \in 0 .. MaxConnections PROVE TypeOK'
  <1> USE LimitAssumption, Capacity DEF DrainInv, TypeOK, Stages, Handlers, Goto, Run
  <1>1. ASSUME NEW r \in Conns, Admits(r) PROVE TypeOK'
    BY <1>1 DEF Admits, Accept, AcquireConnection, RefuseOverLimit, Enroll, AcquireSlot, regVars, semVars, drainVars
  <1>2. ASSUME NEW r \in Conns, Hands(r) PROVE TypeOK'
    BY <1>2 DEF Hands, RefuseQueueFull, Submit, SubmitFails, ReturnSlot, StartThread, StartThreadFails,
       regVars, semVars, drainVars
  <1>3. ASSUME NEW r \in Conns, Leaves(r) PROVE TypeOK'
    BY <1>3 DEF Leaves, Withdraw, WithdrawRelease, TurnAway, Deregister, regVars, semVars, drainVars
  <1>4. ASSUME NEW r \in Conns, Works(r) PROVE TypeOK'
    BY <1>4 DEF Works, TakeUp, Begin, ReadRequest, Respond, NextRequest, Abort, regVars, semVars, drainVars
  <1>5. ASSUME NEW r \in Conns, Hooks(r) PROVE TypeOK'
    BY <1>5 DEF Hooks, Register, Unregister, regVars, semVars, drainVars
  <1>6. ASSUME NEW r \in Conns, Cleans(r) PROVE TypeOK'
    BY <1>6 DEF Cleans, CloseSocket, ReleaseSlot, Finish, ReleaseConnection, Deregister, regVars, semVars, drainVars
  <1>7. ASSUME NEW d \in Drainers, DrainThread(d) PROVE TypeOK'
    <2> USE DEF Step, regVars, semVars, callVars
    <2>1. CASE BeginDraining(d)
      BY <2>1 DEF BeginDraining
    <2>5. CASE Notify(d)
      <3>1. PICK r \in toNotify[d] : /\ notices' = [notices EXCEPT ![r] = @ + 1]
                                      /\ toNotify' = [toNotify EXCEPT ![d] = @ \ {r}]
        BY <2>5 DEF Notify
      <3>2. r \in Conns /\ notices[r] + 1 \in Nat
        BY <3>1
      <3> QED BY <2>5, <3>1, <3>2 DEF Notify
    <2>2. CASE StopAccepting(d) \/ LoopStopped(d)
      BY <2>2 DEF StopAccepting, LoopStopped
    <2>3. CASE Wait(d) \/ ForceClose(d)
      BY <2>3 DEF Wait, ForceClose
    <2>4. CASE Complete(d)
      BY <2>4 DEF Complete
    <2> QED BY <1>7, <2>1, <2>2, <2>3, <2>4, <2>5 DEF DrainThread
  <1>8. CASE LoopExit \/ Expire \/ Terminated
    BY <1>8 DEF LoopExit, Expire, Terminated, regVars, semVars, callVars, drainVars, vars
  <1> QED BY <1>1, <1>2, <1>3, <1>4, <1>5, <1>6, <1>7, <1>8, Steps

-----------------------------------------------------------------------------
(* Permits                                                                 *)

LEMMA OwnerKept == ASSUME DrainInv, Next PROVE OneOwner'
  <1> USE DEF DrainInv, TypeOK, OneOwner, Fresh, Goto, Run
  <1>1. ASSUME NEW r \in Conns, Admits(r) PROVE OneOwner'
    BY <1>1 DEF Admits, Accept, AcquireConnection, RefuseOverLimit, Enroll, AcquireSlot, regVars
  <1>2. ASSUME NEW r \in Conns, Hands(r) PROVE OneOwner'
    BY <1>2 DEF Hands, RefuseQueueFull, Submit, SubmitFails, ReturnSlot, StartThread, StartThreadFails, regVars
  <1>3. ASSUME NEW r \in Conns, Leaves(r) PROVE OneOwner'
    BY <1>3 DEF Leaves, Withdraw, WithdrawRelease, TurnAway, Deregister, regVars
  <1>4. ASSUME NEW r \in Conns, Works(r) PROVE OneOwner'
    BY <1>4 DEF Works, TakeUp, Begin, ReadRequest, Respond, NextRequest, Abort, regVars
  <1>5. ASSUME NEW r \in Conns, Hooks(r) PROVE OneOwner'
    BY <1>5 DEF Hooks, Register, Unregister
  <1>6. ASSUME NEW r \in Conns, Cleans(r) PROVE OneOwner'
    BY <1>6 DEF Cleans, CloseSocket, ReleaseSlot, Finish, ReleaseConnection, Deregister, regVars
  <1>7. ASSUME NEW d \in Drainers, DrainThread(d) PROVE OneOwner'
    BY <1>7 DEF DrainThread, BeginDraining, Notify, StopAccepting, LoopStopped, Wait, ForceClose, Complete,
       callVars, regVars
  <1>8. CASE LoopExit \/ Expire \/ Terminated
    BY <1>8 DEF LoopExit, Expire, Terminated, callVars, regVars, vars
  <1> QED BY <1>1, <1>2, <1>3, <1>4, <1>5, <1>6, <1>7, <1>8, Steps

LEMMA HoldersFinite ==
  /\ IsFiniteSet(PermitHolders) /\ Cardinality(PermitHolders) \in Nat
  /\ Cardinality(PermitHolders') \in Nat
  <1> QED BY ConnsAssumption, FS_Subset, FS_CardinalityType DEF PermitHolders

LEMMA PermitTaken ==
  ASSUME DrainInv, NEW r \in Conns, ~HoldsPermit(r), PermitHolders' = PermitHolders \cup {r},
         connections' = connections - 1
  PROVE  PermitsConserved'
  <1>1. Cardinality(PermitHolders') = Cardinality(PermitHolders) + 1
    BY HoldersFinite, FS_AddElement DEF PermitHolders
  <1> QED BY <1>1, HoldersFinite, LimitAssumption DEF DrainInv, PermitsConserved, TypeOK

LEMMA PermitGivenBack ==
  ASSUME DrainInv, NEW r \in Conns, HoldsPermit(r), PermitHolders' = PermitHolders \ {r},
         connections' = connections + 1
  PROVE  PermitsConserved'
  <1>1. Cardinality(PermitHolders') = Cardinality(PermitHolders) - 1
    BY HoldersFinite, FS_RemoveElement DEF PermitHolders
  <1> QED BY <1>1, HoldersFinite, LimitAssumption DEF DrainInv, PermitsConserved, TypeOK

LEMMA PermitsKept == ASSUME DrainInv, Next PROVE PermitsConserved'
  <1> USE DEF DrainInv, TypeOK, OneOwner, Fresh, Goto, Run
  <1>0. ASSUME PermitHolders' = PermitHolders, connections' = connections PROVE PermitsConserved'
    BY <1>0 DEF PermitsConserved
  <1>1. ASSUME NEW r \in Conns, Admits(r) PROVE PermitsConserved'
    <2>1. CASE AcquireConnection(r)
      <3>1. ~HoldsPermit(r) /\ PermitHolders' = PermitHolders \cup {r} /\ connections' = connections - 1
        BY <2>1 DEF AcquireConnection, HoldsPermit, PermitHolders, regVars
      <3> QED BY <3>1, PermitTaken
    <2>2. CASE Accept(r) \/ RefuseOverLimit(r) \/ Enroll(r) \/ AcquireSlot(r)
      <3>1. PermitHolders' = PermitHolders /\ connections' = connections
        BY <2>2 DEF Accept, RefuseOverLimit, Enroll, AcquireSlot, HoldsPermit, PermitHolders, regVars, semVars
      <3> QED BY <3>1, <1>0
    <2> QED BY <1>1, <2>1, <2>2 DEF Admits
  <1>2. ASSUME NEW r \in Conns, Hands(r) PROVE PermitsConserved'
    <2>1. PermitHolders' = PermitHolders /\ connections' = connections
      BY <1>2 DEF Hands, RefuseQueueFull, Submit, SubmitFails, ReturnSlot, StartThread, StartThreadFails,
         HoldsPermit, PermitHolders, regVars, semVars
    <2> QED BY <2>1, <1>0
  <1>3. ASSUME NEW r \in Conns, Leaves(r) PROVE PermitsConserved'
    <2>1. CASE WithdrawRelease(r)
      <3>1. HoldsPermit(r) /\ PermitHolders' = PermitHolders \ {r} /\ connections' = connections + 1
        BY <2>1 DEF WithdrawRelease, HoldsPermit, PermitHolders, regVars
      <3> QED BY <3>1, PermitGivenBack
    <2>2. CASE Withdraw(r) \/ TurnAway(r)
      <3>1. PermitHolders' = PermitHolders /\ connections' = connections
        BY <2>2 DEF Withdraw, TurnAway, Deregister, HoldsPermit, PermitHolders, regVars, semVars
      <3> QED BY <3>1, <1>0
    <2> QED BY <1>3, <2>1, <2>2 DEF Leaves
  <1>4. ASSUME NEW r \in Conns, Works(r) \/ Hooks(r) PROVE PermitsConserved'
    <2>1. PermitHolders' = PermitHolders /\ connections' = connections
      BY <1>4 DEF Works, TakeUp, Begin, ReadRequest, Respond, NextRequest, Abort, Hooks, Register, Unregister,
         HoldsPermit, PermitHolders, regVars, semVars
    <2> QED BY <2>1, <1>0
  <1>5. ASSUME NEW r \in Conns, Cleans(r) PROVE PermitsConserved'
    <2>1. CASE ReleaseConnection(r)
      <3>1. HoldsPermit(r) /\ PermitHolders' = PermitHolders \ {r} /\ connections' = connections + 1
        BY <2>1 DEF ReleaseConnection, HoldsPermit, PermitHolders, regVars
      <3> QED BY <3>1, PermitGivenBack
    <2>2. CASE CloseSocket(r) \/ ReleaseSlot(r) \/ Finish(r)
      <3>1. PermitHolders' = PermitHolders /\ connections' = connections
        BY <2>2 DEF CloseSocket, ReleaseSlot, Finish, Deregister, HoldsPermit, PermitHolders, regVars, semVars
      <3> QED BY <3>1, <1>0
    <2> QED BY <1>5, <2>1, <2>2 DEF Cleans
  <1>6. CASE (\E d \in Drainers : DrainThread(d)) \/ LoopExit \/ Expire \/ Terminated
    <2>1. PermitHolders' = PermitHolders /\ connections' = connections
      BY <1>6 DEF DrainThread, BeginDraining, Notify, StopAccepting, LoopStopped, Wait, ForceClose, Complete,
         LoopExit, Expire, Terminated, HoldsPermit, PermitHolders, callVars, regVars, semVars, vars
    <2> QED BY <2>1, <1>0
  <1> QED BY <1>1, <1>2, <1>3, <1>4, <1>5, <1>6, Steps

-----------------------------------------------------------------------------
(* Sockets                                                                 *)

LEMMA OpenKept == ASSUME DrainInv, Next PROVE OpenSockets'
  <1> USE DEF DrainInv, TypeOK, OneOwner, OpenSockets, Fresh, Goto, Run, Handlers, Stages
  <1>1. ASSUME NEW r \in Conns, Admits(r) PROVE OpenSockets'
    BY <1>1 DEF Admits, Accept, AcquireConnection, RefuseOverLimit, Enroll, AcquireSlot, regVars
  <1>2. ASSUME NEW r \in Conns, Hands(r) PROVE OpenSockets'
    BY <1>2 DEF Hands, RefuseQueueFull, Submit, SubmitFails, ReturnSlot, StartThread, StartThreadFails, regVars
  <1>3. ASSUME NEW r \in Conns, Leaves(r) PROVE OpenSockets'
    BY <1>3 DEF Leaves, Withdraw, WithdrawRelease, TurnAway, Deregister, regVars
  <1>4. ASSUME NEW r \in Conns, Works(r) PROVE OpenSockets'
    BY <1>4 DEF Works, TakeUp, Begin, ReadRequest, Respond, NextRequest, Abort, regVars
  <1>5. ASSUME NEW r \in Conns, Hooks(r) PROVE OpenSockets'
    BY <1>5 DEF Hooks, Register, Unregister
  <1>6. ASSUME NEW r \in Conns, Cleans(r) PROVE OpenSockets'
    BY <1>6 DEF Cleans, CloseSocket, ReleaseSlot, Finish, ReleaseConnection, Deregister, regVars
  <1>7. ASSUME NEW d \in Drainers, DrainThread(d) PROVE OpenSockets'
    <2>1. CASE ForceClose(d)
      <3>1. \A r \in Conns : stage[r] \in Resting
        BY <2>1 DEF ForceClose, DrainInOrder
      <3> QED BY <2>1, <3>1 DEF ForceClose, Resting, callVars, regVars
    <2> QED
      BY <1>7, <2>1 DEF DrainThread, BeginDraining, Notify, StopAccepting, LoopStopped, Wait, Complete,
         callVars, regVars
  <1>8. CASE LoopExit \/ Expire \/ Terminated
    BY <1>8 DEF LoopExit, Expire, Terminated, callVars, regVars, vars
  <1> QED BY <1>1, <1>2, <1>3, <1>4, <1>5, <1>6, <1>7, <1>8, Steps

\* The accepting thread is in no call when the loop has ended, so that nothing
\* is opened or handed over any more.
LEMMA Closed == ASSUME DrainInv, loop = "exited", NEW r \in Conns PROVE ~Admits(r) /\ ~Hands(r) /\ ~Leaves(r)
  <1>1. stage[r] \in Resting
    BY DEF DrainInv, DrainInOrder
  <1> QED
    BY <1>1 DEF Resting, Admits, Accept, AcquireConnection, RefuseOverLimit, Enroll, AcquireSlot, Hands,
       RefuseQueueFull, Submit, SubmitFails, ReturnSlot, StartThread, StartThreadFails, Leaves, Withdraw,
       WithdrawRelease, TurnAway

LEMMA OrderKept == ASSUME DrainInv, Next PROVE DrainInOrder'
  <1> USE DEF DrainInv, TypeOK, DrainInOrder, Drainers
  <1>1. ASSUME NEW r \in Conns, Admits(r) \/ Hands(r) \/ Leaves(r) PROVE DrainInOrder'
    <2>1. loop # "exited"
      BY <1>1, Closed
    <2>2. UNCHANGED <<loop, drainVars>>
      BY <1>1 DEF Admits, Accept, AcquireConnection, RefuseOverLimit, Enroll, AcquireSlot, Hands, RefuseQueueFull,
         Submit, SubmitFails, ReturnSlot, StartThread, StartThreadFails, Leaves, Withdraw, WithdrawRelease, TurnAway
    <2> QED BY <2>1, <2>2 DEF drainVars
  <1>2. ASSUME NEW r \in Conns, Works(r) \/ Hooks(r) \/ Cleans(r) PROVE DrainInOrder'
    <2>1. UNCHANGED <<loop, drainVars, stage>> /\ open' \subseteq open
      BY <1>2 DEF Works, TakeUp, Begin, ReadRequest, Respond, NextRequest, Abort, Hooks, Register, Unregister,
         Cleans, CloseSocket, ReleaseSlot, Finish, ReleaseConnection
    <2> QED BY <2>1 DEF drainVars
  <1>3. ASSUME NEW d \in Drainers, DrainThread(d) PROVE DrainInOrder'
    <2> USE DEF Step, callVars
    <2>1. CASE BeginDraining(d)
      BY <2>1 DEF BeginDraining
    <2>2. CASE Notify(d)
      BY <2>2 DEF Notify
    <2>3. CASE StopAccepting(d)
      BY <2>3 DEF StopAccepting
    <2>4. CASE LoopStopped(d)
      BY <2>4 DEF LoopStopped
    <2>5. CASE Wait(d)
      <3>1. \A r \in Conns : stage[r] \in Resting
        BY <2>5 DEF Wait
      <3>2. open \subseteq active
        BY <3>1 DEF OpenSockets, Resting
      <3> QED BY <2>5, <3>2 DEF Wait
    <2>6. CASE ForceClose(d)
      <3>1. PICK r \in toClose[d] : open' = open \ {r} /\ toClose' = [toClose EXCEPT ![d] = @ \ {r}]
        BY <2>6 DEF ForceClose
      <3> QED BY <2>6, <3>1 DEF ForceClose
    <2>7. CASE Complete(d)
      BY <2>7 DEF Complete
    <2> QED BY <1>3, <2>1, <2>2, <2>3, <2>4, <2>5, <2>6, <2>7 DEF DrainThread
  <1>4. CASE LoopExit \/ Expire \/ Terminated
    BY <1>4 DEF LoopExit, Expire, Terminated, callVars, drainVars, vars
  <1> QED BY <1>1, <1>2, <1>3, <1>4, Steps

LEMMA ServedKept == ASSUME DrainInv, Next PROVE ServedWhileOpen'
  <1> USE DEF DrainInv, TypeOK, ServedWhileOpen, Goto, Run
  <1>1. ASSUME NEW r \in Conns, Admits(r) PROVE ServedWhileOpen'
    BY <1>1 DEF Admits, Accept, AcquireConnection, RefuseOverLimit, Enroll, AcquireSlot, drainVars
  <1>2. ASSUME NEW r \in Conns, Hands(r) PROVE ServedWhileOpen'
    BY <1>2 DEF Hands, RefuseQueueFull, Submit, SubmitFails, ReturnSlot, StartThread, StartThreadFails,
       drainVars, OpenSockets
  <1>3. ASSUME NEW r \in Conns, Leaves(r) PROVE ServedWhileOpen'
    BY <1>3 DEF Leaves, Withdraw, WithdrawRelease, TurnAway, Deregister, drainVars
  <1>4. ASSUME NEW r \in Conns, Works(r) \/ Hooks(r) PROVE ServedWhileOpen'
    BY <1>4 DEF Works, TakeUp, Begin, ReadRequest, Respond, NextRequest, Abort, Hooks, Register, Unregister, drainVars
  <1>5. ASSUME NEW r \in Conns, Cleans(r) PROVE ServedWhileOpen'
    BY <1>5 DEF Cleans, CloseSocket, ReleaseSlot, Finish, ReleaseConnection, Deregister, drainVars
  <1>6. ASSUME NEW d \in Drainers, DrainThread(d) PROVE ServedWhileOpen'
    <2>1. CASE ForceClose(d)
      <3>1. deadline' = "passed"
        BY <2>1 DEF ForceClose, DrainInOrder
      <3> QED BY <3>1
    <2>2. CASE BeginDraining(d)
      BY <2>2 DEF BeginDraining, DrainInOrder, callVars
    <2>3. CASE Complete(d)
      BY <2>3 DEF Complete
    <2> QED BY <1>6, <2>1, <2>2, <2>3 DEF DrainThread, Notify, StopAccepting, LoopStopped, Wait, callVars
  <1>7. CASE LoopExit \/ Expire \/ Terminated
    BY <1>7 DEF LoopExit, Expire, Terminated, callVars, drainVars, vars
  <1> QED BY <1>1, <1>2, <1>3, <1>4, <1>5, <1>6, <1>7, Steps

-----------------------------------------------------------------------------
(* Hooks                                                                   *)

LEMMA NoticesKept == ASSUME DrainInv, Next PROVE NoticeDue'
  <1> USE DEF DrainInv, TypeOK, NoticeDue, Goto, Run, Drainers
  <1>1. ASSUME NEW r \in Conns, Admits(r) PROVE NoticeDue'
    BY <1>1 DEF Admits, Accept, AcquireConnection, RefuseOverLimit, Enroll, AcquireSlot, drainVars, regVars
  <1>2. ASSUME NEW r \in Conns, Hands(r) PROVE NoticeDue'
    BY <1>2 DEF Hands, RefuseQueueFull, Submit, SubmitFails, ReturnSlot, StartThread, StartThreadFails,
       drainVars, regVars, OneOwner, Fresh
  <1>3. ASSUME NEW r \in Conns, Leaves(r) PROVE NoticeDue'
    BY <1>3 DEF Leaves, Withdraw, WithdrawRelease, TurnAway, Deregister, drainVars, regVars
  <1>4. ASSUME NEW r \in Conns, Works(r) PROVE NoticeDue'
    BY <1>4 DEF Works, TakeUp, Begin, ReadRequest, Respond, NextRequest, Abort, drainVars, regVars
  <1>5. ASSUME NEW r \in Conns, Hooks(r) PROVE NoticeDue'
    BY <1>5 DEF Hooks, Register, Unregister, drainVars
  <1>6. ASSUME NEW r \in Conns, Cleans(r) PROVE NoticeDue'
    BY <1>6 DEF Cleans, CloseSocket, ReleaseSlot, Finish, ReleaseConnection, Deregister, drainVars, regVars
  <1>7. ASSUME NEW d \in Drainers, DrainThread(d) PROVE NoticeDue'
    <2> USE DEF Step, callVars, regVars
    <2>1. CASE BeginDraining(d)
      BY <2>1 DEF BeginDraining, DrainInOrder
    <2>2. CASE Notify(d)
      BY <2>2 DEF Notify, DrainInOrder
    <2>3. CASE Complete(d)
      BY <2>3 DEF Complete
    <2> QED BY <1>7, <2>1, <2>2, <2>3 DEF DrainThread, StopAccepting, LoopStopped, Wait, ForceClose
  <1>8. CASE LoopExit \/ Expire \/ Terminated
    BY <1>8 DEF LoopExit, Expire, Terminated, callVars, drainVars, regVars, vars
  <1> QED BY <1>1, <1>2, <1>3, <1>4, <1>5, <1>6, <1>7, <1>8, Steps

-----------------------------------------------------------------------------

LEMMA ConnectionsKept == ASSUME DrainInv, Next PROVE connections' \in 0 .. MaxConnections
  <1>1. connections' \in Nat
    BY LimitAssumption DEF DrainInv, TypeOK, Next, Accept, Acceptor, Handler, AcquireConnection, RefuseOverLimit,
       Enroll, AcquireSlot, RefuseQueueFull, Submit, SubmitFails, ReturnSlot, StartThread, StartThreadFails,
       Withdraw, WithdrawRelease, TurnAway, TakeUp, Begin, ReadRequest, Respond, NextRequest, Register, Unregister,
       Abort, CloseSocket, ReleaseSlot, Finish, ReleaseConnection, DrainThread, BeginDraining, Notify,
       StopAccepting, LoopStopped, Wait, ForceClose, Complete, LoopExit, Expire, Terminated, semVars, vars
  <1>2. Cardinality(PermitHolders') \in Nat
    BY HoldersFinite
  <1>3. connections' = MaxConnections - Cardinality(PermitHolders')
    BY PermitsKept DEF PermitsConserved
  <1> QED BY <1>1, <1>2, <1>3, LimitAssumption

LEMMA DrainStarts == ASSUME Init PROVE DrainInv
  <1> USE LimitAssumption, Capacity DEF Init
  <1>1. TypeOK
    <2>1. connections \in 0 .. MaxConnections /\ slots \in 0 .. SlotCapacity /\ threads \in 0 .. MaxWorkers
      OBVIOUS
    <2>2. stage \in [Conns -> Stages] /\ handler \in [Conns -> Handlers] /\ notices \in [Conns -> Nat]
      BY DEF Stages, Handlers
    <2> QED BY <2>1, <2>2 DEF TypeOK
  <1>2. PermitsConserved
    <2>1. PermitHolders = {}
      BY DEF PermitHolders, HoldsPermit
    <2>2. Cardinality({}) = 0
      BY FS_EmptySet, Zenon
    <2> QED BY <2>1, <2>2 DEF PermitsConserved
  <1>3. ServedWhileOpen /\ OneOwner /\ OpenSockets /\ DrainInOrder /\ NoticeDue
    BY DEF ServedWhileOpen, OneOwner, OpenSockets, DrainInOrder, NoticeDue, Fresh, Resting
  <1> QED BY <1>1, <1>2, <1>3 DEF DrainInv

LEMMA DrainStep == ASSUME DrainInv, [Next]_vars PROVE DrainInv'
  <1>1. CASE Next
    BY <1>1, ConnectionsKept, TypesKept, PermitsKept, ServedKept, OwnerKept, OpenKept, OrderKept, NoticesKept
    DEF DrainInv
  <1>2. CASE UNCHANGED vars
    BY <1>2 DEF DrainInv, TypeOK, PermitsConserved, PermitHolders, HoldsPermit, ServedWhileOpen, OneOwner,
       OpenSockets, DrainInOrder, NoticeDue, vars, callVars, semVars, regVars, drainVars
  <1> QED BY <1>1, <1>2

(* The drain is orderly whatever the sizes of the pool and the queue, and  *)
(* whatever races it: permits are neither leaked nor given back twice, no  *)
(* admitted connection loses its socket before the deadline and none keeps *)
(* it behind the drain, and no hook is called twice (server.py:72-75,      *)
(* :176, :233, :292).                                                      *)
THEOREM DrainSound == Spec => []DrainOrderly
  <1>1. DrainInv => DrainOrderly
    BY DEF DrainInv, DrainOrderly, ClosedWhenStopped, DrainInOrder, NoticeDue, NotifiedOnce
  <1> QED BY <1>1, DrainStarts, DrainStep, PTL DEF Spec

-----------------------------------------------------------------------------
(***************************************************************************)
(* The ASGI server.  What a client reads is tied to the record of the      *)
(* response by a relation, Follows, that every event an application may    *)
(* send keeps; a connection is used again only when the record says that   *)
(* the response is complete, and then it was read whole.  The relation is  *)
(* not inductive alone: it needs to be known that a transport which closes *)
(* under a call is one whose client has gone, that the callbacks are       *)
(* replaced while anybody waits, and that nobody waits for a request that  *)
(* is still to come.                                                       *)
(***************************************************************************)

\* What the client has read of a response, at each point of it.
Follows(r, w) ==
  /\ w.stage # "broken"
  /\ r.remaining \in Nat \cup {NoLength, TrailerPhase}
  /\ r.started => r.status = "set"
  /\ r.started /\ WireTrailers(r) => r.chunked
  /\ ~r.started => w.stage = "head" /\ ~r.complete /\ r.remaining = NoLength /\ ~r.chunked
  /\ r.started /\ r.suppress => w.stage = "ended" /\ ~r.chunked
  /\ r.started /\ ~r.suppress /\ r.chunked =>
       /\ w.framing = "chunked"
       /\ ~r.complete /\ r.remaining # TrailerPhase => w.stage = "body"
       /\ ~r.complete /\ r.remaining = TrailerPhase =>
            w.stage = IF WireTrailers(r) THEN "trailers" ELSE "ended"
       /\ r.complete => w.stage = "ended"
  /\ r.started /\ ~r.suppress /\ ~r.chunked /\ w.framing = "length" =>
       /\ r.remaining # TrailerPhase =>
            r.remaining \in Nat /\ r.remaining = w.left /\ w.stage = IF w.left = 0 THEN "ended" ELSE "body"
       /\ r.remaining = TrailerPhase \/ r.complete => w.stage = "ended"
  /\ r.started /\ ~r.suppress /\ ~r.chunked /\ w.framing # "length" =>
       w.framing = "close" /\ w.stage = "body" /\ r.close /\ r.remaining \in {NoLength, TrailerPhase}

\* The codes of lengths are three, and none of them is one.
LEMMA Codes ==
  /\ NoLength = -1 /\ Conflicting = -2 /\ TrailerPhase = -3
  /\ Event \in Occurring /\ NoResponse \in Responses /\ Unread \in Readers
  BY DEF NoLength, Conflicting, TrailerPhase, Event, Occurring, NoResponse, Responses, Unread, Readers

\* Nothing is read of a new response.
LEMMA NewFollows ==
  ASSUME NEW q \in Asks
  PROVE  NewResponse(q) \in Responses /\ Follows(NewResponse(q), Unread)
  <1> DEFINE r == NewResponse(q)
  <1>1. r = [NoResponse EXCEPT !.suppress = q.head, !.close = ~q.keepAlive,
                               !.trailers = IF q.te THEN {"client"} ELSE {}]
    BY DEF NewResponse
  <1>2. r \in Responses
    <2> DEFINE t == IF q.te THEN {"client"} ELSE {}
    <2>1. q.head \in BOOLEAN /\ (~q.keepAlive) \in BOOLEAN /\ t \in SUBSET {"client", "app"}
      BY DEF Asks
    <2>2. r = [NoResponse EXCEPT !.suppress = q.head, !.close = ~q.keepAlive, !.trailers = t]
      BY <1>1
    <2> HIDE DEF t, r
    <2> QED BY <2>1, <2>2, Codes DEF Responses
  <1>3. ~r.started /\ ~r.complete /\ r.remaining = NoLength /\ ~r.chunked
    BY <1>1 DEF NoResponse
  <1> QED BY <1>2, <1>3, Codes DEF Follows, Unread

LEMMA NothingRead == ASSUME NEW w \in Readers PROVE ReadItem(w, Nothing) = w
  BY DEF ReadItem, Nothing, Item

\* A head: what frames the body is what the client is told.
LEMMA HeadFollows ==
  ASSUME NEW r \in Responses, NEW w \in Readers, Follows(r, w), ~r.started, r.status = "set",
         NEW b \in BOOLEAN
  PROVE  LET o == WriteHeaders(r, b)
             v == ReadItem(w, o.wire.head)
         IN /\ o.response \in Responses /\ v \in Readers /\ Follows(o.response, v)
            /\ o.error = "none" => o.response.started /\ o.response.remaining # TrailerPhase /\ ~o.response.complete
            /\ o.wire.octets = Nothing /\ o.wire.end = Nothing
            /\ o.error # "none" => o = Fault(r, Silence)
  <1> DEFINE e == r.headers
             close == r.close \/ ~b \/ e.close
             quiet == [r EXCEPT !.suppress = r.suppress \/ e.bodyless]
             chunked == \/ WireTrailers(quiet)
                        \/ e.length = NoLength /\ ~quiet.suppress /\ ~close
             framing == CASE quiet.suppress -> "none"
                          [] chunked /\ ~quiet.suppress -> "chunked"
                          [] ~chunked /\ ~quiet.suppress /\ e.length # NoLength -> "length"
                          [] OTHER -> "close"
             s == [quiet EXCEPT !.started = TRUE, !.headers = Event, !.close = close, !.chunked = chunked,
                                !.remaining = IF quiet.suppress THEN NoLength ELSE e.length]
             o == WriteHeaders(r, b)
             i == Item("head", framing, e.length)
  <1>1. e \in Occurring /\ e.length \in Nat \cup {NoLength, Conflicting} /\ e.bodyless \in BOOLEAN /\ e.close \in BOOLEAN
    BY DEF Responses, Occurring
  <1>2. CASE e.length = Conflicting
    <2>1. o = Fault(r, Silence)
      BY <1>2 DEF WriteHeaders
    <2>2. o.response = r /\ o.wire = Silence /\ o.error = "fault"
      BY <2>1 DEF Fault, Outcome
    <2>3. Silence.head = Nothing /\ Silence.octets = Nothing /\ Silence.end = Nothing
      BY DEF Silence
    <2> HIDE DEF o
    <2> QED BY <2>1, <2>2, <2>3, NothingRead DEF o
  <1>3. CASE e.length # Conflicting
    <2>1. o = Outcome(s, [Silence EXCEPT !.head = i], "none")
      BY <1>3 DEF WriteHeaders
    <2>2. o.response = s /\ o.wire.head = i /\ o.wire.octets = Nothing /\ o.wire.end = Nothing /\ o.error = "none"
      BY <2>1 DEF Outcome, Silence
    <2>3. quiet \in Responses /\ quiet.suppress = (r.suppress \/ e.bodyless) /\ quiet.trailers = r.trailers
          /\ quiet.complete = r.complete /\ quiet.status = r.status
      BY <1>1 DEF Responses
    <2>4. chunked \in BOOLEAN /\ close \in BOOLEAN /\ (quiet.suppress => ~chunked)
      BY <2>3 DEF WireTrailers
    <2>5. /\ s \in Responses /\ s.started /\ s.suppress = quiet.suppress /\ s.trailers = quiet.trailers
          /\ s.chunked = chunked /\ s.close = close /\ s.complete = r.complete /\ s.status = r.status
          /\ s.remaining = IF quiet.suppress THEN NoLength ELSE e.length
      <3> DEFINE n == IF quiet.suppress THEN NoLength ELSE e.length
      <3>1. n \in Int
        BY <1>1, Codes
      <3> HIDE DEF quiet, chunked, close, e, n
      <3>2. s = [quiet EXCEPT !.started = TRUE, !.headers = Event, !.close = close, !.chunked = chunked,
                              !.remaining = n]
        BY DEF n
      <3> HIDE DEF s
      <3>3. s \in Responses /\ s.started /\ s.suppress = quiet.suppress /\ s.trailers = quiet.trailers
            /\ s.chunked = chunked /\ s.close = close /\ s.complete = quiet.complete /\ s.status = quiet.status
            /\ s.remaining = n
        BY <2>3, <2>4, <3>1, <3>2, Codes DEF Responses
      <3> QED BY <2>3, <3>3 DEF n
    <2>6. framing \in {"none", "chunked", "length", "close"}
          /\ (framing = "none" <=> quiet.suppress) /\ (framing = "chunked" <=> chunked)
          /\ (framing = "length" <=> ~quiet.suppress /\ ~chunked /\ e.length # NoLength)
      <3> HIDE DEF quiet, chunked, close, e
      <3> QED BY <2>4
    <2> HIDE DEF framing
    <2>7. ReadItem(w, i) = [stage |-> IF framing = "none" \/ (framing = "length" /\ e.length = 0) THEN "ended" ELSE "body",
                            framing |-> framing, left |-> e.length]
      <3>1. i.part = "head" /\ i.framing = framing /\ i.size = e.length
        BY DEF Item
      <3>2. w.stage = "head"
        BY DEF Follows
      <3> HIDE DEF i
      <3> QED BY <3>1, <3>2 DEF ReadItem
    <2> DEFINE v == ReadItem(w, i)
    <2>8. v.stage = (IF framing = "none" \/ (framing = "length" /\ e.length = 0) THEN "ended" ELSE "body")
          /\ v.framing = framing /\ v.left = e.length /\ v \in Readers
      BY <1>1, <2>6, <2>7, Codes DEF Readers
    <2> HIDE DEF v, s, i, e, quiet, chunked, close, o
    <2>9. r.complete = FALSE
      BY DEF Follows, Responses
    <2>10. framing = "close" => close
      <3> SUFFICES ASSUME framing = "close", ~close PROVE FALSE
        OBVIOUS
      <3>1. ~quiet.suppress /\ ~chunked /\ e.length = NoLength
        BY <2>6
      <3> QED BY <3>1 DEF chunked
    <2>13. WireTrailers(s) => s.chunked
      BY <2>5 DEF WireTrailers, chunked
    <2>11. Follows(s, v)
      BY <1>1, <1>3, <2>4, <2>5, <2>6, <2>8, <2>9, <2>10, <2>13, Codes DEF Follows
    <2>12. s.remaining # TrailerPhase
      BY <1>1, <1>3, <2>5, Codes
    <2> QED BY <2>2, <2>5, <2>8, <2>9, <2>11, <2>12 DEF o, v
  <1> QED BY <1>2, <1>3

\* A part of a body fits what is left of it, and its last part ends it.
LEMMA BodyFollows ==
  ASSUME NEW r \in Responses, NEW v \in Readers, Follows(r, v), r.started, ~r.complete,
         r.remaining # TrailerPhase, NEW e \in Occurring, BodyFits(r, e), NEW wire, wire = [Silence EXCEPT !.head = wire.head]
  PROVE  LET a == AfterBody(r, e)
             x == WithBody(wire, r, e)
             u == ReadItem(ReadItem(v, x.octets), x.end)
         IN a \in Responses /\ u \in Readers /\ Follows(a, u) /\ x.head = wire.head
  <1> DEFINE m == IF ~e.more /\ "app" \in r.trailers THEN TrailerPhase
                  ELSE IF r.suppress \/ r.remaining = NoLength THEN r.remaining ELSE r.remaining - e.size
             d == ~e.more /\ "app" \notin r.trailers
             a == AfterBody(r, e)
             p == IF e.size > 0 /\ ~r.suppress THEN Item("octets", "none", e.size) ELSE Nothing
             z == IF e.more \/ ~r.chunked THEN Nothing
                  ELSE Item(IF WireTrailers(r) THEN "last chunk" ELSE "end", "none", 0)
             y == ReadItem(v, p)
             u == ReadItem(y, z)
  <1>1. e.size \in Nat /\ e.more \in BOOLEAN /\ r.remaining \in Int
    BY DEF Occurring, Responses
  <1>2. m \in Int /\ d \in BOOLEAN
    BY <1>1, Codes
  <1>3. a = [r EXCEPT !.remaining = m, !.complete = d]
    BY DEF AfterBody
  <1> HIDE DEF a
  <1>4. /\ a \in Responses /\ a.remaining = m /\ a.complete = d /\ a.started = r.started /\ a.suppress = r.suppress
        /\ a.chunked = r.chunked /\ a.trailers = r.trailers /\ a.close = r.close /\ a.status = r.status
    <2> HIDE DEF m, d
    <2> QED BY <1>2, <1>3 DEF Responses
  <1>5. /\ WithBody(wire, r, e).octets = p /\ WithBody(wire, r, e).end = z
        /\ WithBody(wire, r, e).head = wire.head
    <2>1. WithBody(wire, r, e) = [wire EXCEPT !.octets = p, !.end = z]
      BY DEF WithBody
    <2>2. DOMAIN wire = {"head", "octets", "end"}
      BY DEF Silence
    <2> HIDE DEF p, z
    <2> QED BY <2>1, <2>2 DEF Silence
  <1>6. /\ v.left \in Int
        /\ r.remaining \in Nat \cup {NoLength}
        /\ r.suppress => v.stage = "ended" /\ ~r.chunked
        /\ ~r.suppress /\ r.chunked => v.framing = "chunked" /\ v.stage = "body"
        /\ ~r.suppress /\ ~r.chunked /\ v.framing = "length" =>
             r.remaining = v.left /\ v.left \in Nat /\ v.stage = IF v.left = 0 THEN "ended" ELSE "body"
        /\ ~r.suppress /\ ~r.chunked /\ v.framing # "length" =>
             v.framing = "close" /\ v.stage = "body" /\ r.close /\ r.remaining = NoLength
        /\ v.stage # "broken" /\ r.status = "set"
    BY DEF Follows, Readers
  <1>7. ~r.suppress /\ r.remaining # NoLength =>
          (IF e.more THEN e.size <= r.remaining ELSE e.size = r.remaining)
    BY DEF BodyFits
  <1>8. m \in Nat \cup {NoLength, TrailerPhase}
    BY <1>1, <1>6, <1>7, Codes
  \* The octets.
  <1>9. /\ y \in Readers /\ y.framing = v.framing
        /\ r.suppress \/ v.framing # "length" => y = v
        /\ ~r.suppress /\ ~r.chunked /\ v.framing = "length" =>
             y.left = v.left - e.size /\ y.stage = IF y.left = 0 THEN "ended" ELSE "body"
    <2>1. CASE e.size > 0 /\ ~r.suppress
      <3>1. p.part = "octets" /\ p.size = e.size
        BY <2>1 DEF Item
      <3> HIDE DEF p
      <3>2. CASE v.framing # "length"
        <4>1. v.stage = "body"
          BY <1>6, <2>1, <3>2
        <4>2. y = v
          BY <3>1, <3>2, <4>1 DEF ReadItem
        <4> QED BY <3>2, <4>2
      <3>3. CASE v.framing = "length"
        <4>1. ~r.chunked /\ r.remaining = v.left /\ v.left \in Nat
          BY <1>6, <2>1, <3>3, Codes
        <4>2. e.size <= v.left
          BY <1>1, <1>7, <2>1, <4>1, Codes
        <4>3. v.stage = "body"
          BY <1>1, <1>6, <2>1, <3>3, <4>1, <4>2
        <4>4. y = [v EXCEPT !.left = v.left - e.size, !.stage = IF e.size = v.left THEN "ended" ELSE v.stage]
          BY <1>1, <3>1, <3>3, <4>1, <4>2, <4>3 DEF ReadItem
        <4>5. v.left - e.size \in Int
          BY <1>1, <4>1
        <4> HIDE DEF y
        <4>6. y \in Readers /\ y.framing = v.framing /\ y.left = v.left - e.size
              /\ y.stage = IF e.size = v.left THEN "ended" ELSE v.stage
          BY <4>4, <4>5 DEF Readers
        <4> QED BY <1>1, <3>3, <4>1, <4>2, <4>3, <4>6, <2>1
      <3> QED BY <3>2, <3>3
    <2>2. CASE ~(e.size > 0 /\ ~r.suppress)
      <3>1. y = v
        <4>1. p = Nothing
          BY <2>2
        <4> HIDE DEF p
        <4> QED BY <4>1, NothingRead
      <3>2. r.suppress \/ e.size = 0
        BY <1>1, <2>2
      <3> HIDE DEF y
      <3>3. ~r.suppress => v.left - e.size = v.left
        BY <1>1, <1>6, <3>2
      <3> QED BY <1>6, <3>1, <3>3
    <2> QED BY <2>1, <2>2
  \* The end.
  <1>10. /\ u \in Readers /\ u.framing = v.framing /\ u.left = y.left
         /\ e.more \/ ~r.chunked => u = y
         /\ ~e.more /\ r.chunked => u.stage = IF WireTrailers(r) THEN "trailers" ELSE "ended"
    <2>1. CASE e.more \/ ~r.chunked
      <3>1. u = y
        <4>1. z = Nothing
          BY <2>1
        <4> HIDE DEF z, y
        <4> QED BY <1>9, <4>1, NothingRead
      <3> QED BY <1>9, <2>1, <3>1
    <2>2. CASE ~(e.more \/ ~r.chunked)
      <3>1. y.stage = "body" /\ y.framing = "chunked" /\ ~r.suppress
        BY <1>6, <1>9, <2>2
      <3>2. z.part = IF WireTrailers(r) THEN "last chunk" ELSE "end"
        BY <2>2 DEF Item
      <3> HIDE DEF y, z
      <3>3. u = [y EXCEPT !.stage = IF WireTrailers(r) THEN "trailers" ELSE "ended"]
        <4>1. CASE WireTrailers(r)
          BY <3>1, <3>2, <4>1 DEF ReadItem
        <4>2. CASE ~WireTrailers(r)
          BY <3>1, <3>2, <4>2 DEF ReadItem
        <4> QED BY <4>1, <4>2
      <3> HIDE DEF u
      <3> QED BY <1>9, <2>2, <3>3 DEF Readers
    <2> QED BY <2>1, <2>2
  <1> HIDE DEF y, u, p, z
  <1>11. u.stage # "broken"
    <2>1. y.stage # "broken"
      BY <1>6, <1>9
    <2> QED BY <1>10, <2>1
  <1>12. WireTrailers(a) = WireTrailers(r)
    BY <1>4 DEF WireTrailers
  <1>13. r.suppress => u.stage = "ended" /\ ~r.chunked
    BY <1>6, <1>9, <1>10
  <1>14. ~r.suppress /\ r.chunked =>
           /\ u.framing = "chunked"
           /\ ~d /\ m # TrailerPhase => u.stage = "body"
           /\ ~d /\ m = TrailerPhase => u.stage = IF WireTrailers(r) THEN "trailers" ELSE "ended"
           /\ d => u.stage = "ended"
    <2> SUFFICES ASSUME ~r.suppress, r.chunked
                 PROVE  /\ u.framing = "chunked"
                        /\ ~d /\ m # TrailerPhase => u.stage = "body"
                        /\ ~d /\ m = TrailerPhase => u.stage = IF WireTrailers(r) THEN "trailers" ELSE "ended"
                        /\ d => u.stage = "ended"
      OBVIOUS
    <2>1. v.framing = "chunked" /\ y = v /\ u.framing = "chunked" /\ v.stage = "body"
      BY <1>6, <1>9, <1>10
    <2>2. CASE e.more
      <3>1. u = v /\ ~d /\ m # TrailerPhase
        BY <1>1, <1>6, <1>7, <1>10, <2>1, <2>2, Codes
      <3> QED BY <2>1, <3>1
    <2>3. CASE ~e.more
      <3>1. "app" \in r.trailers => m = TrailerPhase /\ ~d
        BY <2>3
      <3>2. "app" \notin r.trailers => d /\ ~WireTrailers(r)
        BY <2>3 DEF WireTrailers
      <3> QED BY <1>10, <2>1, <2>3, <3>1, <3>2
    <2> QED BY <2>2, <2>3
  <1>15. ~r.suppress /\ ~r.chunked /\ u.framing = "length" =>
           /\ m # TrailerPhase => m \in Nat /\ m = u.left /\ u.stage = IF u.left = 0 THEN "ended" ELSE "body"
           /\ m = TrailerPhase \/ d => u.stage = "ended"
    <2> SUFFICES ASSUME ~r.suppress, ~r.chunked, u.framing = "length"
                 PROVE  /\ m # TrailerPhase => m \in Nat /\ m = u.left /\ u.stage = IF u.left = 0 THEN "ended" ELSE "body"
                        /\ m = TrailerPhase \/ d => u.stage = "ended"
      OBVIOUS
    <2>1. u = y /\ v.framing = "length" /\ r.remaining = v.left /\ y.left = v.left - e.size
          /\ y.stage = IF y.left = 0 THEN "ended" ELSE "body"
      BY <1>6, <1>9, <1>10
    <2>2. v.left \in Nat
      BY <1>6, <2>1
    <2>3. ~e.more => y.left = 0
      BY <1>1, <1>7, <2>1, <2>2, Codes
    <2>4. m = TrailerPhase \/ d => ~e.more
      BY <1>1, <1>7, <2>1, <2>2, Codes
    <2>5. m # TrailerPhase => m = y.left /\ m \in Nat
      BY <1>1, <1>7, <2>1, <2>2, Codes
    <2> QED BY <2>1, <2>3, <2>4, <2>5
  <1>16. ~r.suppress /\ ~r.chunked /\ u.framing # "length" =>
           u.framing = "close" /\ u.stage = "body" /\ r.close /\ m \in {NoLength, TrailerPhase}
    BY <1>6, <1>9, <1>10, Codes
  <1> HIDE DEF m, d
  <1>18. WireTrailers(r) => r.chunked
    BY DEF Follows
  <1>17. Follows(a, u)
    BY <1>18, <1>4, <1>6, <1>8, <1>11, <1>12, <1>13, <1>14, <1>15, <1>16 DEF Follows
  <1> QED BY <1>4, <1>5, <1>10, <1>17 DEF a, u, y

\* A body, before or behind its headers.
LEMMA BodySent ==
  ASSUME NEW r \in Responses, NEW w \in Readers, Follows(r, w), ~r.complete,
         NEW e \in Occurring, NEW b \in BOOLEAN
  PROVE  LET o == Body(r, e, b)
         IN o.response \in Responses /\ Read(w, o.wire) \in Readers /\ Follows(o.response, Read(w, o.wire))
  <1> DEFINE h == IF r.started THEN Outcome(r, Silence, "none") ELSE WriteHeaders(r, b)
             v == ReadItem(w, h.wire.head)
             o == Body(r, e, b)
  <1>1. Silence.head = Nothing /\ Silence.octets = Nothing /\ Silence.end = Nothing
    BY DEF Silence
  <1>2. Read(w, Silence) = w
    BY <1>1, NothingRead DEF Read
  <1>3. CASE r.status = "none"
    <2>1. o.response = r /\ o.wire = Silence
      BY <1>3 DEF Body, Fault, Outcome
    <2> QED BY <1>2, <2>1
  <1>4. CASE r.status # "none"
    <2>1. /\ h.response \in Responses /\ v \in Readers /\ Follows(h.response, v)
          /\ h.wire.octets = Nothing /\ h.wire.end = Nothing
          /\ h.error = "none" => h.response.started /\ ~h.response.complete
          /\ h.wire = [Silence EXCEPT !.head = h.wire.head]
      <3>1. CASE r.started
        <4>1. h.response = r /\ h.wire = Silence /\ h.error = "none"
          BY <3>1 DEF Outcome
        <4>2. v = w
          BY <1>1, <4>1, NothingRead
        <4>3. Silence = [Silence EXCEPT !.head = Silence.head]
          BY DEF Silence
        <4> HIDE DEF h, v
        <4> QED BY <1>1, <3>1, <4>1, <4>2, <4>3
      <3>2. CASE ~r.started
        <4>1. r.status = "set"
          BY <1>4 DEF Responses
        <4>2. h = WriteHeaders(r, b)
          BY <3>2
        <4>3. h.wire = [Silence EXCEPT !.head = h.wire.head]
          BY <4>2 DEF WriteHeaders, Outcome, Fault, Silence
        <4> HIDE DEF h
        <4> QED BY <3>2, <4>1, <4>2, <4>3, HeadFollows
      <3> QED BY <3>1, <3>2
    <2>2. Read(w, h.wire) = v
      BY <2>1, NothingRead DEF Read
    <2> HIDE DEF v
    <2>3. CASE h.error # "none"
      <3>1. o = h
        BY <1>4, <2>3 DEF Body
      <3> HIDE DEF h, o
      <3> QED BY <2>1, <2>2, <3>1 DEF o
    <2>4. CASE h.error = "none" /\ (h.response.remaining = TrailerPhase \/ ~BodyFits(h.response, e))
      <3>1. o = Fault(h.response, h.wire)
        BY <1>4, <2>4 DEF Body
      <3> HIDE DEF h, o
      <3>2. o.response = h.response /\ o.wire = h.wire
        BY <3>1 DEF Fault, Outcome
      <3> QED BY <2>1, <2>2, <3>2 DEF o
    <2>5. CASE h.error = "none" /\ h.response.remaining # TrailerPhase /\ BodyFits(h.response, e)
      <3>1. o = Outcome(AfterBody(h.response, e), WithBody(h.wire, h.response, e), "none")
        BY <1>4, <2>5 DEF Body
      <3> HIDE DEF h, o
      <3>2. o.response = AfterBody(h.response, e) /\ o.wire = WithBody(h.wire, h.response, e)
        BY <3>1 DEF Outcome
      <3> DEFINE x == WithBody(h.wire, h.response, e)
      <3>3. /\ AfterBody(h.response, e) \in Responses
            /\ ReadItem(ReadItem(v, x.octets), x.end) \in Readers
            /\ Follows(AfterBody(h.response, e), ReadItem(ReadItem(v, x.octets), x.end))
            /\ x.head = h.wire.head
        BY <2>1, <2>5, BodyFollows
      <3>4. Read(w, x) = ReadItem(ReadItem(v, x.octets), x.end)
        BY <3>3 DEF Read, v
      <3> QED BY <3>2, <3>3, <3>4 DEF o
    <2> QED BY <2>3, <2>4, <2>5
  <1> QED BY <1>3, <1>4

\* Trailers end a response that announced them.
LEMMA TrailersFollow ==
  ASSUME NEW r \in Responses, NEW w \in Readers, Follows(r, w), ~r.complete, NEW e \in Occurring
  PROVE  LET o == TrailersSent(r, e)
         IN o.response \in Responses /\ Read(w, o.wire) \in Readers /\ Follows(o.response, Read(w, o.wire))
  <1> DEFINE o == TrailersSent(r, e)
  <1>1. Silence.head = Nothing /\ Silence.octets = Nothing /\ Silence.end = Nothing
    BY DEF Silence
  <1>2. Read(w, Silence) = w
    BY <1>1, NothingRead DEF Read
  <1>3. CASE "app" \notin r.trailers \/ r.remaining # TrailerPhase \/ e.invalid
    <2>1. o.response = r /\ o.wire = Silence
      BY <1>3 DEF TrailersSent, Fault, Outcome
    <2> QED BY <1>2, <2>1
  <1>4. CASE ~("app" \notin r.trailers \/ r.remaining # TrailerPhase \/ e.invalid)
    <2> DEFINE d == ~e.more
               a == [r EXCEPT !.complete = d]
               z == IF WireTrailers(r) /\ d THEN Item("end", "none", 0) ELSE Nothing
               x == [Silence EXCEPT !.end = z]
               u == ReadItem(w, z)
    <2>1. o = Outcome(a, x, "none")
      BY <1>4 DEF TrailersSent
    <2>2. o.response = a /\ o.wire = x
      BY <2>1 DEF Outcome
    <2>3. a \in Responses /\ a.complete = d /\ a.started = r.started /\ a.suppress = r.suppress /\ a.chunked = r.chunked
          /\ a.trailers = r.trailers /\ a.close = r.close /\ a.status = r.status /\ a.remaining = r.remaining
      <3>1. d \in BOOLEAN
        OBVIOUS
      <3> HIDE DEF d
      <3> QED BY <3>1 DEF Responses
    <2>4. Read(w, x) = u
      <3>1. x.head = Nothing /\ x.octets = Nothing /\ x.end = z
        BY <1>1 DEF Silence
      <3> HIDE DEF x, z
      <3> QED BY <3>1, NothingRead DEF Read
    <2>5. r.started
      BY <1>4, Codes DEF Follows
    <2>6. WireTrailers(a) = WireTrailers(r)
      BY <2>3 DEF WireTrailers
    <2>7. CASE WireTrailers(r) /\ d
      <3>1. r.chunked /\ ~r.suppress /\ w.stage = "trailers"
        BY <1>4, <2>5, <2>7 DEF Follows, WireTrailers
      <3>2. z.part = "end"
        BY <2>7 DEF Item
      <3> HIDE DEF z
      <3>3. u = [w EXCEPT !.stage = "ended"]
        BY <3>1, <3>2 DEF ReadItem
      <3>4. u \in Readers /\ u.stage = "ended" /\ u.framing = w.framing
        BY <3>3 DEF Readers
      <3> HIDE DEF u, a, x, o
      <3>5. Follows(a, u)
        BY <2>3, <2>5, <2>6, <2>7, <3>1, <3>4 DEF Follows
      <3> QED BY <2>2, <2>3, <2>4, <3>4, <3>5 DEF o
    <2>8. CASE ~(WireTrailers(r) /\ d)
      <3>1. u = w
        <4>1. z = Nothing
          BY <2>8
        <4> HIDE DEF z
        <4> QED BY <4>1, NothingRead
      <3> HIDE DEF u, a, x, o
      <3>2. Follows(a, w)
        BY <1>4, <2>3, <2>5, <2>6, <2>8, Codes DEF Follows
      <3> QED BY <2>2, <2>3, <2>4, <3>1, <3>2 DEF o
    <2> QED BY <2>7, <2>8
  <1> QED BY <1>3, <1>4

\* The start of a response is kept until its body begins.
LEMMA StartFollows ==
  ASSUME NEW r \in Responses, NEW w \in Readers, Follows(r, w), NEW e \in Occurring
  PROVE  LET o == Start(r, e)
         IN o.response \in Responses /\ Read(w, o.wire) \in Readers /\ Follows(o.response, Read(w, o.wire))
  <1> DEFINE o == Start(r, e)
             t == r.trailers \cup IF e.trailers THEN {"app"} ELSE {}
             a == [r EXCEPT !.status = "set", !.headers = e, !.trailers = t]
  <1>1. Silence.head = Nothing /\ Silence.octets = Nothing /\ Silence.end = Nothing
    BY DEF Silence
  <1>2. Read(w, Silence) = w
    BY <1>1, NothingRead DEF Read
  <1>3. CASE r.status # "none"
    <2>1. o.response = r /\ o.wire = Silence
      BY <1>3 DEF Start, Fault, Outcome
    <2> QED BY <1>2, <2>1
  <1>4. CASE r.status = "none"
    <2>1. o.response = a /\ o.wire = Silence
      BY <1>4 DEF Start, Outcome
    <2>2. t \in SUBSET {"client", "app"}
      BY DEF Responses
    <2> HIDE DEF t
    <2>3. a \in Responses /\ a.complete = r.complete /\ a.started = r.started /\ a.chunked = r.chunked
          /\ a.remaining = r.remaining
      BY <2>2 DEF Responses
    <2> HIDE DEF a, o
    <2>4. ~r.started
      BY <1>4 DEF Follows
    <2>5. Follows(a, w)
      BY <2>3, <2>4 DEF Follows
    <2> QED BY <1>2, <2>1, <2>3, <2>5 DEF o
  <1> QED BY <1>3, <1>4

\* Whatever an application sends, in whatever order, what the client has read
\* is what the response announced, and whole when the response is complete.
LEMMA SendFollows ==
  ASSUME NEW r \in Responses, NEW w \in Readers, Follows(r, w), NEW e \in Occurring, e.kind # "",
         NEW b \in BOOLEAN, NEW closing \in BOOLEAN
  PROVE  LET o == Send(r, e, b, closing)
         IN o.response \in Responses /\ Read(w, o.wire) \in Readers /\ Follows(o.response, Read(w, o.wire))
  <1> DEFINE o == Send(r, e, b, closing)
  <1>1. CASE r.complete \/ closing
    <2>1. o.response = r /\ o.wire = Silence
      BY <1>1 DEF Send, Outcome
    <2>2. Silence.head = Nothing /\ Silence.octets = Nothing /\ Silence.end = Nothing
      BY DEF Silence
    <2>3. Read(w, Silence) = w
      BY <2>2, NothingRead DEF Read
    <2> QED BY <2>1, <2>3
  <1>2. CASE ~(r.complete \/ closing)
    <2>1. e.kind \in {"start", "body", "trailers"}
      BY DEF Occurring
    <2>2. CASE e.kind = "start"
      <3>1. o = Start(r, e)
        BY <1>2, <2>2 DEF Send
      <3> QED BY <3>1, StartFollows
    <2>3. CASE e.kind = "body"
      <3>1. o = Body(r, e, b)
        BY <1>2, <2>3 DEF Send
      <3> QED BY <1>2, <3>1, BodySent
    <2>4. CASE e.kind = "trailers"
      <3>1. o = TrailersSent(r, e)
        BY <1>2, <2>4 DEF Send
      <3> QED BY <1>2, <3>1, TrailersFollow
    <2> QED BY <2>1, <2>2, <2>3, <2>4
  <1> QED BY <1>1, <1>2

-----------------------------------------------------------------------------
(* The connections                                                         *)

Held == Live \ {"rejecting"}

\* What a client has read, and how much of a request and of a connection is left.
Exchange(k) ==
  /\ k.client.stage # "broken"
  /\ k.at = "call" /\ ~k.forced /\ ~k.request.upgrade => Follows(k.response, k.client)
  /\ k.at = "flush" /\ ~k.forced => k.response.complete /\ Follows(k.response, k.client)
  /\ k.at = "head" /\ k.number > 0 /\ k.peer = "open" => k.client.stage = "ended" /\ k.left = 0
  /\ k.done /\ k.peer = "open" => k.left = 0
  /\ k.at \in {"none", "accepted"} => k.number = 0
  /\ k.at = "head" /\ ~k.forced => k.number < MaxRequests
  /\ k.at \in {"call", "flush"} /\ ~k.forced => k.number > 0 /\ (k.request.keepAlive => k.number < MaxRequests)

\* A transport that closes under a call was lost or closed by the client; the
\* drain closes only those whose next request is awaited.
Attached(k, d) ==
  /\ k.at = "none" => k.transport = "none"
  /\ k.at \in {"accepted", "head", "call", "flush"} => k.transport # "none"
  /\ k.at \in {"accepted", "head", "call", "flush"} /\ k.transport = "closed" => k.peer # "open"
  /\ k.at \in {"accepted", "head"} /\ k.transport = "closing" => d
  /\ k.at \in {"call", "flush"} => k.phase # "idle" /\ k.transport # "closing"
  /\ k.forced => /\ k.request = NoRequest /\ k.response = NoResponse /\ k.peer = "lost"
                 /\ ~k.ahead /\ k.transport = "closed" /\ k.waiters = {} /\ k.woken = {}
                 /\ k.at \in Live

Listening(k) ==
  /\ k.waiters # {} => k.hooked
  /\ k.waiters \cup k.woken \subseteq 1 .. k.number
  /\ k.number \in k.waiters \ k.woken => ~k.response.complete /\ (k.peer # "open" => k.missed)

\* What holds of every connection; d says that the server drains.
Steady(k, d) == k \in Connections /\ Exchange(k) /\ Attached(k, d) /\ Listening(k)

\* What leaving a connection asks of what it knew.
Leavable(k) ==
  /\ k \in Connections /\ k.client.stage # "broken"
  /\ k.done /\ k.peer = "open" => k.left = 0
  /\ k.waiters # {} => k.hooked
  /\ k.waiters \cup k.woken \subseteq 1 .. k.number
  /\ k.number \in k.waiters \ k.woken => (k.peer # "open" => k.missed)
  /\ k.forced => k.peer = "lost" /\ ~k.ahead /\ k.transport = "closed" /\ k.waiters = {} /\ k.woken = {}

\* Two states of a connection between which only its end was noticed.
Alike(l, k) ==
  /\ l.at = k.at /\ l.phase = k.phase /\ l.forced = k.forced /\ l.ahead = k.ahead /\ l.number = k.number
  /\ l.request = k.request /\ l.response = k.response /\ l.client = k.client /\ l.left = k.left
  /\ l.done = k.done /\ l.final = k.final /\ l.hooked = k.hooked /\ l.missed = k.missed

\* What a connection begins with.
LEMMA Blank == NoRequest \in Asks /\ NoResponse \in Responses /\ Unread \in Readers /\ NoConn \in Connections
               /\ ~NoResponse.complete /\ ~NoRequest.upgrade /\ ~NoRequest.keepAlive
  <1>1. NoRequest \in Asks /\ ~NoRequest.upgrade /\ ~NoRequest.keepAlive /\ ~NoResponse.complete
    BY DEF NoRequest, Asks, NoResponse
  <1>2. NoConn \in Connections
    <2>1. 0 \in 0 .. MaxRequests
      BY AsgiAssumption
    <2> QED BY <1>1, <2>1, Codes DEF NoConn, Connections, Live
  <1> QED BY <1>1, <1>2, Codes

\* Its end is noticed: who waits is woken.
LEMMA Disconnected ==
  ASSUME NEW k \in Connections
  PROVE  LET l == Disconnect(k)
         IN /\ l \in Connections /\ Alike(l, k) /\ l.transport = k.transport /\ l.peer = k.peer
            /\ l.waiters = {} /\ l.woken = k.woken \cup k.waiters
  <1> DEFINE m == [k EXCEPT !.heard = TRUE]
             x == k.woken \cup k.waiters
             l == Disconnect(k)
  <1>1. m.woken = k.woken /\ m.waiters = k.waiters
    BY DEF Connections
  <1>2. l = [m EXCEPT !.woken = x, !.waiters = {}]
    BY <1>1 DEF Disconnect, Wake
  <1>3. x \in SUBSET (1..MaxRequests)
    BY DEF Connections
  <1> HIDE DEF x, l
  <1>4. /\ l \in Connections /\ l.waiters = {} /\ l.woken = x /\ l.transport = k.transport /\ l.peer = k.peer
        /\ l.at = k.at /\ l.phase = k.phase /\ l.forced = k.forced /\ l.ahead = k.ahead /\ l.number = k.number
        /\ l.request = k.request /\ l.response = k.response /\ l.client = k.client /\ l.left = k.left
        /\ l.done = k.done /\ l.final = k.final /\ l.hooked = k.hooked /\ l.missed = k.missed
    BY <1>2, <1>3 DEF Connections
  <1> QED BY <1>4 DEF Alike, l, x

LEMMA HookedTold ==
  ASSUME NEW k \in Connections, k.waiters # {} => k.hooked
  PROVE  LET l == IfHooked(k)
         IN /\ l \in Connections /\ Alike(l, k) /\ l.transport = k.transport /\ l.peer = k.peer
            /\ l.waiters = {} /\ l.woken \in {k.woken, k.woken \cup k.waiters}
  <1>1. CASE k.hooked
    BY <1>1, Disconnected DEF IfHooked
  <1>2. CASE ~k.hooked
    <2>1. IfHooked(k) = k
      BY <1>2 DEF IfHooked
    <2> QED BY <1>2, <2>1 DEF Alike
  <1> QED BY <1>1, <1>2 DEF Connections

\* Its transport is aborted.
LEMMA TransportAborted ==
  ASSUME NEW k \in Connections, k.waiters # {} => k.hooked
  PROVE  LET l == AbortTransport(k)
         IN /\ l \in Connections /\ Alike(l, k) /\ l.transport = "closed"
            /\ k.transport = "closed" => l = k
            /\ k.transport # "closed" =>
                 /\ l.peer # "open" /\ l.waiters = {} /\ l.woken \in {k.woken, k.woken \cup k.waiters}
                 /\ k.peer = "lost" => l.peer = "lost"
  <1>1. CASE k.transport = "closed"
    <2>1. AbortTransport(k) = k
      BY <1>1 DEF AbortTransport
    <2> QED BY <1>1, <2>1 DEF Alike
  <1>2. CASE k.transport # "closed"
    <2> DEFINE p == IF k.peer = "open" THEN "eof" ELSE k.peer
               m == [k EXCEPT !.transport = "closed", !.peer = p]
    <2>1. AbortTransport(k) = IfHooked(m)
      BY <1>2 DEF AbortTransport
    <2>2. p \in {"eof", "lost"} /\ (k.peer = "lost" => p = "lost")
      BY DEF Connections
    <2> HIDE DEF p
    <2>3. m \in Connections /\ Alike(m, k) /\ m.transport = "closed" /\ m.peer = p /\ m.waiters = k.waiters
          /\ m.woken = k.woken
      BY <2>2 DEF Connections, Alike
    <2> HIDE DEF m
    <2>4. m.waiters # {} => m.hooked
      BY <2>3 DEF Alike
    <2>5. /\ IfHooked(m) \in Connections /\ Alike(IfHooked(m), m) /\ IfHooked(m).transport = "closed"
          /\ IfHooked(m).peer = p /\ IfHooked(m).waiters = {} /\ IfHooked(m).woken \in {k.woken, k.woken \cup k.waiters}
      BY <2>3, <2>4, HookedTold
    <2>6. Alike(IfHooked(m), k)
      BY <2>3, <2>5 DEF Alike
    <2> QED BY <1>2, <2>1, <2>2, <2>5, <2>6
  <1> QED BY <1>1, <1>2

LEMMA AbortedLeavable == ASSUME NEW k, Leavable(k) PROVE Leavable(AbortTransport(k))
  <1> DEFINE l == AbortTransport(k)
  <1>1. /\ k \in Connections /\ k.client.stage # "broken" /\ (k.waiters # {} => k.hooked)
        /\ (k.done /\ k.peer = "open" => k.left = 0) /\ k.waiters \cup k.woken \subseteq 1 .. k.number
    BY DEF Leavable
  <1>2. l \in Connections /\ Alike(l, k) /\ l.transport = "closed" /\ (k.transport = "closed" => l = k)
        /\ (k.transport # "closed" => /\ l.peer # "open" /\ l.waiters = {}
                                      /\ l.woken \in {k.woken, k.woken \cup k.waiters}
                                      /\ (k.peer = "lost" => l.peer = "lost"))
    BY <1>1, TransportAborted
  <1> HIDE DEF l
  <1>3. CASE k.transport = "closed"
    BY <1>2, <1>3 DEF l
  <1>4. CASE k.transport # "closed"
    <2>1. ~k.forced
      BY <1>4 DEF Leavable
    <2> QED BY <1>1, <1>2, <1>4, <2>1 DEF Leavable, Alike, l
  <1> QED BY <1>3, <1>4

\* It is left, for whatever reason.
LEMMA Left ==
  ASSUME NEW k, Leavable(k), NEW d
  PROVE  LET l == Leave(k)
         IN Steady(l, d) /\ l.at = "closing" /\ l.forced = k.forced /\ l.number = k.number
  <1> DEFINE t == IF k.transport = "open" THEN "closing" ELSE k.transport
             l == Leave(k)
  <1>1. k \in Connections
    BY DEF Leavable
  <1>2. l = [k EXCEPT !.request = NoRequest, !.response = NoResponse, !.at = "closing", !.transport = t]
    <2> DEFINE m == [Forget(k) EXCEPT !.at = "closing"]
    <2>1. m = [k EXCEPT !.request = NoRequest, !.response = NoResponse, !.at = "closing"]
      BY DEF Forget
    <2>2. m.transport = k.transport
      BY <1>1, <2>1 DEF Connections
    <2> HIDE DEF m
    <2>3. l = [m EXCEPT !.transport = IF m.transport = "open" THEN "closing" ELSE m.transport]
      BY DEF Leave, CloseWriter, m
    <2> QED BY <2>1, <2>2, <2>3
  <1>3. t \in {"none", "open", "closing", "closed"} /\ (k.transport = "closed" => t = "closed")
    BY <1>1 DEF Connections
  <1> HIDE DEF t, l
  <1>4. /\ l \in Connections /\ l.at = "closing" /\ l.forced = k.forced /\ l.number = k.number /\ l.transport = t
        /\ l.request = NoRequest /\ l.response = NoResponse /\ l.client = k.client /\ l.peer = k.peer
        /\ l.done = k.done /\ l.left = k.left /\ l.waiters = k.waiters /\ l.woken = k.woken /\ l.hooked = k.hooked
        /\ l.missed = k.missed /\ l.ahead = k.ahead
    BY <1>1, <1>2, <1>3, Blank DEF Connections, Live
  <1>5. "closing" \in Live
    BY DEF Live
  <1>6. Exchange(l) /\ Attached(l, d) /\ Listening(l)
    BY <1>3, <1>4, <1>5, Blank DEF Leavable, Exchange, Attached, Listening
  <1> QED BY <1>4, <1>6 DEF Steady, l

LEMMA SteadyLeavable == ASSUME NEW k, NEW d, Steady(k, d) PROVE Leavable(k)
  BY DEF Steady, Leavable, Exchange, Attached, Listening

-----------------------------------------------------------------------------
(* The steps of a connection that was admitted                             *)

\* A connection that keeps its slot goes from k to l.
Inside(k, l, d) ==
  /\ Steady(l, d) /\ l.forced = k.forced
  /\ l.at = k.at \/ (k.at \in Held /\ l.at \in Held)
  /\ d /\ l.at = "call" => k.at = "call"

LEMMA Places == Held \subseteq Live /\ {"head", "call", "flush", "reply", "closing"} = Held
                /\ "rejecting" \notin Held /\ "rejecting" \in Live
                /\ {"none", "accepted", "refusing", "done"} \cap Live = {}
  BY DEF Held, Live

LEMMA LeavesSteady ==
  ASSUME NEW k, NEW d, Steady(k, d), k.at \in Held
  PROVE  Inside(k, Leave(k), d) /\ Inside(k, Leave(AbortTransport(k)), d)
  <1>1. Leavable(k) /\ Leavable(AbortTransport(k))
    BY SteadyLeavable, AbortedLeavable
  <1>2. AbortTransport(k).forced = k.forced
    BY TransportAborted DEF Steady, Listening, Alike
  <1>3. Steady(Leave(k), d) /\ Leave(k).at = "closing" /\ Leave(k).forced = k.forced
    BY <1>1, Left
  <1>4. Steady(Leave(AbortTransport(k)), d) /\ Leave(AbortTransport(k)).at = "closing"
        /\ Leave(AbortTransport(k)).forced = k.forced
    BY <1>1, <1>2, Left
  <1> QED BY <1>3, <1>4, Places DEF Inside

LEMMA ClientSent ==
  ASSUME NEW k, NEW d, Steady(k, d), ~k.forced
  PROVE  Inside(k, [k EXCEPT !.ahead = TRUE], d)
  <1> DEFINE l == [k EXCEPT !.ahead = TRUE]
  <1>1. k \in Connections
    BY DEF Steady
  <1>2. /\ l \in Connections /\ l.transport = k.transport /\ l.peer = k.peer
        /\ l.at = k.at /\ l.phase = k.phase /\ l.forced = k.forced /\ l.number = k.number
        /\ l.request = k.request /\ l.response = k.response /\ l.client = k.client /\ l.left = k.left
        /\ l.done = k.done /\ l.hooked = k.hooked /\ l.missed = k.missed /\ l.waiters = k.waiters /\ l.woken = k.woken
    BY <1>1 DEF Connections
  <1> HIDE DEF l
  <1>3. Exchange(l) /\ Attached(l, d) /\ Listening(l)
    BY <1>2 DEF Steady, Exchange, Attached, Listening
  <1> QED BY <1>2, <1>3 DEF Inside, Steady, l

\* The end of a client, noticed.
LEMMA EndNoticed ==
  ASSUME NEW k, NEW d, Steady(k, d), ~k.forced, NEW p \in {"eof", "lost"}, NEW t \in {k.transport, "closed"},
         k.at # "none"
  PROVE  Inside(k, IfHooked([k EXCEPT !.peer = p, !.transport = t]), d)
  <1> DEFINE m == [k EXCEPT !.peer = p, !.transport = t]
             l == IfHooked(m)
  <1>1. k \in Connections /\ (k.waiters # {} => k.hooked)
    BY DEF Steady, Listening
  <1>2. t \in {"none", "open", "closing", "closed"}
    BY <1>1 DEF Connections
  <1>3. m \in Connections /\ Alike(m, k) /\ m.peer = p /\ m.transport = t /\ m.waiters = k.waiters /\ m.woken = k.woken
    BY <1>1, <1>2 DEF Connections, Alike
  <1> HIDE DEF m
  <1>4. m.waiters # {} => m.hooked
    BY <1>1, <1>3 DEF Alike
  <1>5. l \in Connections /\ Alike(l, m) /\ l.transport = t /\ l.peer = p /\ l.waiters = {} /\ l.woken \in {m.woken, m.woken \cup m.waiters}
    BY <1>3, <1>4, HookedTold
  <1> HIDE DEF l
  <1>6. Alike(l, k)
    BY <1>3, <1>5 DEF Alike
  <1>7. k.at = "none" => t = "none"
    OBVIOUS
  <1>8. Exchange(l)
    BY <1>5, <1>6 DEF Steady, Exchange, Alike
  <1>9. Attached(l, d)
    BY <1>5, <1>6, <1>7 DEF Steady, Attached, Alike
  <1>10. Listening(l)
    BY <1>3, <1>5, <1>6 DEF Steady, Listening, Alike
  <1>11. l.forced = k.forced /\ l.at = k.at
    BY <1>6 DEF Alike
  <1> QED BY <1>5, <1>8, <1>9, <1>10, <1>11 DEF Inside, Steady, l, m

LEMMA ClosingAborted ==
  ASSUME NEW k, NEW d, Steady(k, d), k.transport = "closing"
  PROVE  Inside(k, AbortTransport(k), d)
  <1> DEFINE l == AbortTransport(k)
  <1>1. /\ l \in Connections /\ Alike(l, k) /\ l.transport = "closed"
        /\ l.peer # "open" /\ l.waiters = {} /\ l.woken \in {k.woken, k.woken \cup k.waiters}
    BY TransportAborted DEF Steady, Listening
  <1>2. ~k.forced /\ k.at # "none"
    BY DEF Steady, Attached
  <1> HIDE DEF l
  <1>3. Exchange(l)
    BY <1>1, <1>2 DEF Steady, Exchange, Alike
  <1>4. Attached(l, d)
    BY <1>1, <1>2 DEF Steady, Attached, Alike
  <1>5. Listening(l)
    BY <1>1, <1>2 DEF Steady, Listening, Alike
  <1> QED BY <1>1, <1>3, <1>4, <1>5 DEF Inside, Steady, Alike, l

\* A request head was taken: the answer to it is not begun.
Taken(k) == [k EXCEPT !.ahead = FALSE, !.client = Unread, !.number = @ + 1, !.missed = FALSE]
LEMMA HeadTaken ==
  ASSUME NEW k, NEW d, Steady(k, d), k.at = "head", k.peer # "lost"
  PROVE  LET l == Taken(k)
         IN /\ Leavable(l) /\ ~l.forced /\ l.at = "head" /\ l.number \in 1 .. MaxRequests /\ l.client = Unread
            /\ l.number \notin l.waiters \cup l.woken /\ l.transport = k.transport /\ l.peer = k.peer
  <1> DEFINE n == k.number + 1
             l == Taken(k)
  <1>1. k \in Connections /\ ~k.forced /\ k.number < MaxRequests /\ k.number \in 0 .. MaxRequests
    BY DEF Steady, Exchange, Attached, Connections
  <1>2. n \in 1 .. MaxRequests /\ n \in 0 .. MaxRequests /\ 1 .. k.number \subseteq 1 .. n /\ n \notin 1 .. k.number
    BY <1>1, AsgiAssumption
  <1>3. l = [k EXCEPT !.ahead = FALSE, !.client = Unread, !.number = n, !.missed = FALSE]
    BY DEF Taken
  <1> HIDE DEF n, l
  <1>4. /\ l \in Connections /\ ~l.ahead /\ l.client = Unread /\ l.number = n /\ ~l.missed
        /\ l.at = k.at /\ l.phase = k.phase /\ l.forced = k.forced /\ l.transport = k.transport /\ l.peer = k.peer
        /\ l.left = k.left /\ l.done = k.done /\ l.hooked = k.hooked /\ l.waiters = k.waiters /\ l.woken = k.woken
    BY <1>1, <1>2, <1>3, Blank DEF Connections
  <1>5. l.client.stage # "broken"
    BY <1>4 DEF Unread
  <1>6. k.waiters \cup k.woken \subseteq 1 .. k.number
    BY DEF Steady, Listening
  <1>7. l.waiters \cup l.woken \subseteq 1 .. l.number /\ l.number \notin l.waiters \cup l.woken
    BY <1>2, <1>4, <1>6
  <1>8. (l.done /\ l.peer = "open" => l.left = 0) /\ (l.waiters # {} => l.hooked)
    BY <1>4 DEF Steady, Exchange, Listening
  <1>9. Leavable(l)
    BY <1>1, <1>4, <1>5, <1>7, <1>8 DEF Leavable
  <1> QED BY <1>1, <1>2, <1>4, <1>7, <1>9 DEF l

\* The application is called for a request.
LEMMA CallBegins ==
  ASSUME NEW k, Leavable(k), ~k.forced, k.number \in 1 .. MaxRequests, k.client = Unread,
         k.number \notin k.waiters \cup k.woken, k.transport \in {"open", "closed"},
         k.transport = "closed" => k.peer # "open", NEW q \in Asks, NEW d
  PROVE  LET l == Called(k, q) IN Steady(l, d) /\ ~l.forced /\ l.at = "call"
  <1> DEFINE a == q.keepAlive /\ k.number < MaxRequests
             r == [q EXCEPT !.keepAlive = a]
             f == IF q.upgrade THEN "websocket" ELSE "http"
             b == ~q.chunked /\ q.parts = 0
             p == q.parts
             l == Called(k, q)
  <1>1. a \in BOOLEAN /\ b \in BOOLEAN /\ f \in {"http", "websocket"} /\ p \in Nat
    BY DEF Asks
  <1>2. r \in Asks /\ r.keepAlive = a /\ r.upgrade = q.upgrade
    <2> HIDE DEF a
    <2> QED BY <1>1 DEF Asks
  <1>3. NewResponse(r) \in Responses /\ Follows(NewResponse(r), Unread)
    BY <1>2, NewFollows
  <1>4. l = [k EXCEPT !.at = "call", !.phase = f, !.request = r, !.response = NewResponse(r), !.left = p,
                      !.done = b, !.final = FALSE]
    BY DEF Called
  <1>5. k \in Connections
    BY DEF Leavable
  <1>6. b => p = 0
    OBVIOUS
  <1>7. ~NewResponse(r).complete
    BY DEF NewResponse, NoResponse
  <1> HIDE DEF a, r, f, b, p, l
  <1>8. /\ l \in Connections /\ l.at = "call" /\ l.phase = f /\ l.request = r /\ l.response = NewResponse(r)
        /\ l.left = p /\ l.done = b /\ l.forced = k.forced /\ l.transport = k.transport /\ l.peer = k.peer
        /\ l.number = k.number /\ l.client = k.client /\ l.hooked = k.hooked /\ l.waiters = k.waiters
        /\ l.woken = k.woken
    <2>1. f \in {"idle", "http", "websocket"} /\ "call" \in Live \cup {"none", "accepted", "refusing", "done"}
      BY <1>1 DEF Live
    <2> QED BY <1>1, <1>2, <1>3, <1>4, <1>5, <2>1 DEF Connections
  <1>9. Exchange(l)
    <2>4. k.number > 0
      BY AsgiAssumption
    <2>5. a => k.number < MaxRequests
      BY DEF a
    <2>1. k.number > 0 /\ (r.keepAlive => k.number < MaxRequests)
      BY <1>2, <2>4, <2>5
    <2>2. Follows(l.response, l.client) /\ l.client.stage # "broken" /\ (l.done => l.left = 0)
      BY <1>3, <1>6, <1>8 DEF Leavable
    <2>3. l.number > 0 /\ (l.request.keepAlive => l.number < MaxRequests)
      BY <1>8, <2>1
    <2> QED BY <1>8, <2>2, <2>3 DEF Exchange
  <1>10. Attached(l, d)
    BY <1>1, <1>8 DEF Attached
  <1>11. Listening(l)
    BY <1>8 DEF Listening, Leavable
  <1> QED BY <1>8, <1>9, <1>10, <1>11 DEF Steady, l

\* A connection that only waits for its own reply to be written.
LEMMA ReplyBegins ==
  ASSUME NEW k, NEW d, Leavable(k), k.forced \/ k.number \notin k.waiters \ k.woken \/ ~k.response.complete,
         k.forced => k.request = NoRequest /\ k.response = NoResponse,
         NEW f \in {"idle", "http", "websocket"}
  PROVE  LET l == [k EXCEPT !.at = "reply", !.phase = f]
         IN Steady(l, d) /\ l.forced = k.forced /\ l.at = "reply"
  <1> DEFINE l == [k EXCEPT !.at = "reply", !.phase = f]
  <1>1. k \in Connections
    BY DEF Leavable
  <1>2. /\ l \in Connections /\ l.at = "reply" /\ l.forced = k.forced /\ l.number = k.number /\ l.transport = k.transport
        /\ l.request = k.request /\ l.response = k.response /\ l.client = k.client /\ l.peer = k.peer
        /\ l.done = k.done /\ l.left = k.left /\ l.waiters = k.waiters /\ l.woken = k.woken /\ l.hooked = k.hooked
        /\ l.missed = k.missed /\ l.ahead = k.ahead
    BY <1>1 DEF Connections, Live
  <1> HIDE DEF l
  <1>3. Exchange(l) /\ Attached(l, d) /\ Listening(l)
    BY <1>2, Places DEF Leavable, Exchange, Attached, Listening
  <1> QED BY <1>2, <1>3 DEF Steady, l

\* The end of a response wakes who waits for it.
LEMMA ResponseDone ==
  ASSUME NEW k \in Connections, k.waiters # {} => k.hooked
  PROVE  LET l == Completed(k)
         IN /\ l \in Connections /\ Alike(l, k) /\ l.transport = k.transport /\ l.peer = k.peer
            /\ l.waiters = k.waiters
            /\ l.woken = IF k.response.complete THEN k.woken \cup (k.waiters \cap {k.number}) ELSE k.woken
  <1>1. CASE k.response.complete
    <2> DEFINE x == k.woken \cup (k.waiters \cap {k.number})
               l == [k EXCEPT !.woken = x]
    <2>1. Completed(k) = l
      BY <1>1 DEF Completed
    <2>2. x \in SUBSET (1..MaxRequests)
      BY DEF Connections
    <2> HIDE DEF x
    <2>3. l \in Connections /\ Alike(l, k) /\ l.transport = k.transport /\ l.peer = k.peer
            /\ l.waiters = k.waiters /\ l.woken = x
      BY <2>2 DEF Connections, Alike
    <2> QED BY <1>1, <2>1, <2>3 DEF x
  <1>2. CASE ~k.response.complete
    <2>1. Completed(k) = k
      BY <1>2 DEF Completed
    <2> QED BY <1>2, <2>1 DEF Alike
  <1> QED BY <1>1, <1>2

\* Its application runs.
Serving(k, d) == Steady(k, d) /\ k.at = "call" /\ ~k.forced /\ ~k.request.upgrade

\* One lemma for each call of the application.
LEMMA SendServed ==
  ASSUME NEW k, NEW d, Serving(k, d), NEW e \in Events
  PROVE  LET o == Send(k.response, e, k.done, k.transport # "open")
         IN Inside(k, Completed([k EXCEPT !.response = o.response, !.client = Read(@, o.wire)]), d)
  <1> DEFINE o == Send(k.response, e, k.done, k.transport # "open")
             v == Read(k.client, o.wire)
             m == [k EXCEPT !.response = o.response, !.client = v]
             l == Completed(m)
  <1>1. k \in Connections /\ Follows(k.response, k.client) /\ (k.waiters # {} => k.hooked)
    BY DEF Serving, Steady, Exchange, Listening
  <1>2. k.response \in Responses /\ k.client \in Readers /\ k.done \in BOOLEAN
    BY <1>1 DEF Connections
  <1>3. o.response \in Responses /\ v \in Readers /\ Follows(o.response, v)
    <2>1. e \in Occurring /\ e.kind # "" /\ (k.transport # "open") \in BOOLEAN
      BY EventsAssumption
    <2> QED BY <1>1, <1>2, <2>1, SendFollows
  <1>4. [k EXCEPT !.response = o.response, !.client = Read(@, o.wire)] = m
    OBVIOUS
  <1> HIDE DEF v, o
  <1>5. /\ m \in Connections /\ m.response = o.response /\ m.client = v
        /\ m.at = k.at /\ m.phase = k.phase /\ m.forced = k.forced /\ m.transport = k.transport /\ m.peer = k.peer
        /\ m.number = k.number /\ m.request = k.request /\ m.left = k.left /\ m.done = k.done
        /\ m.hooked = k.hooked /\ m.missed = k.missed /\ m.waiters = k.waiters /\ m.woken = k.woken
    BY <1>1, <1>3 DEF Connections
  <1> HIDE DEF m
  <1>6. m.waiters # {} => m.hooked
    BY <1>1, <1>5
  <1>7. /\ l \in Connections /\ Alike(l, m) /\ l.transport = m.transport /\ l.peer = m.peer
        /\ l.waiters = m.waiters
        /\ l.woken = IF m.response.complete THEN m.woken \cup (m.waiters \cap {m.number}) ELSE m.woken
    BY <1>5, <1>6, ResponseDone
  <1> HIDE DEF l
  <1>8. Exchange(l)
    <2>1. v.stage # "broken"
      BY <1>3 DEF Follows
    <2> QED BY <1>3, <1>5, <1>7, <2>1 DEF Serving, Steady, Exchange, Alike
  <1>9. Attached(l, d)
    BY <1>5, <1>7 DEF Serving, Steady, Attached, Alike
  <1>10. Listening(l)
    BY <1>5, <1>7 DEF Serving, Steady, Listening, Alike
  <1>11. Inside(k, l, d)
    BY <1>5, <1>7, <1>8, <1>9, <1>10 DEF Inside, Steady, Alike
  <1> QED BY <1>4, <1>11 DEF l, o

LEMMA PartReceived ==
  ASSUME NEW k, NEW d, Serving(k, d), NEW n \in Nat, NEW b \in BOOLEAN, NEW f \in BOOLEAN,
         b /\ k.peer = "open" => n = 0
  PROVE  Inside(k, [k EXCEPT !.left = n, !.done = b, !.final = f], d)
  <1> DEFINE l == [k EXCEPT !.left = n, !.done = b, !.final = f]
  <1>1. k \in Connections
    BY DEF Serving, Steady
  <1>2. /\ l \in Connections /\ l.left = n /\ l.done = b
        /\ l.at = k.at /\ l.phase = k.phase /\ l.forced = k.forced /\ l.transport = k.transport /\ l.peer = k.peer
        /\ l.number = k.number /\ l.request = k.request /\ l.response = k.response /\ l.client = k.client
        /\ l.hooked = k.hooked /\ l.missed = k.missed /\ l.waiters = k.waiters /\ l.woken = k.woken
    BY <1>1 DEF Connections
  <1> HIDE DEF l
  <1>3. Exchange(l)
    BY <1>2 DEF Serving, Steady, Exchange
  <1>4. Attached(l, d)
    BY <1>2 DEF Serving, Steady, Attached
  <1>5. Listening(l)
    BY <1>2 DEF Serving, Steady, Listening
  <1> QED BY <1>2, <1>3, <1>4, <1>5 DEF Inside, Steady, l

LEMMA ReceiveServed ==
  ASSUME NEW k, NEW d, Serving(k, d), NEW l, ~k.final,
         \/ k.done /\ l = [k EXCEPT !.final = TRUE]
         \/ /\ ~k.done /\ k.left > 0
            /\ LET last == k.left = 1 /\ ~k.request.chunked
               IN l = [k EXCEPT !.left = @ - 1, !.done = last, !.final = last]
         \/ ~k.done /\ k.left = 0 /\ l = [k EXCEPT !.done = TRUE, !.final = TRUE]
         \/ /\ ~k.done /\ k.peer # "open"
            /\ l = Disconnect([k EXCEPT !.done = TRUE, !.final = TRUE])
  PROVE  Inside(k, l, d)
  <1>1. k \in Connections /\ k.left \in Nat /\ k.done \in BOOLEAN /\ (k.done /\ k.peer = "open" => k.left = 0)
    BY DEF Serving, Steady, Exchange, Connections
  <1>2. CASE k.done /\ l = [k EXCEPT !.final = TRUE]
    <2>1. l = [k EXCEPT !.left = k.left, !.done = TRUE, !.final = TRUE]
      BY <1>1, <1>2 DEF Connections
    <2>2. Inside(k, [k EXCEPT !.left = k.left, !.done = TRUE, !.final = TRUE], d)
      BY <1>1, <1>2, PartReceived
    <2> QED BY <2>1, <2>2
  <1>3. CASE /\ ~k.done /\ k.left > 0
             /\ LET last == k.left = 1 /\ ~k.request.chunked
                IN l = [k EXCEPT !.left = @ - 1, !.done = last, !.final = last]
    <2> DEFINE last == k.left = 1 /\ ~k.request.chunked
    <2>1. l = [k EXCEPT !.left = k.left - 1, !.done = last, !.final = last]
      BY <1>3
    <2>2. k.left - 1 \in Nat /\ (last => k.left - 1 = 0)
      BY <1>1, <1>3
    <2>3. last \in BOOLEAN
      OBVIOUS
    <2> HIDE DEF last
    <2> QED BY <2>1, <2>2, <2>3, PartReceived
  <1>4. CASE ~k.done /\ k.left = 0 /\ l = [k EXCEPT !.done = TRUE, !.final = TRUE]
    <2>1. l = [k EXCEPT !.left = 0, !.done = TRUE, !.final = TRUE]
      BY <1>1, <1>4 DEF Connections
    <2> QED BY <2>1, PartReceived
  <1>5. CASE ~k.done /\ k.peer # "open" /\ l = Disconnect([k EXCEPT !.done = TRUE, !.final = TRUE])
    <2> DEFINE m == [k EXCEPT !.left = k.left, !.done = TRUE, !.final = TRUE]
    <2>1. m = [k EXCEPT !.done = TRUE, !.final = TRUE]
      BY <1>1 DEF Connections
    <2>2. m.peer = k.peer
      BY <1>1 DEF Connections
    <2>3. Inside(k, m, d)
      BY <1>1, <1>5, PartReceived
    <2>4. l = Disconnect(m)
      BY <1>5, <2>1
    <2> HIDE DEF m
    <2>5. m \in Connections /\ Exchange(m) /\ Attached(m, d) /\ Listening(m) /\ m.forced = k.forced
          /\ (m.at = k.at \/ (k.at \in Held /\ m.at \in Held)) /\ (d /\ m.at = "call" => k.at = "call")
      BY <2>3 DEF Inside, Steady
    <2>6. l \in Connections /\ Alike(l, m) /\ l.transport = m.transport /\ l.peer = m.peer
          /\ l.waiters = {} /\ l.woken = m.woken \cup m.waiters
      BY <2>4, <2>5, Disconnected
    <2>7. ~k.forced
      BY DEF Serving
    <2>8. Exchange(l)
      BY <2>5, <2>6 DEF Exchange, Alike
    <2>9. Attached(l, d)
      BY <2>5, <2>6, <2>7 DEF Attached, Alike
    <2>10. Listening(l)
      BY <2>5, <2>6 DEF Listening, Alike
    <2> QED BY <2>5, <2>6, <2>8, <2>9, <2>10 DEF Inside, Steady, Alike
  <1> QED BY <1>2, <1>3, <1>4, <1>5

LEMMA ListenServed ==
  ASSUME NEW k, NEW d, Serving(k, d), ~k.response.complete
  PROVE  Inside(k, Subscribed(k), d)
  <1>1. k \in Connections /\ k.number \in 1 .. MaxRequests /\ k.waiters \cup k.woken \subseteq 1 .. k.number
        /\ (k.waiters # {} => k.hooked)
    BY DEF Serving, Steady, Exchange, Listening, Connections
  <1>2. Inside(k, k, d)
    BY DEF Serving, Inside
  <1>3. CASE k.heard
    BY <1>2, <1>3 DEF Subscribed
  <1>4. CASE ~k.heard /\ k.peer = "eof" /\ ~k.ahead
    <2> DEFINE l == [k EXCEPT !.heard = TRUE]
    <2>1. Subscribed(k) = l
      BY <1>4 DEF Subscribed
    <2>2. l \in Connections /\ Alike(l, k) /\ l.transport = k.transport /\ l.peer = k.peer
          /\ l.waiters = k.waiters /\ l.woken = k.woken
      BY <1>1 DEF Connections, Alike
    <2> HIDE DEF l
    <2>3. Exchange(l) /\ Attached(l, d) /\ Listening(l)
      BY <2>2 DEF Serving, Steady, Exchange, Attached, Listening, Alike
    <2> QED BY <2>1, <2>2, <2>3 DEF Inside, Steady, Serving, Alike
  <1>5. CASE ~k.heard /\ ~(k.peer = "eof" /\ ~k.ahead)
    <2> DEFINE x == k.waiters \cup {k.number}
               b == k.peer # "open"
               l == [k EXCEPT !.waiters = x, !.hooked = TRUE, !.missed = b]
    <2>1. Subscribed(k) = l
      BY <1>5 DEF Subscribed
    <2>2. x \in SUBSET (1 .. MaxRequests) /\ x \cup k.woken \subseteq 1 .. k.number
      BY <1>1 DEF Connections
    <2>3. b \in BOOLEAN /\ (k.peer # "open" => b)
      OBVIOUS
    <2> HIDE DEF x, b
    <2>4. /\ l \in Connections /\ l.waiters = x /\ l.hooked /\ l.missed = b
          /\ l.at = k.at /\ l.phase = k.phase /\ l.forced = k.forced /\ l.ahead = k.ahead /\ l.number = k.number
          /\ l.request = k.request /\ l.response = k.response /\ l.client = k.client /\ l.left = k.left
          /\ l.done = k.done /\ l.transport = k.transport /\ l.peer = k.peer /\ l.woken = k.woken
      BY <1>1, <2>2, <2>3 DEF Connections
    <2> HIDE DEF l
    <2>5. Exchange(l)
      BY <2>4 DEF Serving, Steady, Exchange
    <2>6. Attached(l, d)
      BY <2>4 DEF Serving, Steady, Attached
    <2>7. Listening(l)
      BY <2>2, <2>3, <2>4 DEF Listening
    <2> QED BY <2>1, <2>4, <2>5, <2>6, <2>7 DEF Inside, Steady, Serving
  <1> QED BY <1>3, <1>4, <1>5

LEMMA WaitOver ==
  ASSUME NEW k, NEW d, Steady(k, d), NEW i \in k.woken
  PROVE  LET m == [k EXCEPT !.woken = @ \ {i}, !.waiters = @ \ {i}]
         IN Inside(k, [m EXCEPT !.hooked = @ /\ (m.waiters # {} \/ m.heard)], d)
  <1> DEFINE x == k.woken \ {i}
             y == k.waiters \ {i}
             m == [k EXCEPT !.woken = x, !.waiters = y]
             h == k.hooked /\ (y # {} \/ k.heard)
             l == [k EXCEPT !.woken = x, !.waiters = y, !.hooked = h]
  <1>1. k \in Connections /\ ~k.forced
    BY DEF Steady, Attached
  <1>2. m = [k EXCEPT !.woken = @ \ {i}, !.waiters = @ \ {i}]
    OBVIOUS
  <1>3. [m EXCEPT !.hooked = @ /\ (m.waiters # {} \/ m.heard)] = l
    <2>1. m.hooked = k.hooked /\ m.waiters = y /\ m.heard = k.heard
      BY <1>1 DEF Connections
    <2>2. (m.hooked /\ (m.waiters # {} \/ m.heard)) = h
      BY <2>1
    <2> HIDE DEF h
    <2> QED BY <2>2
  <1>4. x \in SUBSET (1 .. MaxRequests) /\ y \in SUBSET (1 .. MaxRequests) /\ h \in BOOLEAN
        /\ x \subseteq k.woken /\ y \subseteq k.waiters /\ y \ x = k.waiters \ k.woken
    BY <1>1 DEF Connections
  <1>5. y # {} => h
    BY <1>4 DEF Steady, Listening
  <1> HIDE DEF x, y, h
  <1>6. /\ l \in Connections /\ l.waiters = y /\ l.woken = x /\ l.hooked = h /\ l.missed = k.missed
        /\ l.at = k.at /\ l.phase = k.phase /\ l.forced = k.forced /\ l.ahead = k.ahead /\ l.number = k.number
        /\ l.request = k.request /\ l.response = k.response /\ l.client = k.client /\ l.left = k.left
        /\ l.done = k.done /\ l.transport = k.transport /\ l.peer = k.peer
    BY <1>1, <1>4 DEF Connections
  <1> HIDE DEF l
  <1>7. Exchange(l)
    BY <1>6 DEF Steady, Exchange
  <1>8. Attached(l, d)
    BY <1>1, <1>6 DEF Steady, Attached
  <1>9. Listening(l)
    BY <1>4, <1>5, <1>6 DEF Steady, Listening
  <1>10. Inside(k, l, d)
    BY <1>6, <1>7, <1>8, <1>9 DEF Inside, Steady
  <1> QED BY <1>2, <1>3, <1>10 DEF m

\* A complete response whose connection is used again was read whole.
LEMMA Whole ==
  ASSUME NEW r \in Responses, NEW w \in Readers, Follows(r, w), r.complete, ~r.close
  PROVE  w.stage = "ended"
  BY DEF Follows, Responses

\* The connection is used again or left.
LEMMA Continues ==
  ASSUME NEW k, Leavable(k), k.transport \in {"open", "closed"} \/ k.forced,
         k.transport = "closed" /\ ~k.forced => k.peer # "open",
         k.forced => k.request = NoRequest,
         ~k.forced => k.number > 0 /\ (k.request.keepAlive => k.number < MaxRequests),
         ~k.forced /\ Reusable(k) /\ k.peer = "open" => k.client.stage = "ended"
  PROVE  LET l == Continue(k)
         IN Steady(l, Draining) /\ l.forced = k.forced /\ l.at \in {"head", "closing"}
  <1>1. CASE Reusable(k) /\ ~Draining
    <2>1. ~k.forced
      BY <1>1, Blank DEF Reusable
    <2> DEFINE l == [k EXCEPT !.request = NoRequest, !.response = NoResponse, !.at = "head"]
    <2>2. Continue(k) = l
      BY <1>1 DEF Continue, Forget
    <2>3. k \in Connections
      BY DEF Leavable
    <2>4. /\ l \in Connections /\ l.at = "head" /\ l.forced = k.forced /\ l.number = k.number /\ l.transport = k.transport
          /\ l.request = NoRequest /\ l.response = NoResponse /\ l.client = k.client /\ l.peer = k.peer
          /\ l.done = k.done /\ l.left = k.left /\ l.waiters = k.waiters /\ l.woken = k.woken /\ l.hooked = k.hooked
          /\ l.missed = k.missed /\ l.ahead = k.ahead
      BY <2>3, Blank DEF Connections, Live
    <2> HIDE DEF l
    <2>5. k.number < MaxRequests /\ (k.peer = "open" => k.client.stage = "ended" /\ k.left = 0)
      BY <1>1, <2>1 DEF Reusable, Leavable
    <2>6. Exchange(l)
      BY <2>1, <2>4, <2>5 DEF Leavable, Exchange
    <2>7. Attached(l, Draining)
      BY <2>1, <2>4 DEF Attached
    <2>8. Listening(l)
      BY <2>1, <2>4, Blank DEF Leavable, Listening
    <2> QED BY <2>2, <2>4, <2>6, <2>7, <2>8 DEF Steady
  <1>2. CASE ~(Reusable(k) /\ ~Draining)
    <2>1. Continue(k) = Leave(k)
      BY <1>2 DEF Continue
    <2> QED BY <2>1, Left
  <1> QED BY <1>1, <1>2

\* The server answers, where the application has not begun to.
LEMMA OwnReply ==
  ASSUME NEW k, NEW d, Serving(k, d)
  PROVE  Inside(k, Replying(k), d)
  <1> DEFINE i == Item("head", "length", 0)
             v == IF k.response.started \/ k.transport # "open" THEN k.client ELSE ReadItem(k.client, i)
             m == [k EXCEPT !.client = v]
  <1>1. k \in Connections /\ Follows(k.response, k.client) /\ k.client \in Readers
    BY DEF Serving, Steady, Exchange, Connections
  <1>2. Own(k) = m
    <2>1. CASE k.response.started \/ k.transport # "open"
      <3>1. v = k.client
        BY <2>1
      <3> HIDE DEF v
      <3>2. m = k
        BY <1>1, <3>1 DEF Connections
      <3> QED BY <2>1, <3>2 DEF Own
    <2>2. CASE ~(k.response.started \/ k.transport # "open")
      BY <2>2 DEF Own
    <2> QED BY <2>1, <2>2
  <1>3. v \in Readers /\ v.stage # "broken"
    <2>1. CASE k.response.started \/ k.transport # "open"
      BY <1>1, <2>1 DEF Follows
    <2>2. CASE ~(k.response.started \/ k.transport # "open")
      <3>1. k.client.stage = "head"
        BY <1>1, <2>2 DEF Follows
      <3>2. i.part = "head" /\ i.framing = "length" /\ i.size = 0
        BY DEF Item
      <3> HIDE DEF i
      <3>3. ReadItem(k.client, i) = [stage |-> "ended", framing |-> "length", left |-> 0]
        BY <3>1, <3>2 DEF ReadItem
      <3> QED BY <2>2, <3>3 DEF Readers
    <2> QED BY <2>1, <2>2
  <1> HIDE DEF v
  <1>4. /\ m \in Connections /\ m.client = v
        /\ m.at = k.at /\ m.phase = k.phase /\ m.forced = k.forced /\ m.ahead = k.ahead /\ m.number = k.number
        /\ m.request = k.request /\ m.response = k.response /\ m.left = k.left /\ m.missed = k.missed
        /\ m.done = k.done /\ m.transport = k.transport /\ m.peer = k.peer /\ m.woken = k.woken
        /\ m.waiters = k.waiters /\ m.hooked = k.hooked
    BY <1>1, <1>3 DEF Connections
  <1> HIDE DEF m
  <1>5. Leavable(m)
    <2>1. Leavable(k)
      BY SteadyLeavable DEF Serving
    <2> QED BY <1>3, <1>4, <2>1 DEF Leavable
  <1>6. Replying(k) = [m EXCEPT !.at = "reply", !.phase = m.phase]
    <2>1. Replying(k) = [m EXCEPT !.at = "reply"]
      BY <1>2 DEF Replying
    <2>2. [m EXCEPT !.at = "reply"] = [m EXCEPT !.at = "reply", !.phase = m.phase]
      BY <1>4 DEF Connections
    <2> QED BY <2>1, <2>2
  <1>7. ~m.forced /\ (m.number \notin m.waiters \ m.woken \/ ~m.response.complete) /\ m.phase \in {"idle", "http", "websocket"}
    BY <1>4 DEF Serving, Steady, Listening, Connections
  <1>8. LET l == [m EXCEPT !.at = "reply", !.phase = m.phase]
        IN Steady(l, d) /\ l.forced = m.forced /\ l.at = "reply"
    BY <1>5, <1>7, ReplyBegins
  <1> QED BY <1>4, <1>6, <1>8, Places DEF Inside, Serving

LEMMA PhaseLeavable ==
  ASSUME NEW k, Leavable(k), NEW f \in {"idle", "http", "websocket"}
  PROVE  LET l == [k EXCEPT !.phase = f]
         IN /\ Leavable(l) /\ l.at = k.at /\ l.forced = k.forced /\ l.transport = k.transport /\ l.peer = k.peer
            /\ l.number = k.number /\ l.request = k.request /\ l.response = k.response /\ l.client = k.client
            /\ l.done = k.done
  <1> DEFINE l == [k EXCEPT !.phase = f]
  <1>1. k \in Connections
    BY DEF Leavable
  <1>2. /\ l \in Connections
        /\ l.at = k.at /\ l.forced = k.forced /\ l.ahead = k.ahead /\ l.number = k.number
        /\ l.request = k.request /\ l.response = k.response /\ l.client = k.client /\ l.left = k.left
        /\ l.done = k.done /\ l.transport = k.transport /\ l.peer = k.peer /\ l.woken = k.woken
        /\ l.waiters = k.waiters /\ l.hooked = k.hooked /\ l.missed = k.missed
    BY <1>1 DEF Connections
  <1> HIDE DEF l
  <1>3. Leavable(l)
    BY <1>2 DEF Leavable
  <1> QED BY <1>2, <1>3 DEF l

\* A step of a connection that keeps its slot.
Moves(c) ==
  /\ \E l : Set(c, l) /\ Inside(conn[c], l, Draining)
  /\ UNCHANGED <<server, registered, free>>

\* One lemma for each group of actions.
LEMMA ClientMoves ==
  ASSUME NEW c \in Clients, Steady(conn[c], Draining),
         ClientSends(c) \/ ClientEnds(c) \/ ClientResets(c) \/ TransportCloses(c)
  PROVE  Moves(c)
  <1> DEFINE k == conn[c]
  <1>0. k \in Connections
    BY DEF Steady
  <1>1. CASE ClientSends(c)
    BY <1>1, ClientSent DEF ClientSends, Watched, Moves, Elsewhere
  <1>2. CASE ClientEnds(c)
    <2>1. ~k.forced /\ k.at # "none" /\ Set(c, IfHooked([k EXCEPT !.peer = "eof"]))
          /\ UNCHANGED <<server, registered, free>>
      BY <1>2 DEF ClientEnds, Watched, Elsewhere
    <2>2. [k EXCEPT !.peer = "eof"] = [k EXCEPT !.peer = "eof", !.transport = k.transport]
      BY <1>0 DEF Connections
    <2>3. Inside(k, IfHooked([k EXCEPT !.peer = "eof", !.transport = k.transport]), Draining)
      BY <2>1, EndNoticed
    <2> QED BY <2>1, <2>2, <2>3 DEF Moves
  <1>3. CASE ClientResets(c)
    <2>1. ~k.forced /\ k.at # "none" /\ Set(c, IfHooked([k EXCEPT !.peer = "lost", !.transport = "closed"]))
          /\ UNCHANGED <<server, registered, free>>
      BY <1>3 DEF ClientResets, Watched, Elsewhere
    <2>2. Inside(k, IfHooked([k EXCEPT !.peer = "lost", !.transport = "closed"]), Draining)
      BY <2>1, EndNoticed
    <2> QED BY <2>1, <2>2 DEF Moves
  <1>4. CASE TransportCloses(c)
    BY <1>4, ClosingAborted DEF TransportCloses, Moves, Elsewhere
  <1> QED BY <1>1, <1>2, <1>3, <1>4

LEMMA HeadMoves ==
  ASSUME NEW c \in Clients, Steady(conn[c], Draining), HeadRead(c)
  PROVE  Moves(c)
  <1> DEFINE k == Taken(conn[c])
  <1>1. /\ conn[c].at = "head" /\ conn[c].peer # "lost" /\ UNCHANGED <<server, registered, free>>
        /\ \/ SeenDrain /\ Set(c, Leave(k))
           \/ ~SeenDrain /\ \E q \in Requests : Set(c, Called(k, q))
           \/ Set(c, [k EXCEPT !.at = "reply", !.phase = "http"])
           \/ Set(c, Leave([k EXCEPT !.phase = "http"]))
    BY DEF HeadRead, Taken, Slotless
  <1>2. /\ Leavable(k) /\ ~k.forced /\ k.at = "head" /\ k.number \in 1 .. MaxRequests /\ k.client = Unread
        /\ k.number \notin k.waiters \cup k.woken /\ k.transport = conn[c].transport /\ k.peer = conn[c].peer
    BY <1>1, HeadTaken
  <1>3. ~conn[c].forced /\ conn[c].at \in Held
    BY <1>1, Places DEF Steady, Attached
  <1> HIDE DEF k
  <1>4. CASE SeenDrain /\ Set(c, Leave(k))
    <2>1. Steady(Leave(k), Draining) /\ Leave(k).at = "closing" /\ Leave(k).forced = k.forced
      BY <1>2, Left
    <2>2. Inside(conn[c], Leave(k), Draining)
      BY <1>2, <1>3, <2>1, Places DEF Inside, Steady, Connections
    <2> QED BY <1>1, <1>4, <2>2 DEF Moves
  <1>5. CASE ~SeenDrain /\ \E q \in Requests : Set(c, Called(k, q))
    <2>1. PICK q \in Requests : Set(c, Called(k, q))
      BY <1>5
    <2>2. q \in Asks /\ ~Draining
      BY <1>5, EventsAssumption DEF SeenDrain
    <2>3. k.transport \in {"open", "closed"} /\ (k.transport = "closed" => k.peer # "open")
      BY <1>1, <1>2, <2>2 DEF Steady, Attached, Connections
    <2>4. Steady(Called(k, q), Draining) /\ ~Called(k, q).forced /\ Called(k, q).at = "call"
      BY <1>2, <2>2, <2>3, CallBegins
    <2>5. Inside(conn[c], Called(k, q), Draining)
      <3>1. Called(k, q).forced = conn[c].forced
        BY <1>3, <2>4 DEF Steady, Connections
      <3> QED BY <1>3, <2>2, <2>4, <3>1, Places DEF Inside
    <2> QED BY <1>1, <2>1, <2>5 DEF Moves
  <1>6. CASE Set(c, [k EXCEPT !.at = "reply", !.phase = "http"])
    <2> DEFINE l == [k EXCEPT !.at = "reply", !.phase = "http"]
    <2>1. Steady(l, Draining) /\ l.forced = k.forced /\ l.at = "reply"
      BY <1>2, ReplyBegins
    <2>2. Inside(conn[c], l, Draining)
      BY <1>2, <1>3, <2>1, Places DEF Inside, Steady, Connections
    <2> QED BY <1>1, <1>6, <2>2 DEF Moves
  <1>7. CASE Set(c, Leave([k EXCEPT !.phase = "http"]))
    <2> DEFINE m == [k EXCEPT !.phase = "http"]
    <2>1. Leavable(m) /\ m.forced = k.forced
      BY <1>2, PhaseLeavable
    <2>2. Steady(Leave(m), Draining) /\ Leave(m).at = "closing" /\ Leave(m).forced = m.forced
      BY <2>1, Left
    <2>3. Inside(conn[c], Leave(m), Draining)
      BY <1>2, <1>3, <2>1, <2>2, Places DEF Inside, Steady, Connections
    <2> QED BY <1>1, <1>7, <2>3 DEF Moves
  <1> QED BY <1>1, <1>4, <1>5, <1>6, <1>7

LEMMA FlushBegins ==
  ASSUME NEW k, NEW d, Serving(k, d), k.response.complete
  PROVE  Inside(k, [k EXCEPT !.at = "flush"], d)
  <1> DEFINE l == [k EXCEPT !.at = "flush"]
  <1>1. k \in Connections
    BY DEF Serving, Steady
  <1>2. /\ l \in Connections /\ l.at = "flush" /\ l.phase = k.phase
        /\ l.forced = k.forced /\ l.ahead = k.ahead /\ l.number = k.number
        /\ l.request = k.request /\ l.response = k.response /\ l.client = k.client /\ l.left = k.left
        /\ l.done = k.done /\ l.transport = k.transport /\ l.peer = k.peer /\ l.woken = k.woken
        /\ l.waiters = k.waiters /\ l.hooked = k.hooked /\ l.missed = k.missed
    BY <1>1 DEF Connections, Live
  <1> HIDE DEF l
  <1>3. Exchange(l) /\ Attached(l, d) /\ Listening(l)
    BY <1>2 DEF Serving, Steady, Exchange, Attached, Listening
  <1> QED BY <1>2, <1>3, Places DEF Inside, Steady, Serving, l

LEMMA CallMoves ==
  ASSUME NEW c \in Clients, Steady(conn[c], Draining),
         AppSend(c) \/ AppReceive(c) \/ AppListen(c) \/ AppReturns(c) \/ AppRaises(c)
  PROVE  Moves(c)
  <1> DEFINE k == conn[c]
  <1>1. Serving(k, Draining) /\ UNCHANGED <<server, registered, free>> /\ k.at \in Held
    BY Places DEF Serving, AppSend, AppReceive, AppListen, AppReturns, AppRaises, Calling, Elsewhere
  <1>2. CASE AppSend(c)
    <2>1. PICK e \in Events :
            LET o == Send(k.response, e, k.done, k.transport # "open")
            IN Set(c, Completed([k EXCEPT !.response = o.response, !.client = Read(@, o.wire)]))
      BY <1>2 DEF AppSend
    <2> QED BY <1>1, <2>1, SendServed DEF Moves
  <1>3. CASE AppReceive(c)
    <2>1. PICK l : /\ Set(c, l)
                   /\ \/ k.done /\ l = [k EXCEPT !.final = TRUE]
                      \/ /\ ~k.done /\ k.left > 0
                         /\ LET last == k.left = 1 /\ ~k.request.chunked
                            IN l = [k EXCEPT !.left = @ - 1, !.done = last, !.final = last]
                      \/ ~k.done /\ k.left = 0 /\ l = [k EXCEPT !.done = TRUE, !.final = TRUE]
                      \/ /\ ~k.done /\ k.peer # "open"
                         /\ l = Disconnect([k EXCEPT !.done = TRUE, !.final = TRUE])
      BY <1>3 DEF AppReceive
    <2>2. ~k.final
      BY <1>3 DEF AppReceive
    <2>3. Inside(k, l, Draining)
      BY <1>1, <2>1, <2>2, ReceiveServed
    <2> QED BY <1>1, <2>1, <2>3 DEF Moves
  <1>4. CASE AppListen(c)
    <2>1. Set(c, Subscribed(k)) /\ ~k.response.complete
      BY <1>4 DEF AppListen
    <2> QED BY <1>1, <2>1, ListenServed DEF Moves
  <1>5. CASE AppReturns(c)
    <2>1. CASE k.response.complete
      <3>1. Set(c, [k EXCEPT !.at = "flush"])
        BY <1>5, <2>1 DEF AppReturns
      <3> QED BY <1>1, <2>1, <3>1, FlushBegins DEF Moves
    <2>2. CASE ~k.response.complete
      <3>1. Set(c, Replying(k))
        BY <1>5, <2>2 DEF AppReturns
      <3> QED BY <1>1, <3>1, OwnReply DEF Moves
    <2> QED BY <2>1, <2>2
  <1>6. CASE AppRaises(c)
    <2>1. Inside(k, Leave(k), Draining) /\ Inside(k, Leave(AbortTransport(k)), Draining)
          /\ Inside(k, Replying(k), Draining)
      BY <1>1, LeavesSteady, OwnReply
    <2>2. CASE (k.response.complete \/ k.transport # "open") /\ Set(c, Continue(k))
      <3>1. Leavable(k) /\ Follows(k.response, k.client) /\ k.response \in Responses /\ k.client \in Readers
        BY <1>1, SteadyLeavable DEF Steady, Exchange, Connections, Serving
      <3>2. ~k.forced /\ k.transport \in {"open", "closed"} /\ (k.transport = "closed" => k.peer # "open")
            /\ k.number > 0 /\ (k.request.keepAlive => k.number < MaxRequests)
        BY <1>1 DEF Serving, Steady, Attached, Exchange, Connections
      <3>3. Reusable(k) /\ k.peer = "open" => k.client.stage = "ended"
        BY <2>2, <3>1, <3>2, Whole DEF Reusable
      <3>4. Steady(Continue(k), Draining) /\ Continue(k).forced = k.forced /\ Continue(k).at \in {"head", "closing"}
        BY <3>1, <3>2, <3>3, Continues
      <3>5. Inside(k, Continue(k), Draining)
        BY <1>1, <3>4, Places DEF Inside
      <3> QED BY <1>1, <2>2, <3>5 DEF Moves
    <2>3. CASE Set(c, Leave(k)) \/ Set(c, Leave(AbortTransport(k))) \/ Set(c, Replying(k))
      BY <1>1, <2>1, <2>3 DEF Moves
    <2> QED BY <1>6, <2>2, <2>3 DEF AppRaises
  <1> QED BY <1>2, <1>3, <1>4, <1>5, <1>6

LEMMA EndMoves ==
  ASSUME NEW c \in Clients, Steady(conn[c], Draining),
         AppHears(c) \/ SocketEnds(c) \/ HeadFails(c) \/ Flush(c) \/ Reply(c) \/ Cancelled(c)
  PROVE  Moves(c)
  <1> DEFINE k == conn[c]
  <1>1. UNCHANGED <<server, registered, free>>
    BY DEF AppHears, SocketEnds, HeadFails, Flush, Reply, Cancelled, Elsewhere, Slotless
  <1>2. CASE AppHears(c)
    <2>1. PICK i \in k.woken :
            LET m == [k EXCEPT !.woken = @ \ {i}, !.waiters = @ \ {i}]
            IN Set(c, [m EXCEPT !.hooked = @ /\ (m.waiters # {} \/ m.heard)])
      BY <1>2 DEF AppHears
    <2> QED BY <1>1, <2>1, WaitOver DEF Moves
  <1>3. CASE k.at \in Held /\ (Set(c, Leave(k)) \/ Set(c, Leave(AbortTransport(k))))
    BY <1>1, <1>3, LeavesSteady DEF Moves
  <1>4. CASE k.at = "flush" /\ Set(c, Continue([k EXCEPT !.phase = "idle"]))
    <2> DEFINE m == [k EXCEPT !.phase = "idle"]
    <2>1. /\ Leavable(m) /\ m.at = k.at /\ m.forced = k.forced /\ m.transport = k.transport /\ m.peer = k.peer
          /\ m.number = k.number /\ m.request = k.request /\ m.response = k.response /\ m.client = k.client
          /\ m.done = k.done
      BY SteadyLeavable, PhaseLeavable
    <2> HIDE DEF m
    <2>2. m.transport \in {"open", "closed"} /\ (m.transport = "closed" => m.peer # "open")
      BY <1>4, <2>1 DEF Steady, Attached, Connections
    <2>3. m.forced => m.request = NoRequest
      BY <2>1 DEF Steady, Attached
    <2>4. ~m.forced => m.number > 0 /\ (m.request.keepAlive => m.number < MaxRequests)
      BY <1>4, <2>1 DEF Steady, Exchange
    <2>5. ~m.forced /\ Reusable(m) => m.client.stage = "ended"
      <3>1. k.response \in Responses /\ k.client \in Readers
        BY DEF Steady, Connections
      <3>2. ~k.forced => k.response.complete /\ Follows(k.response, k.client)
        BY <1>4 DEF Steady, Exchange
      <3> QED BY <2>1, <3>1, <3>2, Whole DEF Reusable
    <2>6. Steady(Continue(m), Draining) /\ Continue(m).forced = m.forced /\ Continue(m).at \in {"head", "closing"}
      BY <2>1, <2>2, <2>3, <2>4, <2>5, Continues
    <2>7. Inside(k, Continue(m), Draining)
      BY <1>4, <2>1, <2>6, Places DEF Inside
    <2> QED BY <1>1, <1>4, <2>7 DEF Moves, m
  <1> QED BY <1>2, <1>3, <1>4, Places DEF SocketEnds, HeadFails, Flush, Reply, Cancelled

-----------------------------------------------------------------------------
(* The WebSockets                                                          *)

\* What was sent on a WebSocket, at each point of it.
SocketSound(s) ==
  /\ s.wire # "broken"
  /\ s.accepted => s.wire \in {"upgraded", "closed"}
  /\ s.app = "accepting" => ~s.accepted /\ ~s.closed /\ s.wire = "upgraded"
  /\ s.app = "echoing" => s.accepted
  /\ s.restarted => s.closed
  /\ s.wire = "closed" => s.closed \/ s.app \in {"echoing", "closing"}

SocketsSound == ws \in [Clients -> WebSockets] /\ \A c \in Clients : SocketSound(ws[c])

LEMMA Sent ==
  ASSUME NEW s \in WebSockets, s.wire \in {"upgraded", "closed"}
  PROVE  WithClose(s) = [s EXCEPT !.wire = "closed"]
  BY DEF WithClose

LEMMA FreshSocket == NoSocket \in WebSockets /\ SocketSound(NoSocket)
  BY DEF NoSocket, WebSockets, SocketSound

\* restart() after what the caller knows of the reading.
LEMMA RestartedSound ==
  ASSUME NEW s \in WebSockets, SocketSound(s)
  PROVE  LET t == Restarted(s)
         IN t \in WebSockets /\ SocketSound(t) /\ t.accepted = s.accepted
  <1>1. CASE ~s.accepted \/ s.restarted
    BY <1>1 DEF Restarted
  <1>2. CASE ~(~s.accepted \/ s.restarted)
    <2> DEFINE m == [s EXCEPT !.restarted = TRUE, !.closed = TRUE]
               t == Restarted(s)
    <2>1. t = WithClose(m)
      BY <1>2 DEF Restarted
    <2>2. m \in WebSockets /\ m.wire = s.wire /\ m.accepted = s.accepted /\ m.restarted /\ m.closed /\ m.app = s.app
      BY DEF WebSockets
    <2>3. m.wire \in {"upgraded", "closed"}
      BY <1>2, <2>2 DEF SocketSound
    <2> HIDE DEF m, t
    <2>4. t = [m EXCEPT !.wire = "closed"]
      BY <2>1, <2>2, <2>3, Sent
    <2>5. t \in WebSockets /\ t.wire = "closed" /\ t.accepted = m.accepted /\ t.restarted = m.restarted
          /\ t.closed = m.closed /\ t.app = m.app
      BY <2>2, <2>4 DEF WebSockets
    <2>6. s.accepted /\ t.accepted /\ t.closed /\ t.app # "accepting"
      BY <1>2, <2>2, <2>5 DEF SocketSound
    <2>7. SocketSound(t)
      BY <2>5, <2>6 DEF SocketSound
    <2> QED BY <2>2, <2>5, <2>7 DEF t
  <1> QED BY <1>1, <1>2

\* Every step of a WebSocket keeps that.
LEMMA SocketStepSound ==
  ASSUME SocketsSound, NEW c \in Clients, NEW d, WebSocketStep(c, d)
  PROVE  \E t \in WebSockets : SocketSound(t) /\ Update(c, t)
  <1> DEFINE s == ws[c]
  <1>1. s \in WebSockets /\ SocketSound(s)
    BY DEF SocketsSound
  <1> HIDE DEF s
  <1>2. CASE WsReceive(c, d)
    <2>1. CASE ~s.connected /\ Update(c, [s EXCEPT !.connected = TRUE])
      <3> DEFINE t == [s EXCEPT !.connected = TRUE]
      <3>1. t \in WebSockets /\ SocketSound(t)
        BY <1>1 DEF WebSockets, SocketSound
      <3> QED BY <2>1, <3>1
    <2>2. CASE Update(c, Restarted(s))
      BY <1>1, <2>2, RestartedSound
    <2>3. CASE s.app = "idle" /\ Update(c, [s EXCEPT !.app = "reading"])
      <3> DEFINE t == [s EXCEPT !.app = "reading"]
      <3>1. t \in WebSockets /\ SocketSound(t)
        BY <1>1, <2>3 DEF WebSockets, SocketSound
      <3> QED BY <2>3, <3>1
    <2> QED BY <1>2, <2>1, <2>2, <2>3 DEF WsReceive, s
  <1>3. CASE WsMessage(c)
    <2> DEFINE t == [s EXCEPT !.app = "idle"]
    <2>1. s.app = "reading" /\ Update(c, t)
      BY <1>3 DEF WsMessage, s
    <2>2. t \in WebSockets /\ SocketSound(t)
      BY <1>1, <2>1 DEF WebSockets, SocketSound
    <2> QED BY <2>1, <2>2
  <1>4. CASE WsFails(c) \/ WsEchoed(c) \/ WsClosed(c)
    <2> DEFINE t == [s EXCEPT !.app = "idle", !.closed = TRUE]
    <2>1. Update(c, t)
      BY <1>4 DEF WsFails, WsEchoed, WsClosed, s
    <2>2. t \in WebSockets /\ SocketSound(t)
      BY <1>1 DEF WebSockets, SocketSound
    <2> QED BY <2>1, <2>2
  <1>5. CASE WsCloseSeen(c)
    <2> DEFINE m == [s EXCEPT !.app = "echoing"]
               t == [m EXCEPT !.wire = "closed"]
    <2>1. s.app = "reading" /\ s.accepted /\ Update(c, WithClose(m))
      BY <1>5 DEF WsCloseSeen, s
    <2>2. m \in WebSockets /\ m.wire \in {"upgraded", "closed"}
      BY <1>1, <2>1 DEF WebSockets, SocketSound
    <2>3. WithClose(m) = t
      BY <2>2, Sent
    <2>4. t \in WebSockets /\ SocketSound(t)
      BY <1>1, <2>1 DEF WebSockets, SocketSound
    <2> QED BY <2>1, <2>3, <2>4
  <1>6. CASE WsInterrupted(c, d)
    <2> DEFINE m == [s EXCEPT !.app = "idle"]
    <2>1. s.app \in {"reading", "echoing"} /\ Update(c, Restarted(m))
      BY <1>6 DEF WsInterrupted, s
    <2>2. m \in WebSockets /\ m.accepted = s.accepted /\ m.restarted = s.restarted /\ m.closed = s.closed
          /\ m.wire = s.wire /\ m.app = "idle"
      BY <1>1 DEF WebSockets
    <2> HIDE DEF m
    <2>3. CASE s.wire # "closed" \/ s.closed
      <3>1. SocketSound(m)
        BY <1>1, <2>1, <2>2, <2>3 DEF SocketSound
      <3> QED BY <2>1, <2>2, <3>1, RestartedSound
    <2>4. CASE s.wire = "closed" /\ ~s.closed
      <3> DEFINE n == [m EXCEPT !.restarted = TRUE, !.closed = TRUE]
                 t == [n EXCEPT !.wire = "closed"]
      <3>1. s.accepted /\ ~s.restarted
        BY <1>1, <2>1, <2>4 DEF SocketSound
      <3>2. Restarted(m) = WithClose(n)
        BY <2>2, <3>1 DEF Restarted
      <3>3. n \in WebSockets /\ n.wire = m.wire /\ n.accepted = m.accepted /\ n.restarted /\ n.closed /\ n.app = m.app
        BY <2>2 DEF WebSockets
      <3> HIDE DEF n
      <3>4. WithClose(n) = t
        BY <2>2, <2>4, <3>3, Sent
      <3>5. t \in WebSockets /\ t.wire = "closed" /\ t.accepted /\ t.closed /\ t.app = "idle"
        BY <2>2, <3>1, <3>3 DEF WebSockets
      <3> HIDE DEF t
      <3>6. SocketSound(t)
        BY <3>5 DEF SocketSound
      <3> QED BY <2>1, <3>2, <3>4, <3>5, <3>6
    <2> QED BY <2>3, <2>4
  <1>7. CASE WsAccept(c)
    <2> DEFINE t == [s EXCEPT !.app = "accepting", !.wire = "upgraded"]
    <2>1. ~s.accepted /\ ~s.closed /\ Update(c, t)
      BY <1>7 DEF WsAccept, s
    <2>2. t \in WebSockets /\ SocketSound(t)
      BY <1>1, <2>1 DEF WebSockets, SocketSound
    <2> QED BY <2>1, <2>2
  <1>8. CASE WsAccepted(c)
    <2> DEFINE t == [s EXCEPT !.app = "idle", !.accepted = TRUE]
    <2>1. s.app = "accepting" /\ Update(c, t)
      BY <1>8 DEF WsAccepted, s
    <2>2. t \in WebSockets /\ SocketSound(t)
      BY <1>1, <2>1 DEF WebSockets, SocketSound
    <2> QED BY <2>1, <2>2
  <1>9. CASE WsSend(c)
    <2>1. s.app = "idle" /\ s.accepted /\ ~s.closed /\ Update(c, WithData(s))
      BY <1>9 DEF WsSend, s
    <2>2. s.wire = "upgraded"
      BY <1>1, <2>1 DEF SocketSound
    <2>3. WithData(s) = s
      BY <1>1, <2>2 DEF WithData, WebSockets
    <2> QED BY <1>1, <2>1, <2>3
  <1>10. CASE WsClose(c)
    <2> DEFINE m == [s EXCEPT !.app = "closing"]
    <2>1. s.app = "idle" /\ Update(c, IF ~m.accepted THEN [m EXCEPT !.wire = "refused"]
                                      ELSE IF ~m.closed THEN WithClose(m) ELSE m)
      BY <1>10 DEF WsClose, s
    <2>2. m \in WebSockets /\ m.accepted = s.accepted /\ m.restarted = s.restarted /\ m.closed = s.closed
          /\ m.wire = s.wire /\ m.app = "closing"
      BY <1>1 DEF WebSockets
    <2> HIDE DEF m
    <2>3. CASE ~m.accepted
      <3> DEFINE t == [m EXCEPT !.wire = "refused"]
      <3>1. t \in WebSockets /\ SocketSound(t)
        BY <1>1, <2>2, <2>3 DEF WebSockets, SocketSound
      <3> QED BY <2>1, <2>3, <3>1
    <2>4. CASE m.accepted /\ ~m.closed
      <3> DEFINE t == [m EXCEPT !.wire = "closed"]
      <3>1. m.wire \in {"upgraded", "closed"}
        BY <1>1, <2>2, <2>4 DEF SocketSound
      <3>2. WithClose(m) = t
        BY <2>2, <3>1, Sent
      <3>3. t \in WebSockets /\ SocketSound(t)
        BY <1>1, <2>2, <2>4 DEF WebSockets, SocketSound
      <3> QED BY <2>1, <2>4, <3>2, <3>3
    <2>5. CASE m.accepted /\ m.closed
      <3>1. SocketSound(m)
        BY <1>1, <2>2, <2>5 DEF SocketSound
      <3> QED BY <2>1, <2>2, <2>5, <3>1
    <2> QED BY <2>3, <2>4, <2>5
  <1>11. CASE WsWatch(c, d)
    <2>1. CASE s.accepted /\ Update(c, [Restarted(s) EXCEPT !.watcher = "done"])
      <3> DEFINE r == Restarted(s)
                 t == [r EXCEPT !.watcher = "done"]
      <3>1. r \in WebSockets /\ SocketSound(r)
        BY <1>1, RestartedSound
      <3> HIDE DEF r
      <3>2. t \in WebSockets /\ SocketSound(t)
        BY <3>1 DEF WebSockets, SocketSound
      <3> QED BY <2>1, <3>2 DEF r
    <2>2. CASE Update(c, [s EXCEPT !.watcher = "upgrade"])
      <3> DEFINE t == [s EXCEPT !.watcher = "upgrade"]
      <3>1. t \in WebSockets /\ SocketSound(t)
        BY <1>1 DEF WebSockets, SocketSound
      <3> QED BY <2>2, <3>1
    <2> QED BY <1>11, <2>1, <2>2 DEF WsWatch, s
  <1> QED BY <1>2, <1>3, <1>4, <1>5, <1>6, <1>7, <1>8, <1>9, <1>10, <1>11 DEF WebSocketStep

-----------------------------------------------------------------------------
(* The server                                                              *)

Preparing == {"new", "starting", "unwinding", "bound", "failed"}
Ending == {"ending", "asking", "cancelling", "stopped"}
Admitted == {c \in Clients : conn[c].at \in Held}

\* Every slot is free or with one that is admitted; the drain knows all of them,
\* and none is left, but those it gave up, when it is over.
ConnectionsSound ==
  /\ server \in Servers /\ conn \in [Clients -> Connections]
  /\ registered \subseteq Clients /\ free \in 0..Slots
  /\ \A c \in Clients : Steady(conn[c], Draining)
  /\ IsFiniteSet(Admitted) /\ free + Cardinality(Admitted) = Slots
  /\ {c \in Clients : conn[c].at \in Live} \subseteq registered
  /\ server \in Preparing => \A c \in Clients : conn[c].at = "none"
  /\ server \in Ending \cup {"forced", "closing"} => \A c \in Clients : conn[c].at \in Live => conn[c].forced

CallsInOrder == \A c \in Clients : Draining /\ conn'[c].at = "call" => conn[c].at = "call"

LEMMA Servings ==
  /\ Draining <=> server \in Ending \cup {"draining", "forced", "closing"}
  /\ Preparing \cap (Ending \cup {"draining", "forced", "closing", "serving"}) = {}
  BY DEF Draining, Ending, Preparing

LEMMA SteadyLater == ASSUME NEW k, NEW d, NEW e, Steady(k, d), d => e PROVE Steady(k, e)
  BY DEF Steady, Attached

\* One connection changes; the server and what it keeps of slots do not.
LEMMA MovesSound ==
  ASSUME ConnectionsSound, NEW c \in Clients, Moves(c)
  PROVE  ConnectionsSound' /\ CallsInOrder
  <1>1. PICK l : Set(c, l) /\ Inside(conn[c], l, Draining)
    BY DEF Moves
  <1>2. server' = server /\ registered' = registered /\ free' = free
    BY DEF Moves
  <1>3. conn' = [conn EXCEPT ![c] = l] /\ conn \in [Clients -> Connections] /\ l \in Connections
    BY <1>1 DEF Set, Inside, Steady, ConnectionsSound
  <1>4. conn'[c] = l /\ \A x \in Clients : x # c => conn'[x] = conn[x]
    BY <1>3
  <1>5. Draining' <=> Draining
    BY <1>2 DEF Draining
  <1>6. /\ Steady(l, Draining) /\ l.forced = conn[c].forced
        /\ l.at = conn[c].at \/ (conn[c].at \in Held /\ l.at \in Held)
        /\ Draining /\ l.at = "call" => conn[c].at = "call"
    BY <1>1 DEF Inside
  <1>7. (l.at \in Held <=> conn[c].at \in Held) /\ (l.at \in Live <=> conn[c].at \in Live)
        /\ (conn[c].at = "none" => l.at = "none")
    BY <1>6, Places
  <1>8. conn' \in [Clients -> Connections]
    BY <1>3
  <1>9. \A x \in Clients : Steady(conn'[x], Draining)
    BY <1>4, <1>6 DEF ConnectionsSound
  <1>10. \A x \in Clients : Steady(conn'[x], Draining')
    BY <1>5, <1>9, SteadyLater
  <1>11. Admitted' = Admitted
    BY <1>4, <1>7 DEF Admitted
  <1>12. {x \in Clients : conn'[x].at \in Live} \subseteq registered
    BY <1>4, <1>7 DEF ConnectionsSound
  <1>13. server \in Preparing => \A x \in Clients : conn'[x].at = "none"
    BY <1>4, <1>7 DEF ConnectionsSound
  <1>14. server \in Ending \cup {"forced", "closing"} => \A x \in Clients : conn'[x].at \in Live => conn'[x].forced
    BY <1>4, <1>6, <1>7 DEF ConnectionsSound
  <1>15. ConnectionsSound'
    BY <1>2, <1>8, <1>10, <1>11, <1>12, <1>13, <1>14 DEF ConnectionsSound
  <1>16. CallsInOrder
    BY <1>4, <1>6 DEF CallsInOrder
  <1> QED BY <1>15, <1>16

\* Its writer is closed.
LEMMA WriterClosed ==
  ASSUME NEW k \in Connections
  PROVE  LET l == CloseWriter(k)
         IN /\ l \in Connections /\ Alike(l, k) /\ l.peer = k.peer /\ l.waiters = k.waiters /\ l.woken = k.woken
            /\ l.transport = IF k.transport = "open" THEN "closing" ELSE k.transport
  <1> DEFINE t == IF k.transport = "open" THEN "closing" ELSE k.transport
             l == [k EXCEPT !.transport = t]
  <1>1. CloseWriter(k) = l
    BY DEF CloseWriter
  <1>2. t \in {"none", "open", "closing", "closed"}
    BY DEF Connections
  <1> HIDE DEF t
  <1>3. l \in Connections /\ Alike(l, k) /\ l.peer = k.peer /\ l.waiters = k.waiters /\ l.woken = k.woken
        /\ l.transport = t
    BY <1>2 DEF Connections, Alike
  <1> QED BY <1>1, <1>3 DEF t

\* An accepted connection goes where admission sends it.
Placed(l, k) ==
  /\ l.phase = k.phase /\ l.forced = k.forced /\ l.ahead = k.ahead /\ l.number = k.number
  /\ l.request = k.request /\ l.response = k.response /\ l.client = k.client /\ l.left = k.left
  /\ l.done = k.done /\ l.peer = k.peer /\ l.woken = k.woken
  /\ l.waiters = k.waiters /\ l.hooked = k.hooked /\ l.missed = k.missed

LEMMA Arrives ==
  ASSUME NEW k, NEW d, Steady(k, d), NEW l \in Connections, Placed(l, k),
         k.at = "none" \/ k.at = "accepted",
         l.at = "refusing" \/ l.at = "rejecting"
           \/ (k.at = "none" /\ l.at = "accepted" /\ l.transport = "open")
           \/ (k.at = "accepted" /\ l.at = "head" /\ l.transport = k.transport)
  PROVE  Steady(l, d)
  <1>1. ~k.forced /\ k.number = 0
    BY Places DEF Steady, Attached, Exchange
  <1>2. Exchange(l)
    BY <1>1, AsgiAssumption DEF Steady, Exchange, Placed
  <1>3. Attached(l, d)
    BY <1>1 DEF Steady, Attached, Placed
  <1>4. Listening(l)
    BY DEF Steady, Listening, Placed
  <1> QED BY <1>2, <1>3, <1>4 DEF Steady

LEMMA Opened ==
  ASSUME NEW k, NEW d, Steady(k, d), k.at = "none"
  PROVE  LET l == [k EXCEPT !.at = "accepted", !.transport = "open"] IN Steady(l, d) /\ l.at = "accepted"
  <1> DEFINE l == [k EXCEPT !.at = "accepted", !.transport = "open"]
  <1>1. k \in Connections
    BY DEF Steady
  <1>2. l \in Connections /\ l.at = "accepted" /\ l.transport = "open" /\ Placed(l, k)
    BY <1>1 DEF Connections, Placed
  <1> HIDE DEF l
  <1> QED BY <1>2, Arrives DEF l

LEMMA TurnedOff ==
  ASSUME NEW k, NEW d, Steady(k, d), k.at = "accepted", NEW a \in {"refusing", "rejecting"}
  PROVE  Steady(CloseWriter([k EXCEPT !.at = a]), d) /\ CloseWriter([k EXCEPT !.at = a]).at = a
  <1> DEFINE m == [k EXCEPT !.at = a]
             l == CloseWriter(m)
  <1>1. k \in Connections
    BY DEF Steady
  <1>2. m \in Connections /\ m.at = a /\ Placed(m, k)
    BY <1>1 DEF Connections, Placed, Live
  <1> HIDE DEF m
  <1>3. l \in Connections /\ l.at = a /\ Placed(l, k)
    BY <1>2, WriterClosed DEF Alike, Placed
  <1> HIDE DEF l
  <1>4. l.at = "refusing" \/ l.at = "rejecting"
    BY <1>3
  <1> QED BY <1>3, <1>4, Arrives DEF l, m

LEMMA Entered ==
  ASSUME NEW k, NEW d, Steady(k, d), k.at = "accepted"
  PROVE  LET l == [k EXCEPT !.at = "head"] IN Steady(l, d) /\ l.at = "head"
  <1> DEFINE l == [k EXCEPT !.at = "head"]
  <1>1. k \in Connections
    BY DEF Steady
  <1>2. l \in Connections /\ l.at = "head" /\ l.transport = k.transport /\ Placed(l, k)
    BY <1>1 DEF Connections, Placed, Live
  <1> HIDE DEF l
  <1> QED BY <1>2, Arrives DEF l

\* It is over.
LEMMA OverSteady ==
  ASSUME NEW k \in Connections, NEW d
  PROVE  Steady(Over(k), d) /\ Over(k).at = "done"
  <1> DEFINE l == [NoConn EXCEPT !.at = "done", !.transport = k.transport, !.number = k.number]
  <1>1. k.transport \in {"none", "open", "closing", "closed"} /\ k.number \in 0 .. MaxRequests
    BY DEF Connections
  <1>2. /\ l \in Connections /\ l.at = "done" /\ ~l.forced /\ l.client = Unread /\ ~l.done /\ l.waiters = {} /\ l.woken = {}
    <2>1. NoConn \in Connections /\ ~NoConn.forced /\ NoConn.client = Unread /\ ~NoConn.done /\ NoConn.waiters = {} /\ NoConn.woken = {}
      BY Blank DEF NoConn
    <2> QED BY <1>1, <2>1 DEF Connections
  <1>3. Unread.stage = "head"
    BY DEF Unread
  <1>4. Over(k) = l
    BY DEF Over
  <1> HIDE DEF l
  <1>5. Exchange(l) /\ Attached(l, d) /\ Listening(l)
    BY <1>2, <1>3 DEF Exchange, Attached, Listening
  <1> QED BY <1>2, <1>4, <1>5 DEF Steady

\* The deadline gives it up.
LEMMA AbortedSteady ==
  ASSUME NEW k, NEW d, Steady(k, d), k.at \in Live
  PROVE  Steady(Aborted(k), d) /\ Aborted(k).at = k.at /\ Aborted(k).forced
  <1> DEFINE l == [Over(k) EXCEPT !.at = k.at, !.phase = k.phase, !.peer = "lost",
                                  !.transport = "closed", !.forced = TRUE]
  <1>1. k \in Connections
    BY DEF Steady
  <1>2. k.at \in Live \cup {"none", "accepted", "refusing", "done"} /\ k.phase \in {"idle", "http", "websocket"}
    BY <1>1 DEF Connections
  <1>3. /\ Over(k) \in Connections /\ Over(k).client = Unread /\ ~Over(k).done /\ Over(k).waiters = {}
        /\ Over(k).woken = {} /\ Over(k).request = NoRequest /\ Over(k).response = NoResponse /\ ~Over(k).ahead
    <2>1. Over(k) \in Connections
      BY <1>1, OverSteady DEF Steady
    <2>2. Over(k) = [NoConn EXCEPT !.at = "done", !.transport = k.transport, !.number = k.number]
      BY DEF Over
    <2>3. NoConn \in Connections /\ ~NoConn.ahead /\ NoConn.client = Unread /\ ~NoConn.done /\ NoConn.waiters = {}
          /\ NoConn.woken = {} /\ NoConn.request = NoRequest /\ NoConn.response = NoResponse
      BY Blank DEF NoConn
    <2> QED BY <2>1, <2>2, <2>3 DEF Connections
  <1>4. Aborted(k) = l
    BY DEF Aborted
  <1>5. /\ l \in Connections /\ l.at = k.at /\ l.forced /\ l.phase = k.phase /\ l.peer = "lost" /\ l.transport = "closed"
        /\ l.client = Unread /\ ~l.done /\ l.waiters = {} /\ l.woken = {} /\ l.request = NoRequest
        /\ l.response = NoResponse /\ ~l.ahead
    <2> HIDE DEF Over
    <2> QED BY <1>2, <1>3 DEF Connections
  <1>6. Unread.stage = "head"
    BY DEF Unread
  <1> HIDE DEF l
  <1>7. Exchange(l) /\ Listening(l)
    BY <1>5, <1>6, Places DEF Exchange, Listening
  <1>8. k.at \in {"call", "flush"} => k.phase # "idle"
    BY DEF Steady, Attached
  <1>9. Attached(l, d)
    BY <1>5, <1>8, Places DEF Attached
  <1> QED BY <1>4, <1>5, <1>7, <1>9 DEF Steady

\* What admission and the end of a connection change of the slots.
LEMMA SlotTaken ==
  ASSUME ConnectionsSound, NEW c \in Clients, NEW l, Set(c, l), Steady(l, Draining), server' = server,
         conn[c].at # "none" \/ server = "serving",
         \/ l.at \notin Live /\ registered' \in {registered \ {c}, registered} /\ free' = free /\ conn[c].at \notin Held
         \/ /\ l.at = "rejecting" /\ registered' = registered \cup {c} /\ free' = free /\ conn[c].at \notin Held
            /\ ~Draining
         \/ /\ l.at \in Held /\ registered' = registered \cup {c} /\ free > 0 /\ free' = free - 1
            /\ conn[c].at \notin Held /\ ~Draining
         \/ /\ l.at \notin Live /\ registered' = registered \ {c} /\ free' = free + 1 /\ conn[c].at \in Held,
         l.at # "call"
  PROVE  ConnectionsSound' /\ CallsInOrder
  <1>1. conn' = [conn EXCEPT ![c] = l] /\ conn \in [Clients -> Connections] /\ l \in Connections
    BY DEF Set, Steady, ConnectionsSound
  <1>2. conn'[c] = l /\ \A x \in Clients : x # c => conn'[x] = conn[x]
    BY <1>1
  <1>3. Draining' <=> Draining
    BY DEF Draining
  <1>4. conn' \in [Clients -> Connections]
    BY <1>1
  <1>5. \A x \in Clients : Steady(conn'[x], Draining)
    BY <1>2 DEF ConnectionsSound
  <1>6. \A x \in Clients : Steady(conn'[x], Draining')
    BY <1>3, <1>5, SteadyLater
  <1>7. registered' \subseteq Clients /\ {x \in Clients : conn'[x].at \in Live} \subseteq registered'
    BY <1>2, Places DEF ConnectionsSound
  <1>8. server \notin Preparing
    BY Servings DEF ConnectionsSound
  <1>9. server \in Ending \cup {"forced", "closing"} => \A x \in Clients : conn'[x].at \in Live => conn'[x].forced
    BY <1>2, Places, Servings DEF ConnectionsSound
  <1>10. free' \in 0 .. Slots /\ IsFiniteSet(Admitted') /\ free' + Cardinality(Admitted') = Slots
    <2>1. IsFiniteSet(Admitted) /\ Cardinality(Admitted) \in Nat /\ free + Cardinality(Admitted) = Slots
          /\ free \in 0 .. Slots /\ Slots \in Nat
      BY FS_CardinalityType, AsgiAssumption DEF ConnectionsSound
    <2>2. c \in Admitted <=> conn[c].at \in Held
      BY DEF Admitted
    <2>3. CASE l.at \notin Held /\ conn[c].at \notin Held /\ free' = free
      <3>1. Admitted' = Admitted
        BY <1>2, <2>3 DEF Admitted
      <3> QED BY <2>1, <2>3, <3>1
    <2>4. CASE l.at \in Held /\ conn[c].at \notin Held /\ free > 0 /\ free' = free - 1
      <3>1. Admitted' = Admitted \cup {c}
        BY <1>2, <2>4 DEF Admitted
      <3>2. IsFiniteSet(Admitted') /\ Cardinality(Admitted') = Cardinality(Admitted) + 1
        BY <2>1, <2>2, <2>4, <3>1, FS_AddElement
      <3> QED BY <2>1, <2>4, <3>2
    <2>5. CASE l.at \notin Held /\ conn[c].at \in Held /\ free' = free + 1
      <3>1. Admitted' = Admitted \ {c}
        BY <1>2, <2>5 DEF Admitted
      <3>2. IsFiniteSet(Admitted') /\ Cardinality(Admitted') = Cardinality(Admitted) - 1
        BY <2>1, <2>2, <2>5, <3>1, FS_RemoveElement
      <3>3. Cardinality(Admitted') \in Nat
        BY <3>2, FS_CardinalityType
      <3> QED BY <2>1, <2>5, <3>2, <3>3
    <2> QED BY <2>3, <2>4, <2>5, Places
  <1>11. ConnectionsSound'
    BY <1>4, <1>6, <1>7, <1>8, <1>9, <1>10 DEF ConnectionsSound
  <1>12. CallsInOrder
    BY <1>2 DEF CallsInOrder
  <1> QED BY <1>11, <1>12

LEMMA ArrivalSound ==
  ASSUME ConnectionsSound, NEW c \in Clients, Open(c) \/ Refuse(c) \/ Reject(c) \/ Admit(c)
  PROVE  ConnectionsSound' /\ CallsInOrder
  <1> DEFINE k == conn[c]
  <1>1. k \in Connections /\ Steady(k, Draining)
    BY DEF ConnectionsSound
  <1>2. CASE Open(c)
    <2> DEFINE l == [k EXCEPT !.at = "accepted", !.transport = "open"]
    <2>1. k.at = "none" /\ server = "serving" /\ Set(c, l)
      BY <1>2 DEF Open
    <2>2. Steady(l, Draining) /\ l.at = "accepted"
      BY <1>1, <2>1, Opened
    <2> HIDE DEF l
    <2> QED BY <1>2, <2>1, <2>2, SlotTaken, Places DEF Open, Elsewhere
  <1>3. CASE Refuse(c)
    <2> DEFINE l == CloseWriter([k EXCEPT !.at = "refusing"])
    <2>1. k.at = "accepted" /\ Set(c, l) /\ server' = server /\ free' = free /\ registered' = registered
      BY <1>3 DEF Refuse, Elsewhere
    <2>2. Steady(l, Draining) /\ l.at = "refusing"
      BY <1>1, <2>1, TurnedOff
    <2> HIDE DEF l
    <2> QED BY <2>1, <2>2, SlotTaken, Places
  <1>4. CASE Reject(c)
    <2> DEFINE l == CloseWriter([k EXCEPT !.at = "rejecting"])
    <2>1. k.at = "accepted" /\ Set(c, l) /\ server' = server /\ free' = free /\ registered' = registered \cup {c}
          /\ ~Draining
      BY <1>4 DEF Reject
    <2>2. Steady(l, Draining) /\ l.at = "rejecting"
      BY <1>1, <2>1, TurnedOff
    <2> HIDE DEF l
    <2> QED BY <2>1, <2>2, SlotTaken, Places
  <1>5. CASE Admit(c)
    <2> DEFINE l == [k EXCEPT !.at = "head"]
    <2>1. k.at = "accepted" /\ Set(c, l) /\ server' = server /\ ~Draining
          /\ free > 0 /\ free' = free - 1 /\ registered' = registered \cup {c}
      BY <1>5 DEF Admit
    <2>2. Steady(l, Draining) /\ l.at = "head"
      BY <1>1, <2>1, Entered
    <2> HIDE DEF l
    <2> QED BY <2>1, <2>2, SlotTaken, Places
  <1> QED BY <1>2, <1>3, <1>4, <1>5

LEMMA DepartureSound ==
  ASSUME ConnectionsSound, NEW c \in Clients, TurnedAway(c) \/ Gone(c)
  PROVE  ConnectionsSound' /\ CallsInOrder
  <1>1. Steady(Over(conn[c]), Draining) /\ Over(conn[c]).at = "done"
    BY OverSteady DEF ConnectionsSound
  <1> HIDE DEF Over
  <1>2. CASE TurnedAway(c)
    BY <1>1, <1>2, SlotTaken, Places DEF TurnedAway
  <1>3. CASE Gone(c)
    BY <1>1, <1>3, SlotTaken, Places DEF Gone
  <1> QED BY <1>2, <1>3

\* The server goes on, and no connection changes.
LEMMA ServerMoves ==
  ASSUME ConnectionsSound, UNCHANGED <<conn, registered, free>>,
         \/ server' = server
         \/ server \in Preparing /\ server' \in Preparing \cup {"serving", "ending"}
         \/ server \in Ending /\ server' \in Ending
         \/ server = "draining" /\ server' = "closing" /\ Working = {}
         \/ server = "forced" /\ server' = "closing"
         \/ server = "closing" /\ server' = "ending"
  PROVE  ConnectionsSound' /\ CallsInOrder
  <1>1. server' \in Servers
    BY DEF ConnectionsSound, Servers, Preparing, Ending
  <1>2. Draining => Draining'
    BY Servings DEF Draining, Ending, Preparing
  <1>3. \A x \in Clients : Steady(conn'[x], Draining')
    BY <1>2, SteadyLater DEF ConnectionsSound
  <1>4. Admitted' = Admitted
    BY DEF Admitted
  <1>5. server' \in Preparing => \A x \in Clients : conn[x].at = "none"
    <2>1. server' \in Preparing => server \in Preparing
      BY DEF Preparing, Ending
    <2> QED BY <2>1 DEF ConnectionsSound
  <1>6. server' \in Ending \cup {"forced", "closing"} => \A x \in Clients : conn[x].at \in Live => conn[x].forced
    <2>1. Working = {} => \A x \in Clients : conn[x].at \notin Live
      BY DEF Working, ConnectionsSound
    <2>2. server \in Preparing => \A x \in Clients : conn[x].at \notin Live
      BY Places DEF ConnectionsSound
    <2>3. "serving" \notin Ending \cup {"forced", "closing"} /\ Preparing \cap (Ending \cup {"forced", "closing"}) = {}
      BY DEF Ending, Preparing
    <2> QED BY <2>1, <2>2, <2>3 DEF ConnectionsSound
  <1> QED BY <1>1, <1>3, <1>4, <1>5, <1>6 DEF ConnectionsSound, CallsInOrder

LEMMA LifespanMoves ==
  ASSUME ConnectionsSound, life \in Lives, LifespanStep
  PROVE  /\ life' \in Lives /\ UNCHANGED <<conn, registered, free, ws>>
         /\ \/ server' = server
            \/ server \in Preparing /\ server' \in Preparing \cup {"serving", "ending"}
            \/ server \in Ending /\ server' \in Ending
  <1>1. UNCHANGED <<conn, registered, free, ws>>
    BY DEF LifespanStep
  <1>2. CancelTask => life' \in Lives
    <2> DEFINE t == IF life.task = "running" THEN "cancelling" ELSE life.task
    <2>1. t \in {"none", "running", "cancelling", "done"}
      BY DEF Lives
    <2>2. CancelTask => life' = [life EXCEPT !.task = t]
      BY DEF CancelTask
    <2> HIDE DEF t
    <2> QED BY <2>1, <2>2 DEF Lives
  <1>3. CASE Answer
    <2>1. PICK answer \in {"complete", "failed"} :
            life' = [life EXCEPT !.startup = answer] \/ life' = [life EXCEPT !.shutdown = answer]
      BY <1>3 DEF Answer
    <2>2. answer \in Answers
      BY DEF Answers
    <2>3. life' \in Lives
      BY <2>1, <2>2 DEF Lives
    <2> QED BY <1>1, <1>3, <2>3 DEF Answer
  <1>4. CASE Exit
    <2> DEFINE a == IF life.startup = "none" THEN "exited" ELSE life.startup
               b == IF life.shutdown = "none" THEN "exited" ELSE life.shutdown
    <2>1. a \in Answers /\ b \in Answers
      BY DEF Lives, Answers
    <2>2. life' = [life EXCEPT !.task = "done", !.startup = a, !.shutdown = b]
      BY <1>4 DEF Exit
    <2> HIDE DEF a, b
    <2>3. life' \in Lives
      BY <2>1, <2>2 DEF Lives
    <2> QED BY <1>1, <1>4, <2>3 DEF Exit
  <1>5. CASE Startup
    <2>1. life' = life \/ life' = [life EXCEPT !.task = "running"]
      BY <1>5 DEF Startup
    <2>2. life' \in Lives
      BY <2>1 DEF Lives
    <2> QED BY <1>1, <1>5, <2>2 DEF Startup, GoTo, Preparing
  <1>6. CASE Started \/ Unwound \/ ListenFails \/ Serve
    <2>1. life' = life \/ CancelTask
      BY <1>6 DEF Started, Unwound, ListenFails, Serve
    <2>2. server \in Preparing /\ server' \in Preparing \cup {"serving", "ending"}
      BY <1>6 DEF Started, Unwound, ListenFails, Serve, GoTo, Preparing
    <2> QED BY <1>1, <1>2, <2>1, <2>2
  <1>7. CASE AskShutdown \/ ShutdownOver \/ Stopped
    <2>1. life' = life \/ CancelTask
      BY <1>7 DEF AskShutdown, ShutdownOver, Stopped
    <2>2. server \in Ending /\ server' \in Ending
      BY <1>7 DEF AskShutdown, ShutdownOver, Stopped, GoTo, Ending
    <2> QED BY <1>1, <1>2, <2>1, <2>2
  <1> QED BY <1>3, <1>4, <1>5, <1>6, <1>7 DEF LifespanStep

\* The drain closes only those between two requests.
LEMMA DrainBegins ==
  ASSUME ConnectionsSound, BeginDrain
  PROVE  ConnectionsSound' /\ CallsInOrder
  <1> DEFINE l(x) == IF x \in registered /\ conn[x].phase = "idle" THEN CloseWriter(conn[x]) ELSE conn[x]
  <1>1. /\ server \in {"bound", "serving"} /\ server' = "draining" /\ registered' = registered /\ free' = free
        /\ conn' = [x \in Clients |-> l(x)]
    BY DEF BeginDrain, GoTo
  <1>2. ASSUME NEW x \in Clients
        PROVE  Steady(l(x), TRUE) /\ l(x).at = conn[x].at
    <2> DEFINE k == conn[x]
               m == CloseWriter(k)
    <2>1. k \in Connections /\ Steady(k, Draining)
      BY DEF ConnectionsSound
    <2>2. Steady(k, TRUE)
      BY <2>1, SteadyLater
    <2>3. CASE x \in registered /\ k.phase = "idle"
      <3>1. /\ m \in Connections /\ Alike(m, k) /\ m.peer = k.peer /\ m.waiters = k.waiters /\ m.woken = k.woken
            /\ m.transport = IF k.transport = "open" THEN "closing" ELSE k.transport
        BY <2>1, WriterClosed
      <3> HIDE DEF m, k
      <3>2. Exchange(m)
        BY <2>2, <3>1 DEF Steady, Exchange, Alike
      <3>3. Attached(m, TRUE)
        BY <2>2, <2>3, <3>1 DEF Steady, Attached, Alike
      <3>4. Listening(m)
        BY <2>2, <3>1 DEF Steady, Listening, Alike
      <3>5. l(x) = m
        BY <2>3 DEF k, m
      <3> HIDE DEF l
      <3> QED BY <3>1, <3>2, <3>3, <3>4, <3>5 DEF Steady, Alike, k
    <2>4. CASE ~(x \in registered /\ k.phase = "idle")
      BY <2>2, <2>4
    <2> QED BY <2>3, <2>4
  <1> HIDE DEF l
  <1>3. conn' \in [Clients -> Connections] /\ \A x \in Clients : conn'[x] = l(x)
    BY <1>1, <1>2 DEF Steady
  <1>4. Draining' /\ ~Draining
    BY <1>1 DEF Draining
  <1>5. \A x \in Clients : Steady(conn'[x], Draining')
    <2>1. \A x \in Clients : Steady(conn'[x], TRUE)
      BY <1>2, <1>3
    <2> QED BY <1>4, <2>1, SteadyLater
  <1>6. Admitted' = Admitted
    BY <1>2, <1>3 DEF Admitted
  <1>7. {x \in Clients : conn'[x].at \in Live} \subseteq registered
    BY <1>2, <1>3 DEF ConnectionsSound
  <1>8. server' \in Servers /\ server' \notin Preparing /\ server' \notin Ending \cup {"forced", "closing"}
    BY <1>1 DEF Servers, Preparing, Ending
  <1> QED BY <1>1, <1>3, <1>4, <1>5, <1>6, <1>7, <1>8 DEF ConnectionsSound, CallsInOrder

\* Its deadline leaves none but what was given up.
LEMMA DrainOverdue ==
  ASSUME ConnectionsSound, Overdue
  PROVE  ConnectionsSound' /\ CallsInOrder
  <1> DEFINE l(x) == IF x \in Working THEN Aborted(conn[x]) ELSE conn[x]
  <1>1. /\ server = "draining" /\ server' = "forced" /\ registered' = registered /\ free' = free
        /\ conn' = [x \in Clients |-> l(x)]
    BY DEF Overdue, GoTo
  <1>2. ASSUME NEW x \in Clients
        PROVE  Steady(l(x), TRUE) /\ l(x).at = conn[x].at /\ (conn[x].at \in Live => l(x).forced)
    <2>1. Steady(conn[x], TRUE)
      BY SteadyLater DEF ConnectionsSound
    <2>2. x \in Working <=> conn[x].at \in Live
      BY DEF Working, ConnectionsSound
    <2>3. CASE x \in Working
      <3>1. Steady(Aborted(conn[x]), TRUE) /\ Aborted(conn[x]).at = conn[x].at /\ Aborted(conn[x]).forced
        BY <2>1, <2>2, <2>3, AbortedSteady
      <3> QED BY <2>3, <3>1
    <2>4. CASE x \notin Working
      BY <2>1, <2>2, <2>4
    <2> QED BY <2>3, <2>4
  <1> HIDE DEF l
  <1>3. conn' \in [Clients -> Connections] /\ \A x \in Clients : conn'[x] = l(x)
    BY <1>1, <1>2 DEF Steady
  <1>4. Draining' /\ Draining
    BY <1>1 DEF Draining
  <1>5. \A x \in Clients : Steady(conn'[x], Draining')
    <2>1. \A x \in Clients : Steady(conn'[x], TRUE)
      BY <1>2, <1>3
    <2> QED BY <1>4, <2>1, SteadyLater
  <1>6. Admitted' = Admitted
    BY <1>2, <1>3 DEF Admitted
  <1>7. {x \in Clients : conn'[x].at \in Live} \subseteq registered
    BY <1>2, <1>3 DEF ConnectionsSound
  <1>8. server' \in Servers /\ server' \notin Preparing
    BY <1>1 DEF Servers, Preparing
  <1>9. \A x \in Clients : conn'[x].at \in Live => conn'[x].forced
    BY <1>2, <1>3
  <1> QED BY <1>1, <1>2, <1>3, <1>5, <1>6, <1>7, <1>8, <1>9 DEF ConnectionsSound, CallsInOrder

-----------------------------------------------------------------------------
(* The invariant                                                           *)

\* The inductive invariant.
AsgiInv == ConnectionsSound /\ life \in Lives /\ SocketsSound

LEMMA AsgiStarts == ASSUME AsgiInit PROVE AsgiInv
  <1>1. server = "new" /\ life \in Lives
    BY DEF AsgiInit, LifeInit, Lives, Answers
  <1>2. conn \in [Clients -> Connections] /\ \A c \in Clients : conn[c] = NoConn
    BY Blank DEF AsgiInit
  <1>3. NoConn.at = "none" /\ NoConn.transport = "none" /\ ~NoConn.forced /\ NoConn.number = 0 /\ ~NoConn.done
        /\ NoConn.client.stage = "head" /\ NoConn.waiters = {} /\ NoConn.woken = {}
    BY DEF NoConn, Unread
  <1>4. Steady(NoConn, Draining)
    <2> HIDE DEF NoConn
    <2> QED BY <1>3, Blank DEF Steady, Exchange, Attached, Listening
  <1>5. SocketsSound
    BY FreshSocket DEF AsgiInit, SocketsSound
  <1>6. registered = {} /\ free = Slots /\ free \in 0 .. Slots
    BY AsgiAssumption DEF AsgiInit
  <1>7. \A c \in Clients : conn[c].at \notin Live
    BY <1>2, <1>3, Places
  <1>8. Admitted = {}
    BY <1>7, Places DEF Admitted
  <1>9. IsFiniteSet(Admitted) /\ free + Cardinality(Admitted) = Slots
    <2>1. IsFiniteSet({}) /\ Cardinality({}) = 0
      BY FS_EmptySet
    <2> QED BY <1>6, <1>8, <2>1, AsgiAssumption
  <1>10. server \in Servers
    BY <1>1 DEF Servers
  <1> QED BY <1>1, <1>2, <1>3, <1>4, <1>5, <1>6, <1>7, <1>9, <1>10 DEF AsgiInv, ConnectionsSound

\* A step of a connection, or of what listens for it.
LEMMA ConnectionStep ==
  ASSUME ConnectionsSound, NEW c \in Clients, ClientStep(c) \/ TaskStep(c) \/ AppStep(c) \/ TransportCloses(c)
  PROVE  ConnectionsSound' /\ CallsInOrder
  <1>1. Steady(conn[c], Draining)
    BY DEF ConnectionsSound
  <1>2. CASE ClientSends(c) \/ ClientEnds(c) \/ ClientResets(c) \/ TransportCloses(c)
    BY <1>1, <1>2, ClientMoves, MovesSound
  <1>3. CASE HeadRead(c)
    BY <1>1, <1>3, HeadMoves, MovesSound
  <1>4. CASE AppSend(c) \/ AppReceive(c) \/ AppListen(c) \/ AppReturns(c) \/ AppRaises(c)
    BY <1>1, <1>4, CallMoves, MovesSound
  <1>5. CASE AppHears(c) \/ SocketEnds(c) \/ HeadFails(c) \/ Flush(c) \/ Reply(c) \/ Cancelled(c)
    BY <1>1, <1>5, EndMoves, MovesSound
  <1>6. CASE Open(c) \/ Refuse(c) \/ Reject(c) \/ Admit(c)
    BY <1>6, ArrivalSound
  <1>7. CASE TurnedAway(c) \/ Gone(c)
    BY <1>7, DepartureSound
  <1>8. CASE Socket(c)
    BY <1>8, ServerMoves DEF Socket, Slotless
  <1> QED BY <1>2, <1>3, <1>4, <1>5, <1>6, <1>7, <1>8 DEF ClientStep, TaskStep, AppStep

LEMMA SocketSet ==
  ASSUME SocketsSound, NEW c \in Clients, NEW t \in WebSockets, SocketSound(t), ws' = [ws EXCEPT ![c] = t]
  PROVE  SocketsSound'
  BY DEF SocketsSound

LEMMA SocketsKept ==
  ASSUME SocketsSound, [AsgiNext]_asgiVars
  PROVE  SocketsSound'
  <1>1. CASE ws' = ws
    BY <1>1 DEF SocketsSound
  <1>2. CASE Overdue
    <2>1. \A x \in Clients : (IF x \in Working THEN NoSocket ELSE ws[x]) \in WebSockets
                             /\ SocketSound(IF x \in Working THEN NoSocket ELSE ws[x])
      BY FreshSocket DEF SocketsSound
    <2>2. ws' = [x \in Clients |-> IF x \in Working THEN NoSocket ELSE ws[x]]
      BY <1>2 DEF Overdue
    <2> QED BY <2>1, <2>2 DEF SocketsSound
  <1>3. ASSUME NEW c \in Clients, Socket(c) PROVE SocketsSound'
    <2>1. PICK t \in WebSockets : SocketSound(t) /\ Update(c, t)
      BY <1>3, SocketStepSound DEF Socket
    <2> QED BY <2>1, SocketSet DEF Update
  <1>4. ASSUME NEW c \in Clients, HeadRead(c) \/ SocketEnds(c) PROVE SocketsSound'
    <2>1. ws' = ws \/ ws' = [ws EXCEPT ![c] = NoSocket]
      BY <1>4 DEF HeadRead, SocketEnds
    <2> QED BY <1>1, <2>1, SocketSet, FreshSocket
  <1>5. LifespanStep \/ BeginDrain \/ Drained \/ Observe \/ ServerClosed \/ UNCHANGED asgiVars => ws' = ws
    BY DEF LifespanStep, BeginDrain, Drained, Observe, ServerClosed, asgiVars
  <1>6. ASSUME NEW c \in Clients, ClientStep(c) \/ TransportCloses(c) PROVE ws' = ws
    BY <1>6 DEF ClientStep, ClientSends, ClientEnds, ClientResets, Open, TransportCloses, Elsewhere
  <1>7. ASSUME NEW c \in Clients, TaskStep(c) PROVE ws' = ws \/ HeadRead(c)
    BY <1>7 DEF TaskStep, Refuse, Reject, Admit, TurnedAway, HeadFails, Flush, Reply, Cancelled, Gone, Elsewhere
  <1>8. ASSUME NEW c \in Clients, AppStep(c) PROVE ws' = ws \/ Socket(c) \/ SocketEnds(c)
    BY <1>8 DEF AppStep, AppSend, AppReceive, AppListen, AppHears, AppReturns, AppRaises, Elsewhere
  <1> QED BY <1>1, <1>2, <1>3, <1>4, <1>5, <1>6, <1>7, <1>8 DEF AsgiNext, ServerStep

LEMMA AsgiStep == ASSUME AsgiInv, [AsgiNext]_asgiVars PROVE AsgiInv' /\ CallsInOrder
  <1>1. ConnectionsSound /\ life \in Lives /\ SocketsSound
    BY DEF AsgiInv
  <1>2. SocketsSound'
    BY <1>1, SocketsKept
  <1>3. CASE LifespanStep
    <2>1. /\ life' \in Lives /\ UNCHANGED <<conn, registered, free, ws>>
          /\ \/ server' = server
             \/ server \in Preparing /\ server' \in Preparing \cup {"serving", "ending"}
             \/ server \in Ending /\ server' \in Ending
      BY <1>1, <1>3, LifespanMoves
    <2>2. ConnectionsSound' /\ CallsInOrder
      BY <1>1, <2>1, ServerMoves
    <2> QED BY <1>2, <2>1, <2>2 DEF AsgiInv
  <1>4. CASE ServerStep
    <2>1. life' = life
      BY <1>4 DEF ServerStep, BeginDrain, Drained, Overdue, Observe, ServerClosed
    <2>2. Drained \/ Observe \/ ServerClosed =>
            /\ UNCHANGED <<conn, registered, free>>
            /\ \/ server = "draining" /\ server' = "closing" /\ Working = {}
               \/ server = "forced" /\ server' = "closing"
               \/ server = "closing" /\ server' = "ending"
      BY DEF Drained, Observe, ServerClosed, GoTo, Slotless
    <2>4. Drained \/ Observe \/ ServerClosed => ConnectionsSound' /\ CallsInOrder
      BY <1>1, <2>2, ServerMoves
    <2>3. ConnectionsSound' /\ CallsInOrder
      BY <1>1, <1>4, <2>4, DrainBegins, DrainOverdue DEF ServerStep
    <2> QED BY <1>1, <1>2, <2>1, <2>3 DEF AsgiInv
  <1>5. ASSUME NEW c \in Clients, ClientStep(c) \/ TaskStep(c) \/ AppStep(c) \/ TransportCloses(c)
        PROVE  AsgiInv' /\ CallsInOrder
    <2>1. ConnectionsSound' /\ CallsInOrder
      BY <1>1, <1>5, ConnectionStep
    <2>3. ClientStep(c) \/ TransportCloses(c) => life' = life
      BY DEF ClientStep, ClientSends, ClientEnds, ClientResets, Open, TransportCloses, Elsewhere
    <2>4. TaskStep(c) => life' = life
      BY DEF TaskStep, Refuse, Reject, Admit, TurnedAway, HeadFails, HeadRead, Flush, Reply, Cancelled, Gone, Elsewhere
    <2>5. AppStep(c) => life' = life
      BY DEF AppStep, AppSend, AppReceive, AppListen, AppHears, AppReturns, AppRaises, Socket, SocketEnds, Elsewhere
    <2> QED BY <1>1, <1>2, <1>5, <2>1, <2>3, <2>4, <2>5 DEF AsgiInv
  <1>6. CASE UNCHANGED asgiVars
    <2>1. UNCHANGED <<conn, registered, free>> /\ server' = server /\ life' = life
      BY <1>6 DEF asgiVars
    <2>2. ConnectionsSound' /\ CallsInOrder
      BY <1>1, <2>1, ServerMoves
    <2> QED BY <1>1, <1>2, <2>1, <2>2 DEF AsgiInv
  <1> QED BY <1>3, <1>4, <1>5, <1>6 DEF AsgiNext

LEMMA AsgiInvariant == AsgiSpec => []AsgiInv
  <1>1. AsgiInit => AsgiInv
    BY AsgiStarts
  <1>2. AsgiInv /\ [AsgiNext]_asgiVars => AsgiInv'
    BY AsgiStep
  <1> QED BY <1>1, <1>2, PTL DEF AsgiSpec

\* What a client reads on its connection is what responses and frames announce:
\* for any number of clients, slots and requests, and whatever applications
\* send (asgi.py:1144, :1379, _websocket.py:184).
THEOREM WireStaysInStep == AsgiSpec => []WireInStep
  <1>1. ASSUME AsgiInv PROVE WireInStep
    <2>1. ConnectionsSound /\ life \in Lives /\ SocketsSound
      BY <1>1 DEF AsgiInv
    <2>2. AsgiTypeOK
      BY <2>1 DEF AsgiTypeOK, ConnectionsSound, SocketsSound
    <2>3. Accounted
      BY <2>1 DEF Accounted, ConnectionsSound, Admitted, Held
    <2>4. InStep
      BY <2>1 DEF InStep, ConnectionsSound, Steady, Exchange
    <2>5. CloseIsLast
      BY <2>1 DEF CloseIsLast, SocketsSound, SocketSound
    <2> QED BY <2>2, <2>3, <2>4, <2>5 DEF WireInStep
  <1> QED BY <1>1, AsgiInvariant, PTL

\* Who waits in receive() is told of the end of the response and of the client
\* (asgi.py:1253).
THEOREM ListenersAreTold == AsgiSpec => []ListenersTold
  <1>1. ASSUME AsgiInv PROVE ListenersTold
    BY <1>1 DEF AsgiInv, ConnectionsSound, Steady, Listening, ListenersTold
  <1> QED BY <1>1, AsgiInvariant, PTL

\* No call to the application begins in the drain, and the lifespan is shut
\* down behind all of them (asgi.py:753, :297).
THEOREM DrainStaysOrdered == AsgiSpec => DrainOrdered
  <1>1. AsgiInv => LifespanLast
    BY DEF AsgiInv, ConnectionsSound, LifespanLast, Ending
  <1>2. AsgiInv /\ [AsgiNext]_asgiVars => [CallsInOrder]_asgiVars
    BY AsgiStep
  <1>3. AsgiSpec => [][CallsInOrder]_asgiVars /\ []LifespanLast
    BY <1>1, <1>2, AsgiInvariant, PTL DEF AsgiSpec
  <1> QED BY <1>3 DEF DrainOrdered, NoCallInDrain, CallsInOrder
===============================================================================
