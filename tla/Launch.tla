--------------------------------- MODULE Launch ---------------------------------
(***************************************************************************)
(* A process of servery from its command line to its end (serve() and      *)
(* _serve_prepared() in server.py): the certificate, the listeners in the  *)
(* order in which they are started, the finally clauses that stop them,    *)
(* failures and Ctrl-C at every step, and starts after starts that failed  *)
(* or died.  With several workers the process is a supervisor; the archive *)
(* streams of its own server hold leases until the drain.                  *)
(***************************************************************************)
EXTENDS Acme, Supervisor

CONSTANTS
  Plans,       \* what the command line of each start may ask for
  Archivers,   \* the threads that stream archives
  MaxArchives  \* config.max_archive_streams

ASSUME LimiterAssumption == IsFiniteSet(Archivers) /\ MaxArchives \in Nat \ {0}
ASSUME LaunchAssumption ==
  \A n \in DOMAIN Plans :
    Plans[n] \subseteq [acme : BOOLEAN, generated : BOOLEAN, tftp : BOOLEAN, http3 : BOOLEAN,
                       mdns : BOOLEAN, serves : {"tcp", "http3", "asgi", "workers"}]

VARIABLES where,     \* where the main thread is
          plan,
          alive,     \* what is open or running
          cleanups,  \* the finally clauses and context managers that are entered
          outcome,   \* how serve() ends: "none", "returned" or "raised"
          strays,    \* what runs and no clause will close, or did not end when it was told to
          starts,
          responder, \* the thread of the mDNS responder, and whether it is to stop
          limiter,   \* of the BoundedWorkLimiter: closed, and the counters
          lease      \* what each thread has: "none", "held", "failed" or "over"

limiterVars == <<limiter, lease>>
launchVars == <<where, plan, alive, cleanups, outcome, strays, starts, responder>>
supervisorVars == vars
allVars == <<launchVars, acmeVars, limiterVars, supervisorVars>>

-----------------------------------------------------------------------------
(* BoundedWorkLimiter and WorkLease (_work.py): leases for work that stays *)
(* on the thread of its connection, as the archives of handler.py take     *)
(* them.  A lease is released by whoever finds out first that the work has *)
(* failed, and again by the with statement around it.                      *)

LimiterInit ==
  /\ limiter = [closed |-> FALSE, active |-> 0, submitted |-> 0, succeeded |-> 0, failures |-> 0]
  /\ lease = [t \in Archivers |-> "none"]

Has(t, what) == lease' = [lease EXCEPT ![t] = what]

Reserve(t) ==
  /\ lease[t] = "none" /\ ~limiter.closed /\ limiter.active < MaxArchives
  /\ limiter' = [limiter EXCEPT !.active = @ + 1, !.submitted = @ + 1] /\ Has(t, "held")

\* 503 before any head; the thread is done.
Refused(t) ==
  /\ lease[t] = "none" /\ (limiter.closed \/ limiter.active >= MaxArchives)
  /\ Has(t, "over") /\ UNCHANGED limiter

\* The permit goes back, and the lease counts as failed or succeeded.
GivenBack(asFailure) ==
  [limiter EXCEPT !.active = @ - 1, ![IF asFailure THEN "failures" ELSE "succeeded"] = @ + 1]

\* The client hung up, or a file changed while it was read.
StreamFails(t) ==
  /\ lease[t] = "held" /\ Has(t, "failed") /\ limiter' = GivenBack(TRUE)

\* The with statement ends, by an exception of its own kind perhaps.
Leave(t) ==
  /\ lease[t] \in {"held", "failed"} /\ Has(t, "over")
  /\ limiter' \in IF lease[t] = "failed" THEN {limiter} ELSE {GivenBack(asFailure) : asFailure \in BOOLEAN}

CloseLimiter == limiter' = [limiter EXCEPT !.closed = TRUE] /\ UNCHANGED lease

Archives(t) == Reserve(t) \/ Refused(t) \/ StreamFails(t) \/ Leave(t)

(* A lease is counted once, and given back once, whether its stream        *)
(* succeeds, fails or is refused (_work.py:101, :136, :167).               *)
LeasesExact ==
  /\ limiter.active = Cardinality({t \in Archivers : lease[t] = "held"})
  /\ limiter.active \in 0..MaxArchives
  /\ limiter.submitted = limiter.active + limiter.succeeded + limiter.failures

-----------------------------------------------------------------------------
NoPlan == [acme |-> FALSE, generated |-> FALSE, tftp |-> FALSE, http3 |-> FALSE,
           mdns |-> FALSE, serves |-> "tcp"]

\* Of the responder, late: answers that went out behind the goodbye (history).
NoResponder == [thread |-> "none", stop |-> FALSE, late |-> 0]

LaunchInit ==
  /\ AcmeInit /\ LimiterInit /\ Init
  /\ where = "down" /\ plan = NoPlan /\ alive = {} /\ cleanups = <<>>
  /\ outcome = "none" /\ strays = {} /\ starts = 0 /\ responder = NoResponder

Goto(place) == where' = place
Open(part) == alive' = alive \union {part}
Enter(part) == cleanups' = Append(cleanups, part)
Apart == UNCHANGED <<plan, starts, acmeVars, limiterVars, supervisorVars>>
Elsewhere == Apart /\ UNCHANGED responder

-----------------------------------------------------------------------------
(* Starting                                                                *)

Begin ==
  /\ where = "down" /\ starts < Len(Plans) /\ starts' = starts + 1
  /\ plan' \in Plans[starts']
  /\ Goto(IF plan'.acme THEN "acme" ELSE "files")
  /\ acme' = (IF plan'.acme THEN "look" ELSE acme)
  /\ UNCHANGED <<alive, cleanups, outcome, strays, responder, clientVars, files, torn, made, ca>>
  /\ UNCHANGED <<limiterVars, supervisorVars>>

AcmeEnds ==
  /\ where = "acme" /\ acme \in {"done", "failed"}
  /\ Goto(IF acme = "done" THEN "files" ELSE "ended")
  /\ outcome' = IF acme = "done" THEN "none" ELSE "raised"
  /\ UNCHANGED <<alive, cleanups, strays>> /\ Elsewhere

\* What raises leaves through the clauses that are entered.
Raise == Goto("unwinding") /\ outcome' = "raised"

GenerateFiles ==
  /\ where = "files"
  /\ IF plan.generated THEN Open("files") /\ Enter("files") ELSE UNCHANGED <<alive, cleanups>>
  /\ Goto(IF plan.serves = "workers" THEN "supervising" ELSE "tftp")
  /\ UNCHANGED <<outcome, strays>> /\ Elsewhere

AfterTftp == CASE plan.serves = "tcp" -> "bind" [] plan.serves = "http3" -> "http3" [] OTHER -> "serving"
StartTftp ==
  /\ where = "tftp" /\ UNCHANGED strays /\ Elsewhere
  /\ \/ ~plan.tftp /\ Goto(AfterTftp) /\ UNCHANGED <<alive, cleanups, outcome>>
     \/ plan.tftp /\ Open("tftp") /\ Enter("tftp") /\ Goto(AfterTftp) /\ UNCHANGED outcome
     \/ plan.tftp /\ Raise /\ UNCHANGED <<alive, cleanups>>

\* bind_tcp_listener closes what it cannot bind and tries the next port.
Bind ==
  /\ where = "bind" /\ UNCHANGED <<cleanups, strays>> /\ Elsewhere
  /\ \/ Open("bound") /\ Goto("adopt") /\ UNCHANGED outcome
     \/ Raise /\ UNCHANGED alive

\* What make_server has made of the listener is closed when a later part of it
\* fails; the listener that was bound is closed in any case.
Undo(parts) == alive' = alive \ (parts \union {"bound"}) /\ Raise /\ UNCHANGED cleanups

\* The server takes a copy of the listener.
Adopt ==
  /\ where = "adopt" /\ UNCHANGED strays /\ Elsewhere
  /\ \/ Open("tcp") /\ Goto("wrap") /\ UNCHANGED <<cleanups, outcome>>
     \/ Undo({})

WrapTls ==
  /\ where = "wrap" /\ UNCHANGED strays /\ Elsewhere
  /\ \/ Goto("equip") /\ UNCHANGED <<alive, cleanups, outcome>>
     \/ Undo({"tcp"})

\* Mutant: only the copy of the listener is closed.
EquipLeaks ==
  /\ where = "equip" /\ UNCHANGED strays /\ Elsewhere
  /\ \/ alive' = (alive \ {"bound"}) \union {"log"} /\ Enter("tcp") /\ Goto("http3") /\ UNCHANGED outcome
     \/ \E logs \in SUBSET {"log"} :
          alive' = (alive \ {"bound", "tcp"}) \union logs /\ Raise /\ UNCHANGED cleanups

\* The access log, the pool and the locks of WebDAV.
Equip ==
  /\ where = "equip" /\ UNCHANGED strays /\ Elsewhere
  /\ \/ alive' = (alive \ {"bound"}) \union {"log"} /\ Enter("tcp") /\ Goto("http3") /\ UNCHANGED outcome
     \/ Undo({"tcp", "log"})

\* Beside the TCP server the handle is closed by a clause that is entered later.
\* A thread that is not ready in time is told to stop, and may not in time.
StartHttp3 ==
  LET alone == plan.serves = "http3"
  IN /\ where = "http3" /\ Elsewhere
     /\ \/ /\ alone \/ plan.http3
           /\ Open("http3") /\ Goto(IF alone THEN "serving" ELSE "mdns") /\ UNCHANGED <<outcome, strays>>
           /\ IF alone THEN Enter("http3") ELSE UNCHANGED cleanups
        \/ (alone \/ plan.http3) /\ Raise /\ UNCHANGED <<alive, strays, cleanups>>
        \/ (alone \/ plan.http3) /\ Raise /\ Open("http3") /\ strays' = {"http3"} /\ UNCHANGED cleanups
        \/ ~alone /\ ~plan.http3 /\ Goto("mdns") /\ UNCHANGED <<alive, cleanups, outcome, strays>>

\* No responder if it cannot bind; an address that it cannot encode raises.
StartMdns ==
  /\ where = "mdns" /\ UNCHANGED cleanups /\ Apart
  /\ \/ Goto("try") /\ UNCHANGED <<alive, outcome, strays, responder>>
     \/ /\ plan.mdns /\ Open("mdns") /\ Goto("try") /\ UNCHANGED <<outcome, strays>>
        /\ responder' = [NoResponder EXCEPT !.thread = "look"]
     \/ plan.mdns /\ Raise /\ strays' = alive \intersect {"http3"} /\ UNCHANGED <<alive, responder>>

Clause(part) == IF part \in alive THEN <<part>> ELSE <<>>
Try ==
  /\ where = "try" /\ Goto("serving")
  /\ cleanups' = cleanups \o Clause("http3") \o Clause("mdns")
  /\ UNCHANGED <<alive, outcome, strays>> /\ Elsewhere

Starts ==
  \/ AcmeEnds \/ GenerateFiles \/ StartTftp \/ Bind \/ Adopt \/ WrapTls \/ Equip \/ StartHttp3 \/ StartMdns \/ Try

-----------------------------------------------------------------------------
(* Serving and stopping                                                    *)

\* Ctrl-C while it serves is the normal end; before, it leaves from where it is.
Stopped ==
  /\ where = "serving" /\ Goto("unwinding")
  /\ outcome' \in {"returned", "raised"}
  /\ UNCHANGED <<alive, cleanups, strays>> /\ Elsewhere

Interrupted ==
  /\ where \in {"files", "tftp", "bind", "http3", "mdns", "try"} /\ Raise
  /\ strays' = alive \intersect {"http3", "mdns"}
  /\ UNCHANGED <<alive, cleanups>> /\ Elsewhere

\* The certificate is obtained under no clause but those of the client.
AcmeInterrupted ==
  /\ where = "acme" /\ acme \in {"look", "account", "saveAccount", "listen", "saveChain", "saveKey"}
  /\ Flow("failed") /\ UNCHANGED <<clientVars, files, torn, made, ca>>
  /\ UNCHANGED <<launchVars, limiterVars, supervisorVars>>

\* The supervisor's serve() has returned or raised.
SupervisorEnds ==
  /\ where = "supervising" /\ ~dead /\ phase["main"] \in {"returned", "raised"} /\ Goto("unwinding")
  /\ outcome' \in {"raised"} \union (IF failed \/ phase["main"] = "raised" THEN {} ELSE {"returned"})
  /\ UNCHANGED <<alive, cleanups, strays>> /\ Elsewhere

\* HTTP/3 alone: its thread may end by itself.
Http3Ends ==
  /\ where = "serving" /\ plan.serves = "http3" /\ "http3" \in alive
  /\ alive' = alive \ {"http3"}
  /\ UNCHANGED <<where, cleanups, outcome, strays>> /\ Elsewhere

Archive(t) ==
  /\ where \in {"serving", "unwinding"} /\ "tcp" \in alive /\ Archives(t)
  /\ UNCHANGED <<launchVars, acmeVars, supervisorVars>>

Top == cleanups[Len(cleanups)]
Pop == cleanups' = SubSeq(cleanups, 1, Len(cleanups) - 1)

Unwinding == where = "unwinding" /\ cleanups # <<>>

\* stop(): the event and the goodbye; then the thread is joined, or the time
\* for it is over, and the socket closed.
Goodbye ==
  /\ Unwinding /\ Top = "mdns" /\ ~responder.stop
  /\ responder' = [responder EXCEPT !.stop = TRUE]
  /\ UNCHANGED <<where, alive, cleanups, outcome, strays>> /\ Apart

\* server_close begins the drain, which closes the limiter.
Unwind ==
  /\ Unwinding /\ Pop /\ (Top = "mdns" => responder.stop)
  /\ alive' = alive \ (IF Top = "tcp" THEN {"tcp", "log"} ELSE {Top})
  /\ IF Top = "tcp" THEN CloseLimiter ELSE UNCHANGED limiterVars
  /\ UNCHANGED <<where, outcome, strays, responder, plan, starts, acmeVars, supervisorVars>>

\* The close of HTTP/3 raises when its thread does not end in time, and leaves
\* it running.
Overdue ==
  /\ Unwinding /\ Pop /\ Top = "http3" /\ "http3" \in alive
  /\ outcome' = "raised" /\ strays' = strays \union {"http3"}
  /\ UNCHANGED <<where, alive>> /\ Elsewhere

End ==
  /\ where = "unwinding" /\ cleanups = <<>> /\ Goto("ended")
  /\ UNCHANGED <<alive, cleanups, outcome, strays>> /\ Elsewhere

\* The process dies, or has ended: the next start finds the files.
Again ==
  /\ where # "down" /\ plan.serves # "workers" /\ starts < Len(Plans)
  /\ Goto("down") /\ alive' = {} /\ cleanups' = <<>> /\ outcome' = "none" /\ strays' = {}
  /\ plan' = NoPlan /\ responder' = NoResponder
  /\ acme' = "idle" /\ left' = {} /\ attempt' = 0 /\ nonce' = "none" /\ kid' = FALSE
  /\ late' = FALSE /\ tokens' = {} /\ httpd' = FALSE
  /\ limiter' = [closed |-> FALSE, active |-> 0, submitted |-> 0, succeeded |-> 0, failures |-> 0]
  /\ lease' = [t \in Archivers |-> "none"]
  /\ UNCHANGED <<starts, files, torn, made, ca, supervisorVars>>

-----------------------------------------------------------------------------
(* The responder's thread: it looks at the stop event, and then it has      *)
(* something to announce, twice unasked and then for each query that        *)
(* matches.  Nothing goes out through a closed socket.                      *)

Responds(step) == responder' = step /\ UNCHANGED <<where, alive, cleanups, outcome, strays>> /\ Apart

Look ==
  /\ responder.thread = "look"
  /\ Responds([responder EXCEPT !.thread = IF responder.stop THEN "over" ELSE "send"])

Announce ==
  /\ responder.thread = "send"
  /\ Responds([responder EXCEPT !.thread = "look",
                                !.late = IF responder.stop /\ "mdns" \in alive THEN @ + 1 ELSE @])

Responder == Look \/ Announce

-----------------------------------------------------------------------------
(* The specification                                                       *)

Certified(A) == where = "acme" /\ A /\ UNCHANGED <<launchVars, limiterVars, supervisorVars>>
Supervised(A) == where # "down" /\ plan.serves = "workers" /\ where # "files" /\ A /\ UNCHANGED <<launchVars, acmeVars, limiterVars>>
Outside == Authority /\ UNCHANGED <<launchVars, limiterVars, supervisorVars>>

LaunchNext ==
  \/ Begin \/ Starts \/ Stopped \/ Interrupted \/ AcmeInterrupted \/ SupervisorEnds \/ Http3Ends
  \/ Goodbye \/ Unwind \/ Overdue \/ End \/ Again \/ Outside \/ Responder
  \/ \E t \in Archivers : Archive(t)
  \/ Certified(Obtain) \/ Certified(Fails) \/ Certified(Lost) \/ Certified(PollLate)
  \/ Supervised(Next)

LaunchSpec == LaunchInit /\ [][LaunchNext]_allVars

\* The main thread runs, what it waits for has a timeout, and a poll has a
\* deadline; the supervisor's fairness is that of Supervisor.
LaunchFairSpec ==
  /\ LaunchSpec
  /\ WF_allVars(Starts) /\ WF_allVars(SupervisorEnds) /\ WF_allVars(Goodbye) /\ WF_allVars(Unwind \/ Overdue) /\ WF_allVars(End)
  /\ WF_allVars(Certified(Obtain \/ Fails)) /\ WF_allVars(Certified(PollLate))
  /\ WF_allVars(Supervised(Serve)) /\ WF_allVars(Supervised(RequestShutdown))
  /\ \A t \in Callers : WF_allVars(Supervised(Shutdown(t)))
  /\ \A w \in Generation \ Stubborn : WF_allVars(Supervised(Worker(w)))
  /\ \A w \in Stubborn : WF_allVars(Supervised(signal[w] # "none" /\ Crash(w)))

-----------------------------------------------------------------------------
(* Properties                                                              *)

(* Whatever fails or is interrupted on the way up, serve() leaves nothing  *)
(* open behind it: no listener, no responder, no private key of a          *)
(* generated certificate.  Left running are HTTP/3 and the responder when  *)
(* the start is cut before the try statement that closes them, and an      *)
(* HTTP/3 thread that does not end in time; nothing else, and only when    *)
(* serve() raises.  A return means that all was stopped (server.py:595-670,*)
(* http3.py:404), and of a supervisor that no worker is left.  What the    *)
(* responder announced is withdrawn before its socket is closed, and at    *)
(* most the answer that was under way comes behind it (_mdns.py:166).      *)
Released ==
  /\ strays \subseteq {"http3", "mdns"}
  /\ where = "ended" => alive \subseteq strays
  /\ where = "ended" /\ outcome = "returned" => alive = {}
  /\ where = "ended" /\ outcome = "returned" /\ plan.serves = "workers" /\ ~dead /\ phase["other"] # "raised"
       => Alive = {} /\ ~listening
  /\ responder.late <= 1
  /\ responder.thread # "none" /\ "mdns" \notin alive => responder.stop
  /\ LeasesExact

(* Every start serves or ends, although the authority may never decide;    *)
(* and what is stopped ends.                                               *)
StartSettles ==
  /\ where \in {"acme", "files"} ~> where \in {"serving", "supervising", "ended", "down"}
  /\ where = "supervising" /\ main = "shutdown" ~> where = "ended" \/ dead \/ Stuck
  /\ where = "unwinding" ~> where \in {"ended", "down"}

(* Starts, stops and shutdowns of all processes end, whoever is silent or  *)
(* stuck (_acme.py:178, server.py:643, _supervisor.py:397, :413).          *)
LaunchSettles == StartSettles /\ ShutdownEnds
=============================================================================
