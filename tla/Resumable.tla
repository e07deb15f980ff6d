------------------------------ MODULE Resumable ------------------------------
(***************************************************************************)
(* PUT uploads, whole and resumable (handler.py, _resumable.py).           *)
(*                                                                         *)
(* A PUT takes the write lock of its target, appends its body to the       *)
(* target's hidden sidecar, and commits a complete sidecar by renaming it  *)
(* over the target.  Between the steps of one request others run; a body   *)
(* may end early, be too slow or meet a full disk; the process may be      *)
(* killed and restarted, and finds the sidecars where they were.           *)
(*                                                                         *)
(* A file is the sequence of the offsets of its bytes in the client's      *)
(* copy: <<0, 1>> is a file of two bytes, <<1>> one whose first is lost.   *)
(* One element stands for one read of the body (at most 64 KiB).  Clients  *)
(* that upload different files to one target are not told apart, as the    *)
(* protocol has no name for an upload.                                     *)
(***************************************************************************)
EXTENDS WriteLocks, Sequences, FiniteSets

CONSTANTS MaxUploadSize,      \* max_upload_size
          MaxPartialUploads,  \* max_partial_uploads; 0 is no bound
          Kinds,              \* which of "whole", "ranged", "query" clients send
          None

ASSUME SizesAssumption == MaxUploadSize \in Nat \ {0} /\ MaxPartialUploads \in Nat
ASSUME KindsAssumption == Kinds \subseteq {"whole", "ranged", "query"}

VARIABLES target,     \* target[t]: the file served under t and the size its upload declared
          part,       \* part[t]: the sidecar's bytes, or None
          known,      \* PartialUploadBudget._known; None before the inventory
          overwrite,  \* allow_overwrite
          at,         \* at[r]: where the handler of r is
          put,        \* put[r]: the request r handles, or None
          written     \* written[r]: bytes it has appended

vars == <<held, target, part, known, overwrite, at, put, written>>

Sizes == 0..MaxUploadSize
Places == {"idle", "locked", "claiming", "opening", "feeding",
           "appended", "committing", "committed", "leaving"}

\* What a PUT asks for: all bytes, those from start on, or none.  A total of
\* None is an unknown one.  A PUT over the size limit by its own account is
\* refused before anything is touched, and is not among these.
Puts == {p \in [kind : Kinds, t : Targets, start : Sizes, len : Sizes, total : Sizes \cup {None}] :
          CASE p.kind = "whole"  -> p.start = 0 /\ p.total = p.len
            [] p.kind = "ranged" -> p.len > 0 /\ (p.total /= None => p.start + p.len <= p.total)
            [] p.kind = "query"  -> p.start = 0 /\ p.len = 0 /\ p.total = MaxUploadSize}

Bodies == UNION {[1..n -> Sizes] : n \in Sizes}

ASSUME NoneIsNoBody == None \notin Bodies

\* Every variable keeps its type: in particular no sidecar grows over the
\* upload size limit, in whatever chunks it comes (handler.py:807).
TypeOK ==
  /\ held \in [Requests -> SUBSET Targets]
  /\ target \in [Targets -> [body : Bodies, total : Sizes] \cup {None}]
  /\ part \in [Targets -> Bodies \cup {None}]
  /\ known \in (SUBSET Targets) \cup {None}
  /\ overwrite \in BOOLEAN
  /\ at \in [Requests -> Places]
  /\ put \in [Requests -> Puts \cup {None}]
  /\ written \in [Requests -> Sizes]

Exists(f) == f /= None

\* stored_bytes: how much the sidecar of t has; 0 if there is none.
Stored(t) == IF Exists(part[t]) THEN Len(part[t]) ELSE 0

Init ==
  /\ HeldByNone
  /\ target = [t \in Targets |-> None]
  /\ part = [t \in Targets |-> None]
  /\ known = None
  /\ overwrite \in BOOLEAN
  /\ at = [r \in Requests |-> "idle"]
  /\ put = [r \in Requests |-> None]
  /\ written = [r \in Requests |-> 0]

GoTo(r, place) == at' = [at EXCEPT ![r] = place]

\* Mutant: the write lock of the target is not asked for.
LockUnchecked(r, p) ==
  /\ at[r] = "idle"
  /\ held' = [held EXCEPT ![r] = @ \cup {p.t}]
  /\ put' = [put EXCEPT ![r] = p]
  /\ GoTo(r, "locked")
  /\ UNCHANGED <<target, part, known, overwrite, written>>

\* The wait for the lock, and its end by a timeout, are TargetLocks'; a PUT
\* that is refused the lock answers 409 and changes nothing.
Lock(r, p) ==
  /\ at[r] = "idle"
  /\ Take(r, p.t)
  /\ put' = [put EXCEPT ![r] = p]
  /\ GoTo(r, "locked")
  /\ UNCHANGED <<target, part, known, overwrite, written>>

-----------------------------------------------------------------------------
(* The budget of sidecars                                                  *)

Released(t) == IF known = None THEN None ELSE known \ {t}

\* The first claim takes the inventory; a full budget is pruned of the
\* sidecars that are not on the disk (any more).
Inventory == IF known = None THEN {t \in Targets : Exists(part[t])} ELSE known
Pruned(K) == IF Cardinality(K) >= MaxPartialUploads THEN {t \in K : Exists(part[t])} ELSE K

Claim(r) ==
  /\ at[r] = "claiming"
  /\ LET t == put[r].t
         K == Inventory
     IN IF MaxPartialUploads = 0 THEN known' = known /\ GoTo(r, "opening")
        ELSE IF t \in K THEN known' = K /\ GoTo(r, "opening")
        ELSE IF Cardinality(Pruned(K)) >= MaxPartialUploads
               THEN known' = Pruned(K) /\ GoTo(r, "leaving")
               ELSE known' = Pruned(K) \cup {t} /\ GoTo(r, "opening")
  /\ UNCHANGED <<held, target, part, overwrite, put, written>>

-----------------------------------------------------------------------------
(* Before the body: _put_ranged and _put_whole                             *)

\* A Content-Range that does not parse.
Malformed(r) ==
  /\ at[r] = "locked"
  /\ put[r].kind /= "whole"
  /\ GoTo(r, "leaving")
  /\ UNCHANGED <<held, target, part, known, overwrite, put, written>>

\* A query is answered, a gap or an overlap refused, and so is a chunk that
\* would take the sidecar over the size limit (or whose Content-Length is not
\* its range's length, with no other effect than a gap has).
Fits(p, stored) == /\ p.kind = "ranged"
                   /\ p.start = stored
                   /\ p.start + p.len <= MaxUploadSize

\* discard_stale: a sidecar older than partial_upload_ttl goes, and its claim.
Inspect(r) ==
  /\ at[r] = "locked"
  /\ put[r].kind /= "whole"
  /\ LET t == put[r].t
     IN \/ /\ GoTo(r, IF Fits(put[r], Stored(t)) THEN "claiming" ELSE "leaving")
           /\ UNCHANGED <<part, known>>
        \/ /\ Exists(part[t])
           /\ part' = [part EXCEPT ![t] = None]
           /\ known' = Released(t)
           /\ GoTo(r, IF Fits(put[r], 0) THEN "claiming" ELSE "leaving")
  /\ UNCHANGED <<held, target, overwrite, put, written>>

\* A plain PUT may not replace a file unless allow_overwrite says so; it
\* starts from no sidecar, and holds no claim on one.
MayReplace(t) == ~Exists(target[t]) \/ overwrite

StartWhole(r) ==
  /\ at[r] = "locked"
  /\ put[r].kind = "whole"
  /\ IF MayReplace(put[r].t)
       THEN /\ part' = [part EXCEPT ![put[r].t] = None]
            /\ known' = Released(put[r].t)
            /\ GoTo(r, "opening")
       ELSE /\ UNCHANGED <<part, known>>
            /\ GoTo(r, "leaving")
  /\ UNCHANGED <<held, target, overwrite, put, written>>

-----------------------------------------------------------------------------
(* The body: append                                                        *)

Open(r) ==
  /\ at[r] = "opening"
  /\ part' = [part EXCEPT ![put[r].t] = IF Exists(@) THEN @ ELSE <<>>]
  /\ GoTo(r, "feeding")
  /\ UNCHANGED <<held, target, known, overwrite, put, written>>

Feed(r) ==
  /\ at[r] = "feeding"
  /\ written[r] < put[r].len
  /\ part' = [part EXCEPT ![put[r].t] = Append(@, put[r].start + written[r])]
  /\ written' = [written EXCEPT ![r] = @ + 1]
  /\ UNCHANGED <<held, target, known, overwrite, at, put>>

\* The body is complete, or the client closed its side before it was.
EndOfBody(r) ==
  /\ at[r] = "feeding"
  /\ GoTo(r, "appended")
  /\ UNCHANGED <<held, target, part, known, overwrite, put, written>>

\* request_body_timeout: a whole upload is thrown away, a ranged one kept.
BodyTimeout(r) ==
  /\ at[r] = "feeding"
  /\ written[r] < put[r].len
  /\ part' = IF put[r].kind = "whole" THEN [part EXCEPT ![put[r].t] = None] ELSE part
  /\ GoTo(r, "leaving")
  /\ UNCHANGED <<held, target, known, overwrite, put, written>>

\* The file cannot be opened or written.  What was written stays.
DiskError(r) ==
  /\ at[r] \in {"opening", "feeding"}
  /\ known' = IF put[r].kind = "ranged" /\ ~Exists(part[put[r].t])
                THEN Released(put[r].t) ELSE known
  /\ GoTo(r, "leaving")
  /\ UNCHANGED <<held, target, part, overwrite, put, written>>

-----------------------------------------------------------------------------
(* After the body                                                          *)

\* write_whole discards a short body; a ranged upload waits for more until
\* the stored bytes reach the total.
Complete(p, n) == IF p.kind = "whole" THEN n = p.len
                  ELSE p.total /= None /\ p.start + n >= p.total

Finish(r) ==
  /\ at[r] = "appended"
  /\ LET done == Complete(put[r], written[r])
     IN /\ part' = IF put[r].kind = "whole" /\ ~done
                     THEN [part EXCEPT ![put[r].t] = None] ELSE part
        /\ GoTo(r, IF done THEN "committing" ELSE "leaving")
  /\ UNCHANGED <<held, target, known, overwrite, put, written>>

\* Mutant: a completed ranged upload replaces what is there.
CommitAlways(r) ==
  /\ at[r] = "committing"
  /\ LET t == put[r].t
     IN /\ target' = [target EXCEPT ![t] = [body |-> part[t], total |-> put[r].total]]
        /\ part' = [part EXCEPT ![t] = None]
  /\ GoTo(r, "committed")
  /\ UNCHANGED <<held, known, overwrite, put, written>>

\* A ranged upload meets the overwrite policy only now, and a completed
\* sidecar that may not replace the target is kept.
Commit(r) ==
  /\ at[r] = "committing"
  /\ put[r].kind = "ranged" => MayReplace(put[r].t)
  /\ LET t == put[r].t
     IN /\ target' = [target EXCEPT ![t] = [body |-> part[t], total |-> put[r].total]]
        /\ part' = [part EXCEPT ![t] = None]
  /\ GoTo(r, "committed")
  /\ UNCHANGED <<held, known, overwrite, put, written>>

CommitRefused(r) ==
  /\ at[r] = "committing"
  /\ put[r].kind = "ranged" /\ ~MayReplace(put[r].t)
  /\ GoTo(r, "leaving")
  /\ UNCHANGED <<held, target, part, known, overwrite, put, written>>

\* os.replace fails: the completed sidecar stays where it is.
CommitFails(r) ==
  /\ at[r] = "committing"
  /\ GoTo(r, "leaving")
  /\ UNCHANGED <<held, target, part, known, overwrite, put, written>>

Release(r) ==
  /\ at[r] = "committed"
  /\ known' = IF put[r].kind = "ranged" THEN Released(put[r].t) ELSE known
  /\ GoTo(r, "leaving")
  /\ UNCHANGED <<held, target, part, overwrite, put, written>>

Leave(r) ==
  /\ at[r] = "leaving"
  /\ GiveBack(r, put[r].t)
  /\ put' = [put EXCEPT ![r] = None]
  /\ written' = [written EXCEPT ![r] = 0]
  /\ GoTo(r, "idle")
  /\ UNCHANGED <<target, part, known, overwrite>>

\* The process is killed and started again, with either overwrite policy.
Restart ==
  /\ held' = [r \in Requests |-> {}]
  /\ known' = None
  /\ overwrite' \in BOOLEAN
  /\ at' = [r \in Requests |-> "idle"]
  /\ put' = [r \in Requests |-> None]
  /\ written' = [r \in Requests |-> 0]
  /\ UNCHANGED <<target, part>>

Handle(r) ==
  \/ Malformed(r) \/ Inspect(r) \/ Claim(r)
  \/ StartWhole(r) \/ Open(r) \/ Feed(r) \/ EndOfBody(r) \/ BodyTimeout(r) \/ DiskError(r)
  \/ Finish(r) \/ Commit(r) \/ CommitRefused(r) \/ CommitFails(r) \/ Release(r) \/ Leave(r)

Next ==
  \/ \E r \in Requests : Handle(r) \/ \E p \in Puts : Lock(r, p)
  \/ Restart

Spec == Init /\ [][Next]_vars

-----------------------------------------------------------------------------
(* Properties                                                              *)

\* "A half-finished upload is never visible at the destination"
\* (_resumable.py:17-19): what is served is every byte of the declared size,
\* each once and in order, however the chunks of several clients, their
\* failures and a crash between any two steps interleave.
WholeBodies ==
  \A t \in Targets : Exists(target[t]) =>
     target[t].body = [i \in 1..target[t].total |-> i - 1]

\* Without allow_overwrite no PUT changes a file that is there: the check
\* and the rename are far apart, and only the target lock joins them
\* (handler.py:837-840, 861-866).
NoOverwrite ==
  [][\A t \in Targets : Exists(target[t]) /\ ~overwrite => target'[t] = target[t]]_vars

\* The offset a ranged PUT reports, from the size it read before the body,
\* is what the sidecar holds when it reports it (handler.py:828-834): the
\* client resumes from there.
ReportExact ==
  \A r \in Requests : at[r] = "appended" =>
     LET t == put[r].t
     IN  Exists(part[t]) /\ Len(part[t]) = put[r].start + written[r]

\* Uploads stay whole from the first octet to the rename, and the client can
\* trust the offset it is told (_resumable.py:193, handler.py:798, :861).
UploadsWhole == TypeOK /\ WholeBodies /\ ReportExact

=============================================================================
