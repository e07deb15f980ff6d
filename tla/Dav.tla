--------------------------------- MODULE Dav ---------------------------------
(***************************************************************************)
(* WebDAV writes and locks (_webdav.py), with dav_lock_mode "enforced".    *)
(*                                                                         *)
(* A write is checked against the tree and against the DAV locks, takes    *)
(* the write lock of its targets (WriteLocks), checks again what depends   *)
(* on the target, and works on the tree in several system calls.  A DAV    *)
(* lock covers a path and all below it.  The two kinds of lock know        *)
(* nothing of each other, and a write lock covers exactly its own path.    *)
(*                                                                         *)
(* Most system calls find a path anew.  rmtree does not: it works through  *)
(* the descriptors of the directories it has open, and they go where a     *)
(* MOVE of another request takes them.                                     *)
(*                                                                         *)
(* A path is the sequence of its names.  Requests that change nothing are  *)
(* left out: reads, PROPPATCH, refusals, and the refresh of a lock, which  *)
(* only defers its expiry, and that may come at any time.                  *)
(***************************************************************************)
EXTENDS WriteLocks, SequencesExt, FiniteSets

CONSTANTS MaxTokens,        \* bound: how many locks are ever granted
          AllowOverwrite,   \* allow_overwrite
          Asked             \* bound: what the clients ask for

Ops == {"lock", "put", "mkcol", "delete", "copy", "move"}

\* What a client can ask for; of a request on one path, dst is that path too.
Operations ==
  {q \in [op : Ops, src : Targets, dst : Targets, overwrite : BOOLEAN] :
     IF q.op \in {"copy", "move"} THEN q.src /= q.dst ELSE q.src = q.dst /\ q.overwrite}

ASSUME TargetsArePaths ==
  \A p \in Targets : p \in Seq(STRING) /\ (Len(p) = 1 \/ (Len(p) > 1 /\ Front(p) \in Targets))
ASSUME TokensAssumption == MaxTokens \in Nat
ASSUME OverwriteAssumption == AllowOverwrite \in BOOLEAN
ASSUME AskedAssumption == Asked \subseteq Operations

VARIABLES tree,     \* tree[p]: what is at p
          lock,     \* lock[k]: the path that token k locks, or NoPath
          issued,   \* the tokens 1..issued have been granted
          at,       \* at[r]: where the handler of r is
          req,      \* req[r]: the request it handles
          temp,     \* temp[r]: the collection its temporary file is in, if any
          todo,     \* todo[r]: the entries its copy has listed and not copied
          intact,   \* intact[r]: its copy has left nothing out
          opened,   \* opened[r]: the directories its rmtree has open, outermost
                    \* first: where each is now, and the name it was found under
          foreign   \* foreign[r]: the locks that were live when r passed its lock
                    \* check and whose tokens it does not have (history)

clients == <<at, req, temp, todo, intact, opened, foreign>>
vars == <<held, tree, lock, issued, clients>>

Tokens == 1..MaxTokens
\* The path of nothing: of a token that locks none, of a directory that is
\* open and has been removed.  It is also the parent of the names at the top.
NoPath == <<>>

\* A file is complete, or cut short, or r is writing it in place.
Absent == [kind |-> "absent"]
Collection == [kind |-> "collection"]
Whole == [kind |-> "whole"]
Short == [kind |-> "short"]
Filling(r) == [kind |-> "filling", by |-> r]
Nodes == {Absent, Collection, Whole, Short} \cup {Filling(r) : r \in Requests}

None == [op |-> "none"]
\* told: the last request was answered with success; otherwise as idle.
Resting == {"idle", "told"}
Places == Resting \cup {"locking", "checked", "feeding", "clearing", "moving",
                        "copying", "filling", "uprooting"}

Exists(p) == tree[p] /= Absent
IsFile(p) == tree[p] \notin {Absent, Collection}
IsDir(p) == p /= NoPath => tree[p] = Collection
Parent(p) == Front(p)

\* Covers is the code's _covers: q is p or below it.
Covers(p, q) == IsPrefix(p, q)
Related(p, q) == Covers(p, q) \/ Covers(q, p)

Init ==
  /\ HeldByNone
  /\ tree \in [Targets -> {Absent, Collection, Whole}]
  /\ \A p \in Targets : Exists(p) => IsDir(Parent(p))
  /\ lock = [k \in Tokens |-> NoPath]
  /\ issued = 0
  /\ at = [r \in Requests |-> "idle"]
  /\ req = [r \in Requests |-> None]
  /\ temp = [r \in Requests |-> {}]
  /\ todo = [r \in Requests |-> {}]
  /\ intact = [r \in Requests |-> TRUE]
  /\ opened = [r \in Requests |-> <<>>]
  /\ foreign = [r \in Requests |-> {}]

GoTo(r, place) == at' = [at EXCEPT ![r] = place]

-----------------------------------------------------------------------------
(* DAV locks                                                               *)

Live(k) == lock[k] /= NoPath

\* LOCK looks for the resource, reads its body, and asks the manager.
\* (bound: of no more than MaxTokens tokens.)
LockStart(r, q) ==
  /\ at[r] \in Resting
  /\ q.op = "lock"
  /\ Exists(q.src)
  /\ req' = [req EXCEPT ![r] = q]
  /\ GoTo(r, "locking")
  /\ UNCHANGED <<held, tree, lock, issued, temp, todo, intact, opened, foreign>>

Conflict(p) == \E k \in Tokens : Live(k) /\ Related(lock[k], p)

Acquire(r) ==
  /\ at[r] = "locking"
  /\ IF Conflict(req[r].src) \/ issued = MaxTokens
       THEN GoTo(r, "idle") /\ UNCHANGED <<lock, issued>>
       ELSE /\ issued' = issued + 1
            /\ lock' = [lock EXCEPT ![issued'] = req[r].src]
            /\ GoTo(r, "told")
  /\ req' = [req EXCEPT ![r] = None]
  /\ UNCHANGED <<held, tree, temp, todo, intact, opened, foreign>>

\* An UNLOCK with the token and the path it locks; or the lock runs out, for
\* every use of the manager purges those that have.
Release(k) ==
  /\ Live(k)
  /\ lock' = [lock EXCEPT ![k] = NoPath]
  /\ UNCHANGED <<held, tree, issued, clients>>

-----------------------------------------------------------------------------
(* A write, up to its targets' locks                                       *)

\* Mutant: a MOVE is checked at its destination only.
LockPathsOfCopy(q) == {q.dst}

\* COPY leaves its source alone.
LockPaths(q) == IF q.op = "copy" THEN {q.dst} ELSE {q.src, q.dst}

\* authorized: every lock at, above or below a path asks for its token.
Authorized(q, tokens) ==
  \A k \in Tokens : Live(k) /\ (\E p \in LockPaths(q) : Related(lock[k], p)) => k \in tokens

\* What a handler asks of the tree, before the DAV locks.
Plausible(q) ==
  CASE q.op = "put" -> tree[q.dst] /= Collection /\ IsDir(Parent(q.dst))
    [] q.op = "mkcol" -> ~Exists(q.dst) /\ IsDir(Parent(q.dst))
    [] q.op = "delete" -> Exists(q.src)
    [] OTHER -> Exists(q.src) /\ (q.overwrite \/ ~Exists(q.dst)) /\ IsDir(Parent(q.dst))

\* The tokens are those of the If and Lock-Token headers: any that are live,
\* for PROPFIND tells them to everyone, and others have no effect.
Check(r, q) ==
  /\ at[r] \in Resting
  /\ q.op /= "lock"
  /\ Plausible(q)
  /\ \E tokens \in SUBSET {k \in Tokens : Live(k)} :
       /\ Authorized(q, tokens)
       /\ foreign' = [foreign EXCEPT ![r] = {k \in Tokens : Live(k)} \ tokens]
  /\ req' = [req EXCEPT ![r] = q]
  /\ GoTo(r, "checked")
  /\ UNCHANGED <<held, tree, lock, issued, temp, todo, intact, opened>>

\* hold and hold_many, whose waits, order and timeouts are TargetLocks'.  To
\* take the locks is one step with the first thing done under them, and to
\* give them back with the last.
Hold(r) ==
  /\ at[r] = "checked"
  /\ \A p \in {req[r].src, req[r].dst} : Free(p)
  /\ held' = [held EXCEPT ![r] = {req[r].src, req[r].dst}]

\* The handler returns; answered: with a success.
Done(r, answered) ==
  /\ held' = [held EXCEPT ![r] = {}]
  /\ req' = [req EXCEPT ![r] = None]
  /\ todo' = [todo EXCEPT ![r] = {}]
  /\ intact' = [intact EXCEPT ![r] = TRUE]
  /\ foreign' = [foreign EXCEPT ![r] = {}]
  /\ GoTo(r, IF answered THEN "told" ELSE "idle")

\* The locks are not had in time, or the second look at the target under them
\* ends the request, or an error does.
Refused(r) ==
  /\ at[r] = "checked"
  /\ Done(r, FALSE)
  /\ UNCHANGED <<tree, lock, issued, temp, opened>>

-----------------------------------------------------------------------------
(* PUT and MKCOL                                                           *)

\* The overwrite policy is checked under the write lock; the temporary file is
\* made in the parent, if that is still there.
PutOpen(r) ==
  /\ Hold(r)
  /\ req[r].op = "put"
  /\ Exists(req[r].dst) => AllowOverwrite
  /\ IsDir(Parent(req[r].dst))
  /\ temp' = [temp EXCEPT ![r] = {Parent(req[r].dst)}]
  /\ GoTo(r, "feeding")
  /\ UNCHANGED <<tree, lock, issued, req, todo, intact, opened, foreign>>

\* Mutant: what is left of the body is not looked at.
AnswerAlways(file) == TRUE

\* The length is compared after the rename.
Answer(file) == file = Whole

\* The body ends, complete or because the client closed its side; what there
\* is of it replaces the target, unless that has become a collection, or the
\* temporary file is no longer where its name says.
PutReplace(r) ==
  /\ at[r] = "feeding"
  /\ Parent(req[r].dst) \in temp[r] /\ tree[req[r].dst] /= Collection
  /\ \E file \in {Whole, Short} :
       tree' = [tree EXCEPT ![req[r].dst] = file] /\ Done(r, Answer(file))
  /\ temp' = [temp EXCEPT ![r] = {}]
  /\ UNCHANGED <<lock, issued, opened>>

\* A slow body, a full disk or a failed replace.  A temporary file that was
\* carried away is left there, which nothing below tells from its absence.
PutAbort(r) ==
  /\ at[r] = "feeding"
  /\ temp' = [temp EXCEPT ![r] = {}]
  /\ Done(r, FALSE)
  /\ UNCHANGED <<tree, lock, issued, opened>>

Mkcol(r) ==
  /\ at[r] = "checked" /\ Free(req[r].dst)
  /\ req[r].op = "mkcol"
  /\ ~Exists(req[r].dst) /\ IsDir(Parent(req[r].dst))
  /\ tree' = [tree EXCEPT ![req[r].dst] = Collection]
  /\ Done(r, TRUE)
  /\ UNCHANGED <<lock, issued, temp, opened>>

-----------------------------------------------------------------------------
(* DELETE, COPY and MOVE: what is at dst is removed first                  *)

Begin(r) ==
  /\ Hold(r)
  /\ req[r].op \in {"delete", "copy", "move"}
  /\ IF Exists(req[r].dst) THEN req[r].overwrite ELSE req[r].op /= "delete"
  /\ GoTo(r, CASE Exists(req[r].dst) -> "clearing"
               [] req[r].op = "move" -> "moving"
               [] OTHER -> "copying")
  /\ todo' = [todo EXCEPT ![r] = IF req[r].op = "copy" THEN {req[r].src} ELSE {}]
  /\ UNCHANGED <<tree, lock, issued, req, temp, intact, opened, foreign>>

\* A removal is under way: of what was at dst, or of the source of a MOVE that
\* had to copy it.
Removing(r) == at[r] \in {"clearing", "uprooting"}
Base(r) == IF at[r] = "uprooting" THEN req[r].src ELSE req[r].dst

\* The removal is over.
Removed(r) ==
  IF at[r] = "clearing" /\ req[r].op \in {"copy", "move"}
    THEN /\ GoTo(r, IF req[r].op = "move" THEN "moving" ELSE "copying")
         /\ UNCHANGED <<held, req, todo, intact, foreign>>
    ELSE Done(r, TRUE)

\* os.remove, of a file.
RemoveFile(r) ==
  /\ Removing(r) /\ opened[r] = <<>>
  /\ IsFile(Base(r))
  /\ tree' = [tree EXCEPT ![Base(r)] = Absent]
  /\ Removed(r)
  /\ UNCHANGED <<lock, issued, temp, opened>>

Entry(p) == [dir |-> p, name |-> Last(p)]

\* rmtree opens its directory by its path.
OpenTop(r) ==
  /\ Removing(r) /\ opened[r] = <<>>
  /\ tree[Base(r)] = Collection
  /\ opened' = [opened EXCEPT ![r] = <<Entry(Base(r))>>]
  /\ UNCHANGED <<held, tree, lock, issued, at, req, temp, todo, intact, foreign>>

\* The directory that r has opened last is at d by now.
InLast(r, d) ==
  /\ Removing(r) /\ d /= NoPath
  /\ \E i \in DOMAIN opened[r] : i = Len(opened[r]) /\ opened[r][i].dir = d

\* A file of that directory goes, or the temporary file of a PUT.  (What is
\* removed is taken from what is there now, not from the listing made when the
\* directory was opened: what came later may stay, and rmdir then fails.)
Unlink(r) ==
  /\ \/ \E p \in Targets :
          /\ InLast(r, Parent(p)) /\ IsFile(p)
          /\ tree' = [tree EXCEPT ![p] = Absent] /\ UNCHANGED temp
     \/ \E s \in Requests :
          /\ \E d \in temp[s] : InLast(r, d)
          /\ temp' = [temp EXCEPT ![s] = {}] /\ UNCHANGED tree
  /\ UNCHANGED <<held, lock, issued, at, req, todo, intact, opened, foreign>>

Descend(r) ==
  /\ \E p \in Targets :
       /\ InLast(r, Parent(p)) /\ tree[p] = Collection
       /\ opened' = [opened EXCEPT ![r] = Append(@, Entry(p))]
  /\ UNCHANGED <<held, tree, lock, issued, at, req, temp, todo, intact, foreign>>

Emptied(p) ==
  /\ \A c \in Targets : Parent(c) = p => ~Exists(c)
  /\ \A s \in Requests : p \notin temp[s]

\* The descriptors that were open on directories follow them: f takes where a
\* directory was to where it is.
Carried(stack, f(_)) == [i \in DOMAIN stack |-> [stack[i] EXCEPT !.dir = f(@)]]

\* rmdir, of p.
Rmdir(r, p, stack) ==
  LET gone(d) == IF d = p THEN NoPath ELSE d
  IN /\ tree[p] = Collection /\ Emptied(p)
     /\ tree' = [tree EXCEPT ![p] = Absent]
     /\ opened' = [s \in Requests |-> Carried(IF s = r THEN stack ELSE opened[s], gone)]

\* A directory inside is closed, and removed by its name in the one it was
\* found in, wherever that is by now; nobody minds if it is not there.
Ascend(r) ==
  /\ Removing(r)
  /\ \E i \in DOMAIN opened[r] :
       LET entry == {p \in Targets : /\ Parent(p) = opened[r][i].dir /\ Parent(p) /= NoPath
                                     /\ Last(p) = Last(opened[r]).name}
       IN /\ i + 1 = Len(opened[r])
          /\ \/ \E p \in entry : Rmdir(r, p, Front(opened[r]))
             \/ /\ \A p \in entry : ~Exists(p)
                /\ opened' = [opened EXCEPT ![r] = Front(@)]
                /\ UNCHANGED tree
  /\ UNCHANGED <<held, lock, issued, at, req, temp, todo, intact, foreign>>

\* The outermost is removed by its path.
RemoveTop(r) ==
  /\ Removing(r) /\ Len(opened[r]) = 1
  /\ Rmdir(r, Base(r), <<>>)
  /\ Removed(r)
  /\ UNCHANGED <<lock, issued, temp>>

\* What r is writing in place is left, complete or not.
Settled(r, file) == [p \in Targets |-> IF tree[p] = Filling(r) THEN file ELSE tree[p]]

\* An error ends a removal or a transfer: any system call can fail, and those
\* that the tree has no place for do.
Stop(r) ==
  /\ at[r] \in {"clearing", "moving", "copying", "filling", "uprooting"}
  /\ tree' = Settled(r, Short)
  /\ opened' = [opened EXCEPT ![r] = <<>>]
  /\ Done(r, FALSE)
  /\ UNCHANGED <<lock, issued, temp>>

-----------------------------------------------------------------------------
(* shutil.move, copytree and copy2                                         *)

\* Where a transfer takes a path at or below its source.
Image(q, p) == q.dst \o SubSeq(p, Len(q.src) + 1, Len(p))

\* What goes to a path p goes into the collection that has come to be there.
Into(p, source) == IF tree[p] = Collection THEN Append(p, Last(source)) ELSE p

\* The requests that shutil.move can make of r's: to dst, or into a collection
\* that another request has made of it, if that has no such name.
\* (bound: the name is one of Targets.)
Aims(r) ==
  {q \in {[req[r] EXCEPT !.dst = d] : d \in {req[r].dst, Into(req[r].dst, req[r].src)}} :
     /\ q.dst \in Targets /\ q.dst /= q.src
     /\ q.dst /= req[r].dst => ~Exists(q.dst)}

\* os.rename.  A file replaces a file, a collection an empty one.
\* (bound: what is moved fits into Targets.)
Rename(r) ==
  /\ at[r] = "moving"
  /\ \E q \in Aims(r) :
       LET moved == {p \in Targets : Covers(q.src, p)}
           from(p) == CHOOSE o \in moved : Image(q, o) = p
           image == {Image(q, p) : p \in moved}
           whither(d) == IF d \in moved THEN Image(q, d) ELSE IF d = q.dst THEN NoPath ELSE d
       IN /\ Exists(q.src) /\ IsDir(Parent(q.dst)) /\ ~Covers(q.src, q.dst)
          /\ Exists(q.dst) => IF IsFile(q.src) THEN IsFile(q.dst)
                              ELSE tree[q.dst] = Collection /\ Emptied(q.dst)
          /\ \A p \in moved : Exists(p) => Image(q, p) \in Targets
          /\ tree' = [p \in Targets |-> IF p \in image THEN tree[from(p)]
                                        ELSE IF p \in moved THEN Absent ELSE tree[p]]
          /\ temp' = [s \in Requests |-> {whither(d) : d \in temp[s]}]
          /\ opened' = [s \in Requests |-> Carried(opened[s], whither)]
  /\ Done(r, TRUE)
  /\ UNCHANGED <<lock, issued>>

\* The rename has failed, for whatever reason: the source is copied, and
\* removed after that.  A collection does not go into itself.
Across(r) ==
  /\ at[r] = "moving"
  /\ Exists(req[r].src)
  /\ \E q \in Aims(r) : ~Covers(q.src, q.dst) /\ req' = [req EXCEPT ![r] = q]
  /\ todo' = [todo EXCEPT ![r] = {req[r].src}]
  /\ GoTo(r, "copying")
  /\ UNCHANGED <<held, tree, lock, issued, temp, intact, opened, foreign>>

\* makedirs of copytree: a collection above the image of an entry is made
\* again if it has gone.
MakeParent(r) ==
  /\ at[r] = "copying"
  /\ \E p \in todo[r], a \in Targets :
       /\ tree[p] = Collection
       /\ Covers(a, Image(req[r], p)) /\ a /= Image(req[r], p)
       /\ ~Exists(a) /\ IsDir(Parent(a))
       /\ tree' = [tree EXCEPT ![a] = Collection]
  /\ UNCHANGED <<held, lock, issued, clients>>

\* copytree lists a collection and makes its image.
CopyCollection(r) ==
  /\ at[r] = "copying"
  /\ \E p \in todo[r] :
       LET i == Image(req[r], p)
       IN /\ tree[p] = Collection
          /\ i \in Targets /\ IsDir(Parent(i)) /\ ~Exists(i)
          /\ tree' = [tree EXCEPT ![i] = Collection]
          /\ todo' = [todo EXCEPT ![r] =
                        (@ \ {p}) \cup {c \in Targets : Parent(c) = p /\ Exists(c)}]
  /\ UNCHANGED <<held, lock, issued, at, req, temp, intact, opened, foreign>>

\* copy2 opens the destination and truncates it.
\* (bound: what is copied fits into Targets, or is left out.)
CopyFile(r) ==
  /\ at[r] = "copying"
  /\ \E p \in todo[r], i \in Targets :
       /\ IsFile(p)
       /\ Image(req[r], p) \in Targets /\ i = Into(Image(req[r], p), p)
       /\ i /= p /\ IsDir(Parent(i)) /\ tree[i] /= Collection
       /\ tree' = [tree EXCEPT ![i] = Filling(r)]
       /\ todo' = [todo EXCEPT ![r] = @ \ {p}]
  /\ GoTo(r, "filling")
  /\ UNCHANGED <<held, lock, issued, req, temp, intact, opened, foreign>>

\* copytree goes on after an entry that fails, and fails at its end.
LeaveOut(r) ==
  /\ at[r] = "copying"
  /\ \E p \in todo[r] : todo' = [todo EXCEPT ![r] = @ \ {p}]
  /\ intact' = [intact EXCEPT ![r] = FALSE]
  /\ UNCHANGED <<held, tree, lock, issued, at, req, temp, opened, foreign>>

\* The file is written, wherever it has been moved to in the meantime: in
\* full; or not, for its source was cut short or another copy wrote to it too;
\* or an error has left a part of it.
Fill(r) ==
  /\ at[r] = "filling"
  /\ \E file \in {Whole, Short} : tree' = Settled(r, file)
  /\ \E fine \in {intact[r], FALSE} : intact' = [intact EXCEPT ![r] = fine]
  /\ GoTo(r, "copying")
  /\ UNCHANGED <<held, lock, issued, req, temp, todo, opened, foreign>>

\* The last copystat finds both ends; a MOVE goes on to its source.
Finish(r) ==
  /\ at[r] = "copying"
  /\ todo[r] = {} /\ intact[r]
  /\ Exists(req[r].src) /\ Exists(req[r].dst)
  /\ IF req[r].op = "move"
       THEN GoTo(r, "uprooting") /\ UNCHANGED <<held, req, todo, intact, foreign>>
       ELSE Done(r, TRUE)
  /\ UNCHANGED <<tree, lock, issued, temp, opened>>

-----------------------------------------------------------------------------

Handle(r) ==
  \/ Acquire(r) \/ Refused(r)
  \/ PutOpen(r) \/ PutReplace(r) \/ PutAbort(r) \/ Mkcol(r)
  \/ Begin(r) \/ Stop(r)
  \/ RemoveFile(r) \/ OpenTop(r) \/ Unlink(r) \/ Descend(r) \/ Ascend(r) \/ RemoveTop(r)
  \/ Rename(r) \/ Across(r)
  \/ MakeParent(r) \/ CopyCollection(r) \/ CopyFile(r) \/ LeaveOut(r) \/ Fill(r) \/ Finish(r)

Next ==
  \/ \E r \in Requests : Handle(r) \/ \E q \in Asked : LockStart(r, q) \/ Check(r, q)
  \/ \E k \in Tokens : Release(k)

Spec == Init /\ [][Next]_vars

-----------------------------------------------------------------------------
(* Properties                                                              *)

\* "Real exclusive, depth-infinity locks" (docs/guide/webdav.md): of two
\* live locks neither covers the other, in whatever order parents and members
\* are locked, unlocked and expire (_webdav.py:73-86).
LocksDisjoint ==
  \A j, k \in Tokens : Live(j) /\ Live(k) /\ j /= k => ~Related(lock[j], lock[k])

\* A node changes, other than by the end of a copy that is writing it.
Changed(p) == tree'[p] /= tree[p] /\ tree[p].kind /= "filling"

\* A lock guards what it covers, and what its path is in while that is there.
Guards(k, p) == Covers(lock[k], p) \/ (Covers(p, lock[k]) /\ Exists(p))

\* p is in a directory that r has open, and that another request has carried
\* out of what r was checked for.  (rmtree goes on there: README, section 8.)
Astray(r, p) ==
  \E i \in DOMAIN opened[r] :
     /\ opened[r][i].dir = Parent(p)
     /\ \A b \in LockPaths(req[r]) : ~Covers(b, Parent(p))

\* A change that a foreign lock forbids to r.
Trespass(r) ==
  \E k \in foreign[r] : Live(k) /\ \E p \in Targets : Changed(p) /\ Guards(k, p) /\ ~Astray(r, p)

\* A lock that was there when a write was checked protects all it guards from
\* every system call of that write, unless the client has the token: a member
\* from the removal, the move and the copy of its parent, and a parent from
\* changes to its members (_webdav.py:117-130); but for the contents of a
\* directory that is moved away while it is being removed.
WritesAuthorized ==
  [][\A r \in Requests : Trespass(r) => ~Handle(r)]_vars

\* A DAV lock holds: it is granted to one client at a time, whatever tree of
\* paths it covers, and every call of a write that saw it spares what it guards
\* (_webdav.py:73-130, :195).
LocksHold == []LocksDisjoint /\ WritesAuthorized

\* What a success says of q, when it is sent.
Fulfilled(r, q) ==
  CASE q.op = "lock" -> \E k \in Tokens : lock'[k] = q.src
    [] q.op = "put" -> tree'[q.dst] = Whole
    [] q.op = "mkcol" -> tree'[q.dst] = Collection
    [] q.op = "delete" -> tree'[q.dst] = Absent
    [] q.op = "copy" -> tree'[q.src] /= Absent /\ tree'[q.dst] /= Absent /\ todo[r] = {} /\ intact[r]
    [] q.op = "move" -> IF at[r] = "moving" THEN tree'[q.dst] /= Absent ELSE tree'[q.src] = Absent

\* A success is true as the write lock is given back, whatever other requests
\* have done to the tree between the system calls: a PUT that answers it has
\* put all of its body there, though its parent was moved, removed and made
\* again around its temporary file, and though a body that is cut short
\* replaces the target as well (_webdav.py:545-567); and no COPY or MOVE that
\* has left an entry out answers it, or goes on to remove its source.
AnswersTrue ==
  [][\A r \in Requests :
       /\ at[r] \notin Resting /\ at'[r] = "told" => Fulfilled(r, req[r])
       /\ at[r] = "copying" /\ at'[r] = "uprooting" =>
            Exists(req[r].src) /\ Exists(req[r].dst) /\ todo[r] = {} /\ intact[r]]_vars

=============================================================================
