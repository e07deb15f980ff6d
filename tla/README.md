# Formal models of servery

servery is an HTTP server in pure Python (`src/src/servery`, 55 files, about 19 600
lines): static files, uploads, WebDAV, WSGI and ASGI applications, HTTP/1, HTTP/2,
WebSocket, TFTP and, over aioquic, HTTP/3. This directory holds TLA+ models of its
protocol engines, its concurrent machinery and the functions they rest on, the TLC
configurations that check them, and proofs that TLAPS checks.
All paths below are relative to `src/src/servery` unless they start with `src/`.

Contents: 1 inventory, 2 plan, 3 modules, 4 runs, 5 bounds, 6 fairness, 7 proofs,
8 where the code and its documentation disagree, 9 what is not modelled.

## 1. Inventory

### Shared machinery of the process

* **Compute admission** (`_work.py`). State: a semaphore of `workers +
  queue_capacity` permits, a byte budget, the set of tracked Futures, a closed flag and
  counters. Operations: `submit_weighted`, `run_async` (with cancellation and disposal of late
  results), `close`. The server itself uses the module's simplest part, a
  `BoundedWorkLimiter` around archive downloads; the pools and the scheduler are the library that
  the design notes and tests specify (`src/docs/design/performance-experiments/2026-07-11-bounded-work-scheduler.md`). Hard: a Future's callback runs on whichever thread resolves it, a
  coroutine is cancelled at any stage of its call, `close` races submission, and
  `ThreadPoolExecutor.submit` may raise after it queued the call. Correct when permits
  and bytes are conserved, work that runs stays budgeted, a late result has exactly one owner, and
  `close` returns.
* **Connection admission and drain** (`server.py`, loop of `handler.py`). State: two
  semaphores, sets of permits, active sockets and drain hooks, the drain event and its deadline.
  Operations: accept, hand over to a pool or a thread, keep-alive loop, hook registration,
  `shutdown`, `server_close`. Hard: every one of these may run between two steps of
  another. Correct when permits are conserved, admitted work keeps its socket until the deadline,
  hooks run once, and shutting down closes every socket and returns.
* **Access log** (`_accesslog.py`). State: a bounded queue with a byte
  budget, a writer with a batch in its hands, counters, failed and closing flags. Operations:
  `record` (drop or block), the batching writer, `close`. Correct when the load is exact, every record is accounted
  for, the file is in order, and blocked threads return.
* **Supervisor** (`_supervisor.py`, `_listener.py`). State: worker processes with control
  and status pipes, prepare and commit sets, the lifecycle lock, the shutdown event.
  Operations: `start`, `wait`, `shutdown`, SIGTERM, escalation. Hard: processes die anywhere,
  shutdown comes from another thread or a signal handler. Correct when nobody serves
  before the whole generation is prepared and nothing outlives a shutdown or the supervisor.

### Writing to the served tree

* **Write coordination** (`_writecoord.py`). State: a registry of reference-counted lock
  entries keyed by canonical path. Operations: `hold`, `hold_many`. Users: PUT, multipart uploads and
  extraction, WebDAV, TFTP. Correct when it behaves as one exclusive lock per target, leaks no entry and cannot
  deadlock.
* **Resumable PUT** (`_resumable.py`, `handler.py` 739-897). State: target files, hidden sidecars, the budget of
  sidecars. Hard: chunks of several clients, bodies that end early, stall or meet a
  full disk, restarts. Correct when only whole files are served, the overwrite policy holds, and
  reported offsets are those stored.
* **Multipart uploads and extraction** (`upload.py`, `_extract.py`). A stream that looks for the
  boundary in chunks; parts stored one after the other, each under its target's lock and by a rename;
  optional extraction with caps. Correct when a part ends at its boundary wherever the chunks are cut, caps
  hold, and files that may not be touched are not.
* **WebDAV** (`_webdav.py`). State: tokens with expiry per path, `DavLockManager`. Operations:
  LOCK, UNLOCK, refresh, PUT, MKCOL, DELETE, COPY, MOVE. Hard: the lock check, the target lock and the
  file operation are separate steps. Correct when a write a lock forbids does not happen and
  a failed write leaves the target alone.
* **TFTP** (`_tftp.py`). State: transfer slots, one block in flight per transfer, 16-bit block
  numbers. Hard: loss, duplication, retries. Correct when a committed file is the client's file and
  slots come back.

### Protocol engines

* **HTTP/1** (`handler.py`, `_http1.py`, `_request.py`, `_body.py`). State of a connection: what is
  buffered, what is left of the body, close flags, the number of requests. Three readers of heads, a
  reader of bodies under a deadline, three keep-alive loops, and a dozen handlers that read,
  leave or drain a body. Hard: what a handler leaves unread, a failure behind the head, a drain at any
  moment, silence at any octet. Correct when requests and responses stay in step, nothing follows
  a response that announced the end, and the thread ends.
* **HTTP/2** (`http2/connection.py`, `frames.py`, `hpack.py`). State: streams, two levels of
  windows, a header block under assembly, a dynamic table, drain state. Correct when the connection sends exactly what
  was granted, forgets nothing of a stream that is over, keeps the promise of its GOAWAY, reads
  headers as they were sent, and a drained connection ends.
* **ASGI** (`asgi.py`, `_websocket.py`). State: one exchange per connection, response state
  machine, disconnect observer, lifespan, drain. Coroutines that interleave at awaits. Correct when
  a client reads exactly what is announced, listeners hear of the end, and the drain comes between
  the calls and the shutdown of the lifespan.
* **HTTP/3** (`http3.py`): admission, the requests of a connection, a task and a thread for each reply over aioquic,
  and a listener in a thread of its own.
* **WSGI, CGI, proxy** (`wsgi.py`, `cgi.py`, `_proxy.py`): sequential adapters of one request, handlers of
  the HTTP/1 loop.

### Starting and stopping

* **Launch** (`server.py`, `serve` and `_serve_prepared`): certificates, listeners and services in one order,
  `finally` clauses in the opposite one. Hard: failures and Ctrl-C at every step. Correct when nothing stays
  open and every start serves or ends.
* **Certificates and ACME** (`_acme.py`, `_certgen.py`, `_tls.py`): nonces, orders, challenges, polls, and files written
  one after the other. Correct when a chain is never used with a key of another age unless a crash tore
  them, and a challenge is answered as long as the authority may ask.
* **Discovery** (`_mdns.py`, `_netinfo.py`): a responder that is started and stopped with the rest.

### Caches and pure functions

* **Digest and compression caches** (`_digest.py`, `_compress.py`): LRU caches with
  single-flight computation. Correct when one factory runs per key, bounds hold and errors are handed over.
* **Static files, ranges, conditionals** (`_static.py`, `ranges.py`, `_conditional.py`, `_response.py`): one file, one
  request, one of several responses. Correct when a resumed download or a revalidated cache never mixes versions.
* **Containment, credentials, archives, listings** (`security.py`, `auth.py`, `archive.py`, `listing.py`).
* **Previews, metadata, QR, Markdown, highlighting**: formatting of one file.
* **Configuration, command line**: work done before the server starts.

How they interact: the accepting thread of `server.py` hands connections to `handler.py`,
which dispatches to every write surface; those share one `TargetLocks` and one
`PartialUploadBudget`. HTTP/2 connections register a drain hook with the server. The threads of HTTP/1, HTTP/2
and HTTP/3 share the caches. All surfaces log through
one access log. With several workers, each runs a whole server under the supervisor.

## 2. Plan

Order, most important first. A tick marks what exists.

1. [x] `Admission`, `WorkPool`, `WorkPoolProofs`: the executor and its abstract specification.
2. [x] `ServerDrain`: connections and graceful drain.
3. [x] `AccessLog`.
4. [x] `WriteLocks`, `TargetLocks`, `TargetLocksProofs`: the lock registry and what it
   promises; `Resumable`, `ResumableProofs`, `Dav`, `DavProofs`, `Tftp`, which extend `WriteLocks` and so rest on that promise.
5. [x] `Hpack`, `Frames`, `H2`: an HTTP/2 connection against a client that sends any frame.
6. [x] `AsgiResponse`, `WebSocket`, composed in `Asgi`.
7. [x] `RequestHead`, `Http1`; beside them `HeadReader`, `BodyReader`, `StaticFile`, `Access`, `Listing`.
8. [x] `FlightCache`, extended by `Http3`.
9. [x] `Supervisor`, `Acme`, composed in `Launch`.
10. [x] Proofs of what the runs check, for every value of the constants: the pool and its counters (`WorkPoolProofs`), rings of
    waiters and the access log (`TargetLocksProofs`), uploads and TFTP transfers (`ResumableProofs`), the two drains and the wire of
    ASGI (`ServerDrainProofs`), streams, windows and promises (`H2Proofs`), supervisor, certificates, leases and listeners
    (`LaunchProofs`), requests and responses in step, the cache, the replies of HTTP/3 and the answers for a file
    (`Http1Proofs`), DAV locks and the truth of answers (`DavProofs`).

What is left to TLC alone, and why, is at the end of section 7.

## 3. Modules

| Module | Models | Correspondence |
| --- | --- | --- |
| `Admission` | what a bounded non-blocking admission point promises | abstract: `Admit`, `Refuse` only when full, `Return` once |
| `WorkPool` | `BoundedWorkPool` (`_work.py`) | per call: the submitter (`pc`), the Future, its callback and its coroutine; a step per locked section or semaphore operation; the executor's queue and threads are external |
| `ServerDrain` | `ServeryHTTPServer` (`server.py`) and the connection loop of `handler.py` as the drain sees it | per connection: `stage` of the accepting thread and `handler` of the serving thread; two drain threads (`shutdown`, `server_close`) |
| `AccessLog` | `AsyncAccessLog` | per call of `record` its place; the writer's phases; counters as in the code |
| `WriteLocks` | the promise of the lock registry | abstract: `held`, `Take` only a free target, `GiveBack` |
| `TargetLocks` | `TargetLocks` of `_writecoord.py` | `entry`, `users`, `owner` are the registry, the count and the lock; an entry is named by the request that created it, so popping and recreating one yields a different entry |
| `Resumable` | `_resumable_put` and its helpers, `PartialUploadBudget` | `part[t]` is the sidecar of `t` as the sequence of client offsets it holds; `put[r]` the request of handler `r`; a step per system call or locked section |
| `Dav` | `DavLockManager` and the write methods of `_webdav.py`, locks enforced | `tree[p]` is what is at a path, `lock[k]` what a token locks; per handler its place, request, the collection its temporary file is in (`temp`), the entries its copy has still to visit (`todo`) and the directories its `rmtree` has open (`opened`: where each is now, since a MOVE of another request takes them along); `foreign[r]` is history: the locks its check saw and whose tokens it lacks |
| `Hpack`, `Frames` | `hpack.py`, `frames.py` | a block is a sequence of representations, a frame a record of its layout; integers, Huffman codes and frame headers octet by octet, and the reader of frames that come in fragments |
| `H2` | `H2Connection` | a thread that handles one frame a step and sends one DATA frame a step; a drain thread; beside it what the client knows: `peerTable`, `credit`, `wire`. `skipped` and `fault` are history |
| `AsgiResponse`, `WebSocket` | `_ResponseState`, `_websocket.serve` | operators on the response record; the states of a socket and what went out |
| `Asgi` | connections, exchanges, receive and send, admission and drain of `asgi.py`; `_Lifespan` with `serve_forever` | `conn[c]` is the connection with its transport, task, request and response; the server's place and the application's answer in the lifespan; a step is what runs between two awaits |
| `RequestHead`, `HeadReader` | `_request.py`, framing in `_body.py` | the rules for a head; the blocking, the incremental and the deadline reader as functions of the fragments that come |
| `Http1` | one connection of `handler.py`, with the handlers of files, uploads, WebDAV, proxy, WSGI and CGI | `stream` is what the client has sent and nobody read, `owed` and `remaining` the body; `last` is how the client reads the latest response |
| `BodyReader` | `_body.py`, the chunked bodies of `asgi.py`, `upload.py`, `_extract.py` | operators, one for each function of the code |
| `StaticFile` | `ranges.py`, `_conditional.py`, `_static.py`, negotiation in `_compress.py` and `_digest.py`, `_serve_file`, `build_static` | the same; and what the answers for a file promise, which `MCHttp1` evaluates and `Http1Proofs` proves |
| `Access` | `security.py`, `auth.py`, `archive.py`; the routing of requests in `handler.py` and `_response.py` | the same |
| `Listing` | `listing.py`: the scan and its limits, metadata and facets, filters, sorts, pages and the links between them | the same; an entry is a record of what filters and sorts look at |
| `FlightCache` | `get_or_compute` of both caches | per caller its place in the function; `flights` and `flight` are the table and the records of the flights |
| `Http3` | `http3.py` | per stream the client, the tables of the connection, the task of the reply, the file handle and what is on the wire; the listener and its owner |
| `Tftp` | `_tftp.py` | the conversions, whole and in chunks; per transfer its thread, its client and the lock and temporary file of a write; packets are not kept: any that was sent may arrive until numbers come round; stage "lost" is the slot of a thread that could not be started |
| `Supervisor` | `Supervisor` and the worker entry point | main thread, a second caller of `shutdown`, a pending signal, a record of each child process and its pipes; `jammed` are the multiprocessing Events inside which a process died |
| `Acme` | `_acme.py` with `_ensure_acme` | the request that is due, the order, the files with their ages |
| `Launch` | `serve`, `_serve_prepared`, the responder of `_mdns.py`, `BoundedWorkLimiter` (`_work.py`) | `where` the main thread is, what is `alive`, the stack of `cleanups`, and `strays`, what a cut start or a late HTTP/3 thread has left; the thread of the responder and its last words; the leases of archive downloads; composes the two above |
| `WorkPoolProofs`, `TargetLocksProofs`, `ResumableProofs`, `DavProofs`, `ServerDrainProofs`, `H2Proofs`, `Http1Proofs`, `LaunchProofs` | theorems | section 7 |
| `MC*` | instances for TLC | section 4 |

In each module the mutants (operators whose comment starts with "Mutant") are plausible slips
in the code they stand next to. Replacing the real definition by one makes the property it
is listed with in `PROJECT.json` fail. No specification uses them.

Atomicity. A step is one section under a lock, one operation on a semaphore or an event, one system
call on a file, what an event loop runs between two awaits, or the code between two such operations when it
touches only state of its own thread. In `Resumable` the inspection of a sidecar (expiry, size, refusals) is one
step because the target lock protects all it reads, and the release of an expired
claim commutes with every claim of another target. In `Dav` a removal or a copy takes a step per
system call, because no lock covers a whole tree. Taking the write lock is one step with the first thing done
under it and giving it back one with the last: between them no other handler can tell the
difference, since all another one does with that lock is wait for it. The handler's look at the tree and its look
at the DAV locks are one step; what the first one found is looked at again under the write lock, or by the system call
itself. In `H2` the handling of a frame is one step: of what it touches the drain thread only sees the
set of streams and the last accepted one, under the same lock. In `Http1` the client sends, and a handler reads,
an octet a step; a head is one unit there, and `HeadReader` says why it may be.

## 4. Runs

Each run checks a few invariants and temporal properties that are conjunctions of named parts.

| Run | Shows |
| --- | --- |
| `work_pool` | Submissions, a cancelled coroutine, refused threads and `close` in every order. `CallsOwned`: permits, budget and results belong to the calls that run; `CountersExact`: each counter is the number of calls in its case, at every moment; `PoolSettles`: late results are disposed of, permits return, `close` returns; `ExactAdmission`: the pool implements `Admission` |
| `server_drain` | Both hand-over modes, limits, failing threads and both ways to stop. `DrainOrderly`: permits conserved, admitted work served until the deadline, every socket closed, hooks called once; `DrainSettles`: hooks are called, both calls return |
| `access_log` | Both overflow policies, failures inside a batch, `close`. `RecordsAccounted`: exact load, every record in one place, the file in order; `LogSettles`: `close` drains, blocked threads return |
| `supervisor` | Three starts of a process (`Launch`): ACME, all listeners, or a supervisor of two workers, with failures, interrupts and death anywhere. `GenerationWhole`, `AcmeSound` (chain and key are one pair, a challenge that may be asked for is served), `Released`: what is left open is exactly what section 8 lists; `LaunchSettles`: every start, stop and shutdown ends, unless a process was killed inside an Event that is set or polled (`Stuck`, `Polls`) |
| `target_locks` | `RegistrySound`: the registry leaks nothing and no ring of waiters forms; it implements `WriteLocks` (`ImplementsWriteLocks`) |
| `resumable` | `UploadsWhole`: whole files, bounded sidecars, exact offsets; `NoOverwrite`; under interleaved clients, failures and restarts |
| `dav` | Two clients lock, unlock and write above, at and below each other's paths. `LocksHold`: no two live locks overlap, no system call of a write touches what a lock its check saw protects, but for what is removed `Astray`; `AnswersTrue`: a success is true when it is sent, and a MOVE that copies removes its source only after a whole copy |
| `h2` | A client that sends any frame, and a drain. `SendsWhatIsGranted`, `StreamsAccounted`, `PromisesKept`, `FieldsExact` (also the codecs, once), `DrainEnds` |
| `asgi` | Applications that call anything in any order, clients that pipeline, half-close or reset, WebSockets, a drain. `WireInStep`, `ListenersTold`, `DrainOrdered`, `DrainEnds` |
| `http1` | Three pipelined requests through every kind of handler, cut or silent anywhere, and a drain. `InStep`, `OneAnswerEach`, `LastIsLast`, `Ends`; and, for all small inputs, `InputExact` (heads, framing, bodies, multipart, extraction) and `AnswersExact` (ranges, validators, codings, digests, containment, archives, credentials, listings with their links, routing) |
| `http3` | Connections, a request of any shape, its reply through the shared cache, a listener. `RepliesWhole`, `CacheExact`, `Http3Settles` |
| `tftp` | Loss, duplication, reordering, numbers that come round, PUTs to the same file. `TransfersSound`, `NeverReplaces`, `TransfersEnd`, and `NetasciiExact`, once |

Deadlock is checked in `work_pool`, `server_drain`, `access_log`, `target_locks`, `resumable`, `dav` and `h2`; models that may
end have a `Terminated` step there, so a deadlock is a state in which something unfinished cannot
move. In `supervisor`, `asgi`, `http1`, `http3` and `tftp` everything may be over, or the client silent for ever: that
what is due happens is what their liveness properties say.

## 5. Bounds

* `work_pool`: three calls, one thread, one queue place, two bytes. One call runs, one
  queues, one is refused; weights 1, 2, 1 make the byte budget refuse with a permit in hand.
* `server_drain`: three connections, two permits, one thread with one slot (`SlotsPerWorker` is 4 in the code). A connection
  can be refused by either semaphore; the HTTP/2 one has a hook.
* `access_log`: five records, a queue of one (the code adds a place for the record in hand), a batch of two and four bytes. One record is larger
  than the budget, one takes most of it, two fill the places and leave bytes: each limit refuses alone.
* `supervisor`: three starts; a certificate is due in each, all other plans are for the first. Two domains, two
  issued certificates: the second issue can meet the files of a torn first one. Two workers, the second stubborn: one can be
  behind or lost, or die inside an Event, while the other is prepared, committed or serving. Two archive threads for one lease. 98 920 states.
* `target_locks`: three requests, three targets: the shortest ring in which every pair is
  ordered consistently by some rule has three members. The theorems lift the bound.
* `resumable`: two clients, two targets, two reads per upload, a budget of one. A
  chunk can be first, middle, last, short or overlapping; the budget can be full. Restarts are
  not counted: the state is finite without.
* `dav`: two clients and five paths (a collection with one inside it that holds a file, and a second collection with a file), two locks ever
  granted, every initial tree, and the twelve requests of `Wanted`. A lock can lie above, at or below a write; a directory can be moved away while `rmtree` has it
  open, into the place that a lock protects; a copy can find its parents gone and make them again, or go into itself; a PUT can lose the directory of its temporary file. The
  theorems lift the bounds. 831 848 states.
* `h2`: streams 1 and 3 and a limit of one: the second is refused or follows the first. Windows of at most 2 with frames of
  1, so that a body of 2 needs two frames and a window can become negative. One field fills the dynamic table, so
  that each insertion evicts; a block of two fragments is too long. Integers at every boundary of prefix and octet, texts of
  up to four symbols in a code of four. Frame headers at the boundaries of every octet, and streams of up to two frames cut in three.
* `asgi`: two connections for one slot, two requests in all, one with a body; applications send any of nine
  events. A slot can be waited for, a connection used again.
* `http1`: three requests, three units ahead, a limit of two requests, a drain limit of one octet, bodies of 0 to 3:
  below, at and above each limit. For the functions: heads of up to six octets over four letters and four over six, with every cut
  in three fragments and lines of up to four; bodies of up to four octets, reads of 1 to 3; chunked bodies of up to two chunks, cut anywhere, with a limit of two octets and
  one trailer; multipart data of up to six octets
  with markers of up to three; archives of up to two entries; files of 0 to 3 octets with three modification times; all trees of
  three spots with files, directories and links, and paths of up to three names; directories of up to three entries, and
  one of five, where four are scanned, three have details, two have metadata and two facets are shown: each limit is met and passed; pages of two and no pages.
* `http3`: two connections for one place, one stream and one other thread, two keys whose values fill or exceed the cache, files of two
  chunks and a sender that holds one.
* `tftp`: two transfers for one slot, one that may be lost with its thread, and a PUT, block numbers modulo 2, files of two octets in blocks of one or two, one
  retry. A packet that is older than a cycle of numbers is gone (`Fresh`): in the code a cycle is 65536 packets.
* Sets of unordered actors are symmetric where no liveness is checked (`target_locks`, `resumable`, `dav`).

## 6. Fairness

Weak fairness is given to the threads and tasks the code keeps running and to nothing else.

* `WorkPool`: one weak-fairness condition on the disjunction of all steps of started submissions, callbacks,
  executor threads and a started `close`. No step in it repeats for ever, so each
  enabled one is eventually taken. Calling `submit` or `close`, and cancelling, are the environment's.
  A call that never returns is outside: the pool's own documentation makes `close` wait for it.
* `ServerDrain`: the accepting thread, a started drain and time. Handlers get none: an application
  may be stuck for ever, and `DrainReturns` must hold all the same.
* `AccessLog`: the writer thread, and request threads that have been notified. A thread that is waiting
  gets none; `BlockedReturns` rests on the notifications.
* `Launch`: the main thread, whose waits have timeouts; the deadline of a poll (`Certified(PollLate)`). `Supervisor`: the main
  thread, a started shutdown, a requested shutdown, and each worker that is not stubborn; of a stubborn one only that a signal kills it. A call that a jammed Event blocks is not enabled.
* `H2`: the reader thread goes on with what it has; a read ends when the drain has shut the socket down; the drain thread
  goes on. The client need not send or grant anything: `DrainEnds` starts when no accepted stream is left.
* `Asgi`: the loop runs the task of the drain, the observer of the server's own progress and refusals of connections; a transport that was closed
  with nothing to write goes. Neither applications nor clients get any.
* `Http1`: the thread of the connection. Its reads of a silent client time out (`WaitEnds` and its like are steps of that thread), as every
  socket has a timeout.
* `Http3`: the task of each reply, each thread in the cache and the functions they compute, the listener's thread and the handle its owner waits for.
* `Tftp`: the thread of each transfer, whose waits for the network and for a lock have timeouts. The network may lose everything.
* `TargetLocks`, `Resumable` and `Dav` are checked for safety only and state no fairness.

## 7. Proofs

`tlapm` checks every theorem to its leaves; assumptions are the named `ASSUME`s of the modules, which
TLC evaluates in the runs.

**`WorkPoolProofs`** (any calls, workers, capacity, weights). Inductive invariant `IInv`: types, permit conservation, and
`Coherent`, which ties the Future, callback, queue entry and coroutine of each call to where its
submitter stands. Permit conservation alone is not inductive: that a callback gives back
a permit somebody holds needs to know that a callback is only registered on a tracked call, and a queue
entry only belongs to a pending or cancelled Future, once. `Counted`, a part of the property too, says of each counter which calls it has counted, at every moment. Bytes are a sum
over the calls; it is written as the size of a union of disjoint sets, one for each call, so that no induction is needed. From it: `TypeCorrect`,
`PermitsAreConserved`, `RunningCallsStayBudgeted` and `LateResultsHaveOneOwner`, together `CallsAreOwned`
(`CallsOwned`); `CountersAreExact` (`CountersExact`); and `PoolAdmitsExactly`, that the pool implements `Admission` (`ExactAdmission`).

**`TargetLocksProofs`** (any finite set of requests, any targets that can be sorted). `IInv` says that all
borrowers of a target have the registered entry (`OneEntry`), that it counts them
(`UsersCounted`), that a taken lock is the lock of the borrowed entry (`LocksOwned`), and what each
place of `hold_many` says about the request (`PlacesAgree`). `OneEntry` is what makes one lock
per entry one lock per target, and it needs the count: the last of several users must not pop the entry. From it:
`TypeCorrect`, `LeakFree`, `Exclusive`, and `Implements`, that the registry implements
`WriteLocks`, on which `Resumable` is built; and `Sound` (`RegistrySound`), that no ring of waiters forms. For that `OrderInv` adds
who holds a lock (`OwnersHold`) and that a request that still takes locks waits for the greatest target it has
borrowed, above all it has locked (`Ascending`): of the waiters of a ring, the one that waits for the greatest target would wait for a lock whose owner
waits for a greater one.

The same module holds the access log (any callers, sizes, limits and batches, either policy). `LogInv` says that what the writer has in its hand and what is
queued follow, in their order, what was written or given up (`InOrder`), that a call is accepted once (`AcceptedOnce`), what the writer
holds at each of its places (`InHand`), how far the file may be ahead of the counter (`OnFile`), and that what is charged is what the log retains
(`ChargeExact`). That the file is in order is not inductive: it rests on where the batch begins among what was accepted.
From it: `RecordsAreAccounted` (`RecordsAccounted`).

**`ResumableProofs`** (any clients, targets, size limit and budget). `IInv` says that a handler past the
lock holds exactly the lock of its target, so nobody else touches that sidecar or that file (`OthersKeep`); that
from the opening of the sidecar to its commit its length is the offset read before the body plus the
bytes written since (`RequestOK`); that every sidecar, also one left by a failure or a kill, is a
prefix of the client's file (`PartsInOrder`); and that every target is whole
(`TargetsWhole`). `WholeBodies` alone is not inductive: that the renamed file is whole rests on
the sidecar, whose length rests on the lock. From it: `TypeCorrect`, `OnlyWholeFiles` and `OffsetsExact`, together `UploadsStayWhole` (`UploadsWhole`), and
`NeverOverwrites`, where the policy checked before a whole body still holds after it.

The same module holds TFTP, whose writers share those locks (any path and content, block sizes, window of numbers, transfers and PUTs). `TftpInv`
says that a slot is taken by each thread that runs, and by one at most that was not started, with which the loop has ended (`Slots`), that a writer past the lock holds it, has found no file and has in its temporary file exactly the
blocks before the one it waits for (`StageSound`), what is settled before a client moves (`ClientSound`), and that server and client
are at most one block apart (`ReaderSound`, `WriterSound`). The last is what keeps a number that comes round from being taken for another block; it needs
`StageSound`, since a block is acknowledged before the next is stored. From it: `TransfersStaySound` (`TransfersSound`) and
`NothingReplaced` (`NeverReplaces`), where the lock is what keeps a PUT out between the look at the target and the rename.

**`DavProofs`** (any clients, tree of paths, number of locks, overwrite policy). `IInv` adds to the types that only
tokens already issued are live, that live locks are disjoint, and `StillAuthorized`: for a request past its check, no
live lock in `foreign[r]` is related to a path the request needs a token for. That survives
because a token is issued once. That each system call stays below those paths, or is astray, is `WriteTouches`: it rests on what a removal (`BaseReached`, `OpenReached`) and a copy
(`ImageReached`) can reach, the parents that `copytree` makes again included; and that a lock related to something below a path is related to the path itself is
`RelatedBelow`. From it: `ExclusiveLocks` and `LocksRespected`, together `LocksAreHeld` (`LocksHold`). `Astray` is as narrow as it can be stated: a directory that
the removal has open and that is no longer below any path whose locks were checked. `SuccessIsTrue` (`AnswersTrue`) needs that the entries a copy has still to
visit, and whether it has left any out, are kept by every step of others (`TodoKept`).

**`ServerDrainProofs`** (any connections, pool threads, slots and limits). `DrainInv` says who owns a permit (`OneOwner`: the accepting
thread by its place, the table, or the handler, never two of them), which sockets are open and which of them active
(`OpenSockets`), where a drain may be (`DrainInOrder`), and that a hook that waits has not been called and is with one caller (`NoticeDue`).
The count of permits alone is not inductive: two threads may release the permit of a connection when the hand-over fails, and only the table decides
which of them does. From it: `DrainSound` (`DrainOrderly`).

The same module holds the ASGI server (any clients, slots and requests, any events of the application, any of the three modes of the lifespan). `AsgiInv` ties what a client has read
to the record of its response (`Follows`, which every event keeps), the place of a connection to its transport (`Attached`) and those who wait to their
requests (`Listening`); counts slots and what the drain knows (`ConnectionsSound`); and says where server and lifespan may be
(`Lives`) and what a WebSocket has sent (`SocketsSound`). `Follows` is not inductive alone: a transport that closes under a call must be one whose client has
gone, the callbacks must have been replaced while anybody waits, and nobody may wait for a request that is still to come. From it: `WireStaysInStep`
(`WireInStep`), `ListenersAreTold` (`ListenersTold`) and `DrainStaysOrdered` (`DrainOrdered`).

**`H2Proofs`** (any streams, budgets, windows, bodies and static table). `H2Inv` says that what is kept for a stream belongs to an active
one (`Belongs`), that open files wait to be sent (`FilesClosed`), how far each stream is answered on the wire (`Answered`), that
the client's account of a window agrees with the server's until the table is out of step (`CreditAgrees`), and that who
drains takes no more in (`DrainKept`). Windows may become negative, by less than was ever granted (`WindowsBounded`). The steps are classified by what they do to a stream
(`Effect`: it is opened, parked, responded to, sent, ended, regranted, or nothing), so that each part is proved for
seven effects instead of for every frame. From it: `EveryStreamAccounted` (`StreamsAccounted`), `GrantedIsSent`
(`SendsWhatIsGranted`), `DrainPromises` (`PromisesKept`).

**`Http1Proofs`** (any requests, policies and limits; assumed that the length declared by a request is an integer or absent). The stream is a
sequence of heads and octets, and a step that reads one must leave the others where they are. `IInv` says that each head is followed by the body it declares, what the client still
owes included (`Framed`), how many octets stand before the next head at each place of the thread (`Placed`), that who leaves
octets unread has marked the connection (`Marked`), what has been answered (`Accounts`), and what the limit and the drain have announced
(`LimitKept`, `FinalKept`). `InStep` is not inductive: that the next head is at the front after a body is read rests on `Framed` of the head that was
read before. From it: `StaysInStep` (`InStep`), `EachAnsweredOnce` (`OneAnswerEach`), `TheLastIsLast` (`LastIsLast`).

The same module holds what HTTP/1 shares with HTTP/3. `CacheInv` (any threads, keys, sizes and bound) says that what is retained is counted, each key once (`ItemsExact`), that a
thread between its join and its leaving is aboard the flight of its key (`OnBoard`), that a flight is in the table exactly as long as it carries
someone and counts them (`Tabled`), and that one of them is its owner (`OneOwner`): `CacheStaysExact` (`CacheExact`). `RepliesInv` (any connections, streams, file and limits)
counts the places taken (`PlacesCounted`), says who may have a request and a task (`Founded`), and what a stream was given and which file is open at each place of its
task, a reply that fails included (`ReplySound`): `RepliesStayWhole` (`RepliesWhole`).

The answers for a file (`StaticFile`) are pure functions, and four theorems say of them for every file, field and list what `AnswersExact` evaluates on small ones: `RangesAreServed`, `ResumesStaySame`
(a resumed download never mixes versions), `RevalidatesExactly` (304 means that the held answer is the one that would be sent now) and `DigestRanksHighest`.
They assume what the models of the headers are: a range is a pair of numbers or open, a list is a sequence of members with weights.

**`LaunchProofs`** (any workers, domains, archives and starts). An invariant for each of the four parts of the state, and each step of a launch changes one of
them. `SupervisorInv`: a worker serves only when commit was broadcast, and that only when all were prepared (`CommitWhole`); when
`wait` and `shutdown` may run (`StartedWhole`, `ShutdownLocked`); and that a second call of `shutdown` finds the workers stopped and the
first call over (`StoppedOnce`), without which `GenerationWhole` is not inductive. `AcmeInv`: one account, on the disk before it is used
(`OneAccount`); chain and key are one pair unless they are being written or torn (`OnePair`); the authority has one authorization under way, with its answer there
(`OneChallenge`). `LimiterInv`: leases counted. `OpenCovered`: what is open is what the entered clauses will close, and what lies between
its start and its clause, and each is closed or left by name (`strays`); `ReturnedWhole`: a supervisor that has returned has neither workers nor a listener, which has to
be kept through the rest of the launch; `ResponderLast`: after the goodbye at most one more answer. From them: `WholeOrNothing` and `LaunchWhole`
(`GenerationWhole`, for the supervisor by itself and within a launch), `CertificateKeyed` (`AcmeSound`) and
`LaunchReleases` (`Released`).

What the proofs found. Attempts that failed have corrected the models: a TFTP transfer began at block 0, which it acknowledges only after it has the lock, and a client could
fail before it moved (`Tftp`); the constants allowed events without a kind and requests of any shape (`Asgi`); `x-gzip`, which names the same coding as
`gzip`, was missing among the lists that are tried (`StaticFile`).

Only model-checked, and why:

* Liveness: `PoolSettles`, `DrainSettles`, `LogSettles`, `LaunchSettles`, `DrainEnds` (twice), `Ends`, `Http3Settles`, `TransfersEnd`. `tlapm` does not
  reason about fairness and ENABLED here.
* What a module computes by recursion over data, on bounded inputs only, since it would need induction over the data: `FieldsExact` (`Hpack`, `Frames`), `InputExact` (`HeadReader`, `BodyReader`),
  `NetasciiExact` (`Tftp`) and, of `AnswersExact`, what is not about one file (`Access`, `Listing`). `HeadReader`, `BodyReader` and `Access` hold the RECURSIVE
  operators; no module with a theorem extends them.

## 8. Where code, documentation and expectation disagree

The models contain what follows, or leave it out where section 9 says so; the properties are stated so that they
hold of the code as it is, and their comments name the exception.

Against a line of the documentation:

* A cancelled queued call of `BoundedWorkPool` returns its permit at once and stays in the executor's queue
  (`_work.py:354`), so the queue can outgrow `queue_capacity`; the scheduler's design note says cancellation removes the job
  (`src/docs/design/performance-experiments/2026-07-11-bounded-work-scheduler.md:106`).
* When `ThreadPoolExecutor.submit` raises because no thread can start, the call is queued already: rollback and call both
  return the worker slot (`server.py:197`), while cleanup is said to be idempotent
  (`2026-07-11-threaded-http-drain.md:14`).
* The SIGTERM handler takes the internal lock of the Event that the interrupted `wait` may hold (`_supervisor.py:246`);
  the docstring calls it safe from a signal handler.
* A full budget of partial uploads is pruned of reservations without a file, which includes those whose sidecar is
  about to be created (`_resumable.py:75`): two clients exceed `--max-partial-uploads` (`src/docs/guide/uploads.md:75`).
* A WebDAV PUT whose client closes its side early replaces the target with what came and is not answered: the length is looked at
  after the rename (`_webdav.py:549`; `src/docs/design/reliability-performance-priorities.md:368`).
* A DELETE, or the removal of a destination, that has a directory open when another request MOVEs it or a parent goes on removing it at its new place
  (`_webdav.py:383`, `:436`: `rmtree` works by descriptors), also below a lock whose token it lacks: locks are said to protect descendants
  (`src/docs/guide/webdav.md:41`). `LocksHold` exempts this by name (`Astray`).
* COPY and MOVE replace their destination whatever `--allow-overwrite` says (`src/docs/guide/webdav.md:27`), and a failed
  one has removed its destination already.
* A completed sidecar kept after a refused commit cannot be committed by any later ranged PUT, although `handler.py:863` keeps it for that.
* A HEADERS frame that is refused in a drain, without END_HEADERS, makes its CONTINUATION a connection error, which ends accepted streams
  too (`http2/connection.py:142`).

WebDAV and drain: a LOCK granted after a write's check does not stop that write; `copy2` writes in place, so a GET can see part
of a file; a DAV lock outlives the DELETE of its resource; the temporary file of a PUT is left behind in a collection that is moved; an idle
keep-alive connection serves one request that arrives after the drain began.

HTTP/2: the header block of a refused stream is never decoded, so the table is out of step from then on (`skipped`); trailers end the
connection; the client's GOAWAY drops responses in flight; padding and data for closed streams are not given back to the receive window;
a GOAWAY with an error may name a later stream than the graceful one; if the GOAWAY of a drain fails, an idle connection stays until
the deadline.

ASGI and WebSocket: a rejected connection whose `wait_closed` raises stays registered (`asgi.py:1386`); after a client's error a
connection that could be used again is not closed by the drain but by its deadline; a listener misses a client that was lost by an error before it
listened (`missed`); an HTTP/1.0 client may get chunks; an informational start completes a response; `_cancel_task` waits without
bound for the lifespan; a WebSocket may send a second CLOSE, and none for a protocol error; a message read as the drain begins is dropped.

HTTP/1: the proxy sends a 502 head behind a partly relayed response (state "second" in `Http1`); a 304 or 204 without a length that is relayed or streamed by
WSGI gets an empty chunked body, which the client reads as the next response (state "extra"); a file that shrank, or an upstream
that ends early, leaves the connection open behind a short body (state "short"); a rejected PUT announces a close and may keep the
connection; the CGI loop knows neither drain nor deadlines between requests; `Range: bytes=9-x` behind the end gives 416 though malformed; dates
tell versions apart by the second; an uploaded archive that holds an entry of its own name loses it, and the removal is outside
the target lock; an archive whose data is broken stays beside what was extracted (`upload.py:259` expects only `ExtractError`); the body of a
resumable query is not drained (`handler.py:798`), which closes the connection of a client that sends one; a plain password that begins with "sha256:" is taken for a digest; a selection that names an entry twice packs it twice.

HTTP/3 and caches: a reply whose file cannot be read on fails, and its stream is neither ended nor reset (`http3.py:293`; "raising" in `Http3`); after a refusal, trailers are taken for a new request, whose answer aioquic refuses; an entry of
`_rejected_requests` may stay; a cancelled `to_thread` leaves an opened file to the collector (state "dropped"); resets of streams are not
handled; a flight that failed hands its old error on as long as callers overlap; a coded value may be computed from content that is newer than its key.

TFTP: a thread that cannot be started leaks its slot and ends the loop (stage "lost"), and so does, without a slot, a "busy" that cannot be sent; every stray packet costs a try; nobody dallies after the last
acknowledgement; a duplicated write request aborts the first; an invalid timeout option is answered with 2.

Launch: a crash between the two writes leaves a chain with an older key, used until it expires (`torn`); a torn account file fails every later
start; nothing is renewed while running; `--discoverable` with an IPv6 or named bind address fails the start; HTTP/3 and the responder may be left running
when the start is cut before the `try`, and the HTTP/3 thread when it does not end, or does not start, in its time (`http3.py:385`, `:404`): `strays`; the responder may answer after its goodbye; TFTP serves on during the drain.

Supervisor: the Events `commit` and `stop` are those of multiprocessing, whose `set()` waits for each sleeper that is counted. A worker that is
killed (by the kernel or an operator) inside `wait(0.05)` stays counted, and then `commit.set()` (`_supervisor.py:348`) or `stop.set()` (`:412`) never returns, with the lifecycle lock held: `start`, `shutdown` and
`wait` hang, and the other workers are neither drained nor killed. A supervisor that is killed inside `set()` leaves the Event's lock taken, and the worker that polls
it outlives its supervisor. The docstring of `shutdown` promises finite deadlines (`_supervisor.py:394`).
`LaunchSettles` exempts exactly these states (`Stuck`, `Polls`).

## 9. What is not modelled

* `config.py`, `cli.py`, `_appspec.py`, `_log.py`: their results are the CONSTANTS and initial states. Previews, metadata, Markdown, QR codes and highlighting:
  formatting with no state a property could be about. External parties (aioquic, the ssl library, CGI children, upstreams, certificate
  authorities) appear as what they may answer.
* `server.py`: partial writes of `DeadlineWriter` (a failing send in `Http1`).
* `Resumable`: removal of a sidecar by another program during an append. Clients that upload different files to one
  target are not told apart (nor does the protocol): chunks of two such files would make a sidecar of the right
  length and of mixed content, which `WholeBodies` does not speak of.
* `Dav`: refresh of a lock and the expiry clock (a lock may run out at any time), PROPFIND and PROPPATCH, the modes
  `class1` and `compat`, symbolic links, a restart (which forgets the locks), requests on the root itself. The order in which `rmtree` takes
  entries is left open, and entries that appear behind it may be taken or not; whether an entry is a directory is looked at when its turn comes.
* `H2`: contents of bodies and of responses, priorities (ignored by the code too), the preface's upgrade from HTTP/1.
* `Asgi`: the parsing of heads (`RequestHead`, `HeadReader`), scopes, TLS; deadlines are not counted, what waits may time out. `WebSocket`: masking, fragments, pings.
* `Http1`: the wording of responses, HEAD and OPTIONS (`Access` says which answer they are given). A client that frames its requests other than it declares.
* `Http3`: more than one stream at a time on one connection (they share no state but the count), QUIC.
* `Tftp`: octets of packets; a client that changes its address. Packets older than a cycle of block numbers.
* `Supervisor`: Ctrl-C during `shutdown` itself. The Events of multiprocessing are modelled as far as section 8 describes them.
* `Acme`: signatures and DER, contents of answers other than their status. `Launch`: mDNS packets.
* `BodyReader`: headers of parts, archive formats. `Access`: Windows paths. `Listing`: markup, previews in a page, the timeline and formats of sizes and dates.
* Other programs that change the served tree, and a second servery process on the same tree: the locks
  are per process, as `src/docs/guide/uploads.md` says.
