------------------------------- MODULE AccessLog -------------------------------
(***************************************************************************)
(* AsyncAccessLog (_accesslog.py): request threads that record one line    *)
(* each, the bounded queue between them and the writer thread, and close().*)
(* Every stretch of code between two waits on _condition is one step.      *)
(*                                                                         *)
(*   caller[p]  a call of record(): new -> waiting <-> woken -> its result *)
(*   writer     waiting or filling in a wait of _next_batch, idle or refill*)
(*              when that wait has been notified, then writing -> wrote or *)
(*              failed -> idle, and at last ending -> done                 *)
(* The file is the standard library's: a write that raises may have put    *)
(* the first lines of the batch on disk.                                   *)
(***************************************************************************)
EXTENDS Integers, Sequences, FiniteSets, SequencesExt

CONSTANTS Calls,          \* the calls of record()
          Charge,         \* bytes charged to the record of each call
          QueueCapacity,  \* config.access_log_queue
          ByteCapacity,   \* config.access_log_queue_bytes
          BatchSize       \* config.access_log_batch_size

ASSUME CallsAssumption == IsFiniteSet(Calls) /\ Charge \in [Calls -> Nat]
ASSUME CapacityAssumption ==
    QueueCapacity \in Nat /\ ByteCapacity \in Nat \ {0} /\ BatchSize \in Nat \ {0}

CountCapacity == QueueCapacity + 1

VARIABLES overflow,     \* the policy, "block" or "drop"; never changes
          caller,
          records,      \* _records
          batch,        \* what the writer has taken off the queue
          writer,
          outstanding, outstandingBytes,
          accepted,     \* the accepted records in order; _accepted is its length
          written, writeFailed, abandoned,   \* the counters of the same name
          active,       \* _active
          closing,      \* _closing, and the negation of _accepting
          sinkFailed,   \* _sink_failed
          file          \* the lines in the log file

load     == <<outstanding, outstandingBytes>>
delivery == <<written, writeFailed, abandoned>>
vars == <<overflow, caller, records, batch, writer, load, accepted, delivery,
          active, closing, sinkFailed, file>>

Init ==
    /\ overflow \in {"block", "drop"}
    /\ caller = [p \in Calls |-> "new"]
    /\ records = <<>> /\ batch = <<>> /\ accepted = <<>> /\ file = <<>>
    /\ writer = "idle"
    /\ outstanding = 0 /\ outstandingBytes = 0
    /\ written = 0 /\ writeFailed = 0 /\ abandoned = 0
    /\ active = 0
    /\ closing = FALSE
    /\ sinkFailed = FALSE

\* _condition.notify_all(): every wait ends.
Woken(callers) == [p \in Calls |-> IF callers[p] = "waiting" THEN "woken" ELSE callers[p]]
WokenWriter(w) == CASE w = "waiting" -> "idle" [] w = "filling" -> "refill" [] OTHER -> w

-----------------------------------------------------------------------------
(* record(), from its start or from a wake-up.                             *)

Looking(p) == caller[p] \in {"new", "woken"}
CountFull == outstanding >= CountCapacity
BytesFull(p) == outstandingBytes + Charge[p] > ByteCapacity

Answer(p, result) ==
    /\ caller' = [caller EXCEPT ![p] = result]
    /\ UNCHANGED <<overflow, records, batch, writer, load, accepted, delivery,
                   active, closing, sinkFailed, file>>

RejectClosed(p) == Looking(p) /\ closing /\ Answer(p, "closed")

RejectSinkFailed(p) == Looking(p) /\ ~closing /\ sinkFailed /\ Answer(p, "sink_failed")

\* A record larger than the whole byte budget is dropped under either policy.
DropBytes(p) ==
    /\ Looking(p) /\ ~closing /\ ~sinkFailed
    /\ BytesFull(p)
    /\ Charge[p] > ByteCapacity \/ overflow = "drop"
    /\ Answer(p, "dropped_bytes")

DropCapacity(p) ==
    /\ Looking(p) /\ ~closing /\ ~sinkFailed
    /\ CountFull /\ ~BytesFull(p)
    /\ overflow = "drop"
    /\ Answer(p, "dropped_capacity")

Block(p) ==
    /\ Looking(p) /\ ~closing /\ ~sinkFailed
    /\ CountFull \/ BytesFull(p)
    /\ overflow = "block" /\ Charge[p] <= ByteCapacity
    /\ Answer(p, "waiting")

Accept(p) ==
    /\ Looking(p) /\ ~closing /\ ~sinkFailed
    /\ ~CountFull /\ ~BytesFull(p)
    /\ records' = Append(records, p)
    /\ accepted' = Append(accepted, p)
    /\ outstanding' = outstanding + 1
    /\ outstandingBytes' = outstandingBytes + Charge[p]
    /\ caller' = [Woken(caller) EXCEPT ![p] = "accepted"]
    /\ writer' = WokenWriter(writer)
    /\ UNCHANGED <<overflow, batch, delivery, active, closing, sinkFailed, file>>

Record(p) ==
    \/ RejectClosed(p) \/ RejectSinkFailed(p) \/ DropBytes(p) \/ DropCapacity(p)
    \/ Block(p) \/ Accept(p)

-----------------------------------------------------------------------------
(* The writer thread.                                                      *)

\* Takes queued records until the batch is full; then it writes, or waits for
\* more for at most batch_wait.
Fill ==
    LET room == BatchSize - Len(batch)
        n == IF Len(records) < room THEN Len(records) ELSE room
    IN  /\ batch' = batch \o SubSeq(records, 1, n)
        /\ records' = SubSeq(records, n + 1, Len(records))
        /\ writer' = IF Len(batch') = BatchSize \/ closing THEN "writing" ELSE "filling"
        /\ active' = IF writer' = "writing" THEN Len(batch') ELSE active
        /\ UNCHANGED <<overflow, caller, load, accepted, delivery, closing, sinkFailed, file>>

\* Mutant: the newest record is taken first.
TakeNewest ==
    /\ writer = "idle"
    /\ records # <<>>
    /\ batch' = <<Last(records)>>
    /\ records' = Front(records)
    /\ writer' = "writing"
    /\ active' = 1
    /\ UNCHANGED <<overflow, caller, load, accepted, delivery, closing, sinkFailed, file>>

TakeFirst ==
    /\ writer = "idle"
    /\ records # <<>>
    /\ Fill

AwaitRecord ==
    /\ writer = "idle"
    /\ records = <<>> /\ ~closing
    /\ writer' = "waiting"
    /\ UNCHANGED <<overflow, caller, records, batch, load, accepted, delivery,
                   active, closing, sinkFailed, file>>

Refill ==
    /\ writer = "refill"
    /\ Fill

BatchWaitOver ==
    /\ writer = "filling"
    /\ writer' = "writing"
    /\ active' = Len(batch)
    /\ UNCHANGED <<overflow, caller, records, batch, load, accepted, delivery,
                   closing, sinkFailed, file>>

Write ==
    /\ writer = "writing"
    /\ \/ writer' = "wrote" /\ file' = file \o batch
       \/ /\ writer' = "failed"
          /\ \E n \in 0 .. Len(batch) : file' = file \o SubSeq(batch, 1, n)
    /\ UNCHANGED <<overflow, caller, records, batch, load, accepted, delivery,
                   active, closing, sinkFailed>>

\* The bytes charged to the records of a sequence; no call is in it twice.
BytesIn(p) == {p} \X (1 .. Charge[p])
BytesOf(seq) == Cardinality(UNION {BytesIn(p) : p \in ToSet(seq)})

Settle ==
    /\ writer = "wrote"
    /\ written' = written + Len(batch)
    /\ outstanding' = outstanding - Len(batch)
    /\ outstandingBytes' = outstandingBytes - BytesOf(batch)
    /\ batch' = <<>>
    /\ active' = 0
    /\ writer' = "idle"
    /\ caller' = Woken(caller)
    /\ UNCHANGED <<overflow, records, accepted, writeFailed, abandoned, closing, sinkFailed, file>>

\* Mutant: a failed batch does not wake the blocked request threads.
SettleSilently ==
    /\ writer = "failed"
    /\ writeFailed' = writeFailed + Len(batch)
    /\ abandoned' = abandoned + Len(records)
    /\ outstanding' = outstanding - Len(batch) - Len(records)
    /\ outstandingBytes' = outstandingBytes - BytesOf(batch) - BytesOf(records)
    /\ batch' = <<>> /\ records' = <<>>
    /\ active' = 0
    /\ sinkFailed' = TRUE
    /\ writer' = "idle"
    /\ UNCHANGED <<overflow, caller, accepted, written, closing, file>>

\* The sink failed: what is queued is abandoned, later records are rejected.
SettleFailure ==
    /\ writer = "failed"
    /\ writeFailed' = writeFailed + Len(batch)
    /\ abandoned' = abandoned + Len(records)
    /\ outstanding' = outstanding - Len(batch) - Len(records)
    /\ outstandingBytes' = outstandingBytes - BytesOf(batch) - BytesOf(records)
    /\ batch' = <<>> /\ records' = <<>>
    /\ active' = 0
    /\ sinkFailed' = TRUE
    /\ writer' = "idle"
    /\ caller' = Woken(caller)
    /\ UNCHANGED <<overflow, accepted, written, closing, file>>

\* Closing and nothing queued: the writer closes the file and ends.
WriterEnds ==
    /\ writer = "idle"
    /\ records = <<>> /\ closing
    /\ writer' = "done"
    /\ UNCHANGED <<overflow, caller, records, batch, load, accepted, delivery,
                   active, closing, sinkFailed, file>>

Writer ==
    \/ TakeFirst \/ AwaitRecord \/ Refill \/ BatchWaitOver \/ Write
    \/ Settle \/ SettleFailure \/ WriterEnds

-----------------------------------------------------------------------------
\* close() marks the log; how long it then waits for the writer changes nothing.
Close ==
    /\ ~closing
    /\ closing' = TRUE
    /\ caller' = Woken(caller)
    /\ writer' = WokenWriter(writer)
    /\ UNCHANGED <<overflow, records, batch, load, accepted, delivery, active, sinkFailed, file>>

Terminated ==
    /\ writer = "done"
    /\ \A p \in Calls : ~Looking(p)
    /\ UNCHANGED vars

Next == (\E p \in Calls : Record(p)) \/ Writer \/ Close \/ Terminated

Spec == Init /\ [][Next]_vars

\* Threads run and writes to the file return; nobody is obliged to call
\* record() or close().  No step repeats for ever, so fairness of the
\* disjunction is fairness of each.
Progress == Writer \/ \E p \in Calls : caller[p] = "woken" /\ Record(p)

FairSpec == Spec /\ WF_vars(Progress)

-----------------------------------------------------------------------------
(* Properties.                                                             *)

Results == {"accepted", "closed", "sink_failed", "dropped_bytes", "dropped_capacity"}

\* Every variable keeps its type: no counter or load goes below zero, and the
\* writer never takes more than a batch (_accesslog.py:343).
LogTypeOK ==
    /\ overflow \in {"block", "drop"}
    /\ caller \in [Calls -> {"new", "waiting", "woken"} \cup Results]
    /\ records \in Seq(Calls) /\ batch \in Seq(Calls)
    /\ accepted \in Seq(Calls) /\ file \in Seq(Calls)
    /\ writer \in {"idle", "waiting", "filling", "refill", "writing", "wrote", "failed", "done"}
    /\ outstanding \in Nat /\ outstandingBytes \in Nat
    /\ written \in Nat /\ writeFailed \in Nat /\ abandoned \in Nat
    /\ active \in 0 .. BatchSize
    /\ closing \in BOOLEAN /\ sinkFailed \in BOOLEAN

\* The load that admission looks at is what the queue and the writer really
\* retain, and neither limit is ever exceeded: not by records the writer has
\* taken but not written, nor after a failure abandoned the queue.
LoadExact ==
    /\ outstanding = Len(records) + Len(batch)
    /\ outstandingBytes = BytesOf(records) + BytesOf(batch)
    /\ outstanding <= CountCapacity
    /\ outstandingBytes <= ByteCapacity

\* Every accepted record is in exactly one place: written, failed, abandoned,
\* queued, or in the writer's hands.  (A snapshot taken while the writer waits
\* for more records shows those in its hands neither as queued nor as active.)
Accounted ==
    /\ Len(accepted) = written + writeFailed + abandoned + Len(records) + Len(batch)
    /\ writer \in {"writing", "wrote", "failed"} => active = Len(batch)

\* The file holds a prefix of the accepted records, in the order they were
\* accepted, and all of those counted as written.
FileInOrder ==
    /\ IsPrefix(file, accepted)
    /\ written <= Len(file)
    /\ ~sinkFailed /\ writer \notin {"wrote", "failed"} => Len(file) = written

\* No record is lost or reordered: the load, the counters, the records in the
\* writer's hands and the lines of the file agree at every moment, through
\* full queues, batches cut by size or time, a failing sink and close()
\* (_accesslog.py:315, :343, :385).
RecordsAccounted == LogTypeOK /\ LoadExact /\ Accounted /\ FileInOrder

\* close() drains: the writer ends, with nothing queued or in its hands.
CloseDrains == closing ~> writer = "done" /\ records = <<>> /\ batch = <<>>

\* A blocked request thread gets its answer: when room is made, when the sink
\* fails or when the log is closed.
BlockedReturns == \A p \in Calls : caller[p] = "waiting" ~> caller[p] \in Results

\* Nobody waits for ever: neither close() for the writer (_accesslog.py:404)
\* nor a blocked request thread for room (_accesslog.py:324).
LogSettles == CloseDrains /\ BlockedReturns
=============================================================================
