------------------------------ MODULE DbWriter ------------------------------
(***************************************************************************)
(* The database writer: engines PUBLISH rows on a Redis channel            *)
(* (shared/db_events.py), DbWriterService forwards the frames to a bounded *)
(* queue (engines/db_writer/service.py) and AsyncDatabaseWriter inserts    *)
(* them in batches (persistence/writer.py).                                *)
(*                                                                         *)
(* Two coroutines write: run() ("loop") and, once the service is asked to  *)
(* stop, shutdown() ("drain"), which takes over the queue while run() may  *)
(* still be collecting or writing a batch of its own.  A row stands for    *)
(* its frame, its payload and its natural key.                             *)
(***************************************************************************)
EXTENDS Naturals, Sequences, SequencesExt, FiniteSets

CONSTANTS
  Stream,         \* the rows the engines publish, in the order of their cycles
  TableOf,        \* row -> the table its frame names
  TABLE_MODELS,   \* tables the writer knows
  IDEMPOTENT_TABLES,
  Poison,         \* rows their table refuses (constraint or type error)
  BATCH_SIZE_MAX, QUEUE_MAX_SIZE, RETRY_ATTEMPTS,
  MaxFaults,      \* bound: transient database errors
  MaxCrashes      \* bound: process kills

Rows == ToSet(Stream)

ASSUME WriterAssumption ==
  /\ Stream \in Seq(Rows) /\ \A i, j \in DOMAIN Stream : Stream[i] = Stream[j] => i = j
  /\ IDEMPOTENT_TABLES \subseteq TABLE_MODELS
  /\ Poison \subseteq Rows
  /\ {BATCH_SIZE_MAX, QUEUE_MAX_SIZE, RETRY_ATTEMPTS} \subseteq Nat \ {0}
  /\ {MaxFaults, MaxCrashes} \subseteq Nat

VARIABLES
  sent,       \* rows published
  wire,       \* frames Redis delivered to the subscription, not read yet
  sub,        \* the subscription: _subscriber_ok is sub = "up"
  queue,      \* AsyncDatabaseWriter.queue
  received,   \* history: rows _enqueue read off the subscription
  w,          \* per writing coroutine: pc, attempt, batch, the rows of the batch this
              \* attempt has still to write, those of the table under the per-row fallback
  remaining,  \* shutdown(): the drained tail, not yet chunked
  stopping,   \* the service: run, asked to stop, draining, gone
  db,         \* row -> copies committed
  dead,       \* rows of db_writer_dead_letter
  logged,     \* rows a log line reports as lost after the last retry, or for want of a dead letter
  dropped,    \* rows reported as lost at once: a full queue (counted), an error outside
              \* the retried classes (logged)
  faults, crashes

vars == <<sent, wire, sub, queue, received, dropped, w, remaining, stopping, db, dead, logged, faults, crashes>>

Writers == {"loop", "drain"}

Unknown == {r \in Rows : TableOf[r] \notin TABLE_MODELS}
Valid   == Rows \ (Unknown \cup Poison)

Idle(pc) == [pc |-> pc, batch |-> <<>>, left |-> {}, rows |-> {}, attempt |-> 0]

TypeOK ==
  /\ sent \subseteq Rows /\ received \subseteq sent
  /\ wire \in Seq(Rows) /\ remaining \in Seq(Rows)
  /\ queue \in Seq(Rows) /\ Len(queue) <= QUEUE_MAX_SIZE
  /\ sub \in {"up", "down", "cancelled"}
  /\ w \in [Writers -> [pc : {"off", "top", "collect", "write", "rows", "done"}, batch : Seq(Rows),
                        left : SUBSET Rows, rows : SUBSET Rows, attempt : 0..(RETRY_ATTEMPTS - 1)]]
  /\ \A t \in Writers : Len(w[t].batch) <= BATCH_SIZE_MAX
  /\ stopping \in {"no", "asked", "draining", "exited", "killed"}
  /\ db \in [Rows -> Nat] /\ dead \subseteq Rows /\ {logged, dropped} \subseteq SUBSET Rows
  /\ faults \in 0..MaxFaults /\ crashes \in 0..MaxCrashes

Init ==
  /\ sent = {} /\ wire = <<>> /\ sub = "down" /\ queue = <<>> /\ received = {}
  /\ w = [t \in Writers |-> Idle(IF t = "loop" THEN "top" ELSE "off")]
  /\ remaining = <<>> /\ stopping = "no"
  /\ db = [r \in Rows |-> 0] /\ dead = {} /\ logged = {} /\ dropped = {}
  /\ faults = 0 /\ crashes = 0

Alive == stopping \notin {"exited", "killed"}

-----------------------------------------------------------------------------
(* Publication and subscription. *)

\* publish_db_event: pub/sub keeps nothing for an absent subscriber.
Publish ==
  /\ sent # Rows
  /\ LET r == Stream[Cardinality(sent) + 1] IN
       /\ sent' = sent \cup {r}
       /\ wire' = IF sub = "up" THEN Append(wire, r) ELSE wire
  /\ UNCHANGED <<sub, queue, received, dropped, w, remaining, stopping, db, dead, logged, faults, crashes>>

\* _subscribe_loop: a (re)connection; the loop gives up once asked to stop.
Subscribe ==
  /\ sub = "down" /\ stopping = "no"
  /\ sub' = "up"
  /\ UNCHANGED <<sent, wire, queue, received, dropped, w, remaining, stopping, db, dead, logged, faults, crashes>>

\* listen() raises, or the subscriber task dies and the service restarts it.
Disconnect ==
  /\ sub = "up" /\ Alive
  /\ sub' = "down" /\ wire' = <<>>
  /\ UNCHANGED <<sent, queue, received, dropped, w, remaining, stopping, db, dead, logged, faults, crashes>>

\* Fault: _enqueue drops the frame of a full queue without counting it.
EnqueueUncounted ==
  /\ sub = "up" /\ wire # <<>>
  /\ wire' = Tail(wire) /\ received' = received \cup {Head(wire)}
  /\ queue' = IF Len(queue) < QUEUE_MAX_SIZE THEN Append(queue, Head(wire)) ELSE queue
  /\ UNCHANGED <<sent, sub, w, remaining, stopping, db, dead, logged, dropped, faults, crashes>>

\* _enqueue: put_nowait; a full queue drops the frame and counts it.
Enqueue ==
  /\ sub = "up" /\ wire # <<>>
  /\ wire' = Tail(wire) /\ received' = received \cup {Head(wire)}
  /\ IF Len(queue) < QUEUE_MAX_SIZE
       THEN queue' = Append(queue, Head(wire)) /\ UNCHANGED dropped
       ELSE dropped' = dropped \cup {Head(wire)} /\ UNCHANGED queue
  /\ UNCHANGED <<sent, sub, w, remaining, stopping, db, dead, logged, faults, crashes>>

-----------------------------------------------------------------------------
(* Writing: both coroutines run _write_batch_with_retries.                 *)

\* Fault: run() loops for ever.
LoopTopForever ==
  /\ w["loop"].pc = "top" /\ Alive
  /\ w' = [w EXCEPT !["loop"] = Idle("collect")]
  /\ UNCHANGED <<sent, wire, sub, queue, received, dropped, remaining, stopping, db, dead, logged, faults, crashes>>

\* run(): the top of the loop, while not stop_event.is_set().
LoopTop ==
  /\ w["loop"].pc = "top" /\ Alive
  /\ w' = [w EXCEPT !["loop"] = Idle(IF stopping = "draining" THEN "done" ELSE "collect")]
  /\ UNCHANGED <<sent, wire, sub, queue, received, dropped, remaining, stopping, db, dead, logged, faults, crashes>>

\* _collect_batch: one event popped.
Collect ==
  /\ w["loop"].pc = "collect" /\ queue # <<>> /\ Len(w["loop"].batch) < BATCH_SIZE_MAX
  /\ w' = [w EXCEPT !["loop"].batch = Append(@, Head(queue))]
  /\ queue' = Tail(queue)
  /\ UNCHANGED <<sent, wire, sub, received, dropped, remaining, stopping, db, dead, logged, faults, crashes>>

Begin(t, batch) == w' = [w EXCEPT ![t] = [Idle("write") EXCEPT !.batch = batch, !.left = ToSet(batch)]]

\* _collect_batch returns: the batch is full or batch_timeout_s is over, which an
\* event already queued never lets happen before the first one is popped.
Collected ==
  /\ w["loop"].pc = "collect" /\ (w["loop"].batch # <<>> \/ queue = <<>>)
  /\ IF w["loop"].batch = <<>>
       THEN w' = [w EXCEPT !["loop"].pc = "top"]
       ELSE Begin("loop", w["loop"].batch)
  /\ UNCHANGED <<sent, wire, sub, queue, received, dropped, remaining, stopping, db, dead, logged, faults, crashes>>

\* Fault: a plain INSERT, without ON CONFLICT DO NOTHING.
InsertPlain(rows) == [r \in Rows |-> IF r \in rows THEN db[r] + 1 ELSE db[r]]

\* _build_insert: ON CONFLICT DO NOTHING on the natural key of an idempotent table.
Insert(rows) ==
  [r \in Rows |-> IF r \notin rows THEN db[r]
                  ELSE IF TableOf[r] \in IDEMPOTENT_TABLES /\ db[r] > 0 THEN db[r]
                  ELSE db[r] + 1]

\* _dead_letter: best effort, a failed write leaves the row in the log only.
DeadLetter(r) ==
  \/ /\ dead' = dead \cup {r}
     /\ UNCHANGED <<logged, faults>>
  \/ /\ faults < MaxFaults /\ faults' = faults + 1
     /\ logged' = logged \cup {r}
     /\ UNCHANGED dead

\* The row of S that comes first in the batch.
First(t, S) ==
  w[t].batch[CHOOSE i \in DOMAIN w[t].batch :
               w[t].batch[i] \in S /\ \A j \in 1..(i - 1) : w[t].batch[j] \notin S]

\* _write_batch groups the events; one of an unknown table goes to the dead letter.
DeadLetterUnknown(t) ==
  LET r == First(t, w[t].left \cap Unknown) IN
  /\ w[t].pc = "write" /\ w[t].left \cap Unknown # {}
  /\ DeadLetter(r)
  /\ w' = [w EXCEPT ![t].left = @ \ {r}]
  /\ UNCHANGED <<sent, wire, sub, queue, received, dropped, remaining, stopping, db, crashes>>

\* The bulk INSERT of the next table of the batch, if one is due.
BulkDue(t) == w[t].pc = "write" /\ w[t].left # {} /\ w[t].left \cap Unknown = {}
Bulk(t)    == {r \in w[t].left : TableOf[r] = TableOf[First(t, w[t].left)]}

InsertTable(t) ==
  /\ BulkDue(t) /\ Bulk(t) \cap Poison = {}
  /\ db' = Insert(Bulk(t))
  /\ w' = [w EXCEPT ![t].left = @ \ Bulk(t)]
  /\ UNCHANGED <<sent, wire, sub, queue, received, dropped, remaining, stopping, dead, logged, faults, crashes>>

\* A row error rolls the bulk back and falls back to per-row writes.
BulkRefused(t) ==
  /\ BulkDue(t) /\ Bulk(t) \cap Poison # {}
  /\ w' = [w EXCEPT ![t].pc = "rows", ![t].rows = Bulk(t), ![t].left = @ \ Bulk(t)]
  /\ UNCHANGED <<sent, wire, sub, queue, received, dropped, remaining, stopping, db, dead, logged, faults, crashes>>

\* _write_rows_one_by_one: its own transaction per row, the refused ones parked.
WriteRow(t) ==
  LET r == First(t, w[t].rows) IN
  /\ w[t].pc = "rows"
  /\ w' = [w EXCEPT ![t].rows = @ \ {r}, ![t].pc = IF w[t].rows = {r} THEN "write" ELSE "rows"]
  /\ IF r \in Poison
       THEN DeadLetter(r) /\ UNCHANGED db
       ELSE db' = Insert({r}) /\ UNCHANGED <<dead, logged, faults>>
  /\ UNCHANGED <<sent, wire, sub, queue, received, dropped, remaining, stopping, crashes>>

\* The rows of the statement in hand, if there is one.
Statement(t) ==
  IF w[t].pc = "rows" THEN {First(t, w[t].rows)} ELSE IF BulkDue(t) THEN Bulk(t) ELSE {}

\* Fault: the retry resumes after the failed table.
RetryRest(t) ==
  [w[t] EXCEPT !.pc = "write", !.rows = {}, !.attempt = @ + 1, !.left = @ \ Bulk(t)]

\* _write_batch_with_retries: the whole batch is sent again.
Retry(t) ==
  [w[t] EXCEPT !.pc = "write", !.rows = {}, !.attempt = @ + 1, !.left = ToSet(w[t].batch)]

\* A statement fails on the database's side: before its commit, or after it (in doubt).
StatementFails(t) ==
  /\ Statement(t) # {}
  /\ faults < MaxFaults /\ faults' = faults + 1
  /\ \/ UNCHANGED db
     \/ Statement(t) \cap Poison = {} /\ db' = Insert(Statement(t))

\* OperationalError / InterfaceError: retried; the last attempt raises and the caller
\* logs the batch as dropped.
Transient(t) ==
  /\ StatementFails(t)
  /\ IF w[t].attempt + 1 < RETRY_ATTEMPTS
       THEN w' = [w EXCEPT ![t] = Retry(t)] /\ UNCHANGED logged
       ELSE w' = [w EXCEPT ![t] = Idle("top")] /\ logged' = logged \cup ToSet(w[t].batch)
  /\ UNCHANGED <<sent, wire, sub, queue, received, dropped, remaining, stopping, dead, crashes>>

\* Any other error of the database's (asyncpg's OSError for a refused connection, a
\* plain DBAPIError) is raised by the first attempt, and the caller drops the batch.
RaisedAtOnce(t) ==
  /\ StatementFails(t)
  /\ w' = [w EXCEPT ![t] = Idle("top")] /\ dropped' = dropped \cup ToSet(w[t].batch)
  /\ UNCHANGED <<sent, wire, sub, queue, received, remaining, stopping, dead, logged, crashes>>

Written(t) ==
  /\ w[t].pc = "write" /\ w[t].left = {}
  /\ w' = [w EXCEPT ![t] = Idle("top")]
  /\ UNCHANGED <<sent, wire, sub, queue, received, dropped, remaining, stopping, db, dead, logged, faults, crashes>>

-----------------------------------------------------------------------------
(* Stopping. *)

\* SIGTERM or SIGINT.
RequestStop ==
  /\ stopping = "no"
  /\ stopping' = "asked"
  /\ UNCHANGED <<sent, wire, sub, queue, received, dropped, w, remaining, db, dead, logged, faults, crashes>>

\* DbWriterService.run's finally: no new events first.
CancelSubscriber ==
  /\ stopping = "asked" /\ sub # "cancelled"
  /\ sub' = "cancelled" /\ wire' = <<>>
  /\ UNCHANGED <<sent, queue, received, dropped, w, remaining, stopping, db, dead, logged, faults, crashes>>

\* shutdown(): stop_event, then the queue is emptied without an await.
Shutdown ==
  /\ stopping = "asked" /\ sub = "cancelled"
  /\ stopping' = "draining"
  /\ remaining' = queue /\ queue' = <<>>
  /\ w' = [w EXCEPT !["drain"].pc = "top"]
  /\ UNCHANGED <<sent, wire, sub, received, dropped, db, dead, logged, faults, crashes>>

\* shutdown(): the next chunk of batch_size_max, or dispose and return.
DrainTop ==
  LET n == IF Len(remaining) < BATCH_SIZE_MAX THEN Len(remaining) ELSE BATCH_SIZE_MAX IN
  /\ w["drain"].pc = "top"
  /\ IF remaining = <<>>
       THEN w' = [w EXCEPT !["drain"] = Idle("done")] /\ UNCHANGED remaining
       ELSE /\ Begin("drain", SubSeq(remaining, 1, n))
            /\ remaining' = SubSeq(remaining, n + 1, Len(remaining))
  /\ UNCHANGED <<sent, wire, sub, queue, received, dropped, stopping, db, dead, logged, faults, crashes>>

\* run() of the service awaits both coroutines and returns.
Exit ==
  /\ stopping = "draining" /\ \A t \in Writers : w[t].pc = "done"
  /\ stopping' = "exited"
  /\ UNCHANGED <<sent, wire, sub, queue, received, dropped, w, remaining, db, dead, logged, faults, crashes>>

\* SIGKILL: whatever is in memory is gone.
Crash ==
  /\ Alive /\ crashes < MaxCrashes
  /\ crashes' = crashes + 1
  /\ stopping' = "killed" /\ sub' = "down" /\ wire' = <<>> /\ queue' = <<>> /\ remaining' = <<>>
  /\ w' = [t \in Writers |-> Idle("off")]
  /\ UNCHANGED <<sent, received, dropped, db, dead, logged, faults>>

\* The container is started again.
Start ==
  /\ ~Alive
  /\ stopping' = "no" /\ sub' = "down"
  /\ w' = [t \in Writers |-> Idle(IF t = "loop" THEN "top" ELSE "off")]
  /\ UNCHANGED <<sent, wire, queue, received, dropped, remaining, db, dead, logged, faults, crashes>>

-----------------------------------------------------------------------------
WriteStep(t) ==
  \/ DeadLetterUnknown(t) \/ InsertTable(t) \/ BulkRefused(t) \/ WriteRow(t) \/ Written(t)

Next ==
  \/ Publish \/ Subscribe \/ Disconnect \/ Enqueue
  \/ LoopTop \/ Collect \/ Collected
  \/ \E t \in Writers : WriteStep(t) \/ Transient(t) \/ RaisedAtOnce(t)
  \/ RequestStop \/ CancelSubscriber \/ Shutdown \/ DrainTop \/ Exit
  \/ Crash \/ Start

\* Every coroutine that can take a step of its own does: asyncio's ready queue is
\* FIFO and every wait in the writer has a timeout.
Fairness ==
  /\ WF_vars(Subscribe) /\ WF_vars(Enqueue)
  /\ WF_vars(LoopTop) /\ WF_vars(Collect) /\ WF_vars(Collected)
  /\ \A t \in Writers : WF_vars(WriteStep(t))
  /\ WF_vars(CancelSubscriber) /\ WF_vars(Shutdown) /\ WF_vars(DrainTop) /\ WF_vars(Exit)

Spec == Init /\ [][Next]_vars /\ Fairness

-----------------------------------------------------------------------------
(* Properties. *)

InFlight ==
  ToSet(wire) \cup ToSet(queue) \cup ToSet(remaining)
    \cup UNION {ToSet(w[t].batch) : t \in Writers}

StatusOf(r) ==
  LET copies == db[r] + (IF r \in dead THEN 1 ELSE 0) IN
  IF copies > 1 THEN "duplicated"
  ELSE IF copies = 1 THEN (IF r \in dead THEN "parked" ELSE "stored")
  ELSE IF r \in InFlight THEN "inflight"
  ELSE IF r \in sent THEN "lost" ELSE "unsent"

Sink == INSTANCE EventSink WITH status <- [r \in Rows |-> StatusOf(r)]

\* The writer implements the lossy sink of module EventSink: whatever the retries,
\* the in-doubt commits, the two concurrent coroutines of a shutdown and a kill, no
\* row is stored twice, stored and parked, or comes back once it is lost.
ImplementsSink == Sink!Spec

\* What the retries are for: without a kill, and with fewer errors than attempts, a
\* valid row read off the subscription is in the process or stored, unless the full
\* queue counted it out or its batch met an error the retries do not catch; a refused
\* row takes none of its neighbours with it (writer.py's per-row fallback).
RetriesLoseNothing ==
  faults < RETRY_ATTEMPTS /\ crashes = 0
    => \A r \in (received \cap Valid) \ dropped : r \in InFlight \/ db[r] > 0

\* Without a kill, a row read off the subscription that left the process unsaved was
\* reported: _enqueue counts it, run(), shutdown() and _dead_letter log what they give up.
LossIsReported ==
  crashes = 0 =>
    \A r \in received \ InFlight : db[r] > 0 \/ r \in dead \cup logged \cup dropped

\* A service asked to stop does stop, however the drain and run() interleave.
StopTerminates == stopping = "asked" ~> ~Alive
=============================================================================
