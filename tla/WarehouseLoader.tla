--------------------------- MODULE WarehouseLoader ---------------------------
(***************************************************************************)
(* The warehouse loader (warehouse-loader/main.py): one process that reads *)
(* two Kafka topics, buffers the mapped rows, writes each batch to         *)
(* PostgreSQL and then commits the Kafka offsets.  A batch that PostgreSQL *)
(* refuses is retried one message at a time.  The process may be           *)
(* interrupted or killed at every program point, PostgreSQL and the        *)
(* broker's offset store may fail, and a later run of the same consumer    *)
(* group resumes from the committed offsets.                               *)
(*                                                                         *)
(* Each topic has one partition, as docker-compose.yml creates it.         *)
(***************************************************************************)
EXTENDS Integers, Sequences, FiniteSets

CONSTANTS MaxOffset,    \* bound: messages published to each topic
          BatchSize,    \* WAREHOUSE_LOADER_BATCH_SIZE, greater than zero
          MaxMessages,  \* WAREHOUSE_LOADER_MAX_MESSAGES, zero means no limit
          MaxFaults,    \* bound: failures, interrupts and kills in a behaviour
          MaxRuns       \* bound: runs of the loader in a behaviour

ASSUME LoaderAssumption ==
    /\ MaxOffset \in Nat
    /\ BatchSize \in Nat \ {0}
    /\ MaxMessages \in Nat
    /\ MaxFaults \in Nat
    /\ MaxRuns \in Nat

Topic  == {"processed", "invalid"}
Offset == 0..(MaxOffset - 1)

\* What becomes of a message: mapper.py rejects an "unmappable" one, and
\* PostgreSQL rejects the row of an "unstorable" one (an integer wider than
\* the column, a NUL character in a text).
Kind == {"ok", "unmappable", "unstorable"}

\* The counters of the final summary, per topic and for failures.
Counter == Topic \cup {"failed"}

VARIABLES
    log,        \* Kafka: what each topic holds
    committed,  \* Kafka: the group's committed offset on each topic
    rows,       \* PostgreSQL: how many committed rows each message has
    tx,         \* PostgreSQL: the same for the open transaction
    conn,       \* the database connection as the loader finds it
    pc,         \* the loader's program point, "off" when no process runs
    caller,     \* the call site of flush_batches: "size", "limit", "idle", "final"
    raising,    \* TRUE iff an exception is leaving main
    exit,       \* how the last run ended
    position,   \* the consumer's next offset on each topic
    batch,      \* processed_batch and invalid_batch, as sets of offsets
    todo,       \* the entries the per-message fallback has still to handle
    consumed,   \* consumed_count
    count,      \* main's counters
    local,      \* flush_batches' own copies of the counters
    dropped,    \* history: messages the loader gave up on and reported as failed
    began,      \* history: the position this run started from
    runs,       \* runs started so far
    faults      \* faults so far

broker   == <<log, committed>>
postgres == <<rows, tx, conn>>
buffers  == <<position, batch, todo>>
counters == <<consumed, count, local>>
history  == <<dropped, began>>
control  == <<pc, caller, raising, exit>>
vars == <<broker, postgres, buffers, counters, history, control, runs, faults>>

Empty  == [t \in Topic |-> {}]
NoRows == [t \in Topic |-> [o \in Offset |-> 0]]
Zero   == [c \in Counter |-> 0]

ProgramPoint == {"off", "connect", "loop", "insert_processed", "insert_invalid",
                 "db_commit", "offsets", "fallback", "one_commit", "one_offset",
                 "returned", "finally", "close", "unwind"}

TypeOK ==
    /\ log \in [Topic -> Seq(Kind)]
    /\ \A t \in Topic : Len(log[t]) <= MaxOffset
    /\ committed \in [Topic -> 0..MaxOffset]
    /\ rows \in [Topic -> [Offset -> Nat]]
    /\ tx \in [Topic -> [Offset -> Nat]]
    /\ conn \in {"none", "ok", "aborted", "lost"}
    /\ pc \in ProgramPoint
    /\ caller \in {"none", "size", "limit", "idle", "final"}
    /\ raising \in BOOLEAN
    /\ exit \in {"none", "zero", "nonzero", "killed"}
    /\ position \in [Topic -> 0..MaxOffset]
    /\ batch \in [Topic -> SUBSET Offset]
    /\ todo \in [Topic -> SUBSET Offset]
    /\ consumed \in Nat
    /\ count \in [Counter -> Nat]
    /\ local \in [Counter -> Nat]
    /\ dropped \in [Topic -> SUBSET Offset]
    /\ began \in [Topic -> 0..MaxOffset]
    /\ runs \in 0..MaxRuns
    /\ faults \in 0..MaxFaults

-----------------------------------------------------------------------------

KindOf(t, o) == log[t][o + 1]

Buffered(b) == Cardinality(b["processed"]) + Cardinality(b["invalid"])

\* The transaction with one more row for every offset of S on topic t.
Insert(t, S) ==
    [tx EXCEPT ![t] = [o \in Offset |-> IF o \in S THEN tx[t][o] + 1 ELSE tx[t][o]]]

\* The table contents once the open transaction is committed.
Durable == [t \in Topic |-> [o \in Offset |-> rows[t][o] + tx[t][o]]]

\* Faulty variants: the offset of the last message itself, and one too many.
OffsetAfter_Last(S, c, n) ==
    IF S = {} THEN n = c ELSE n \in S /\ \A o \in S : o <= n
OffsetAfter_TwoPast(S, c, n) ==
    IF S = {} THEN n = c ELSE n - 2 \in S /\ \A o \in S : o < n - 1

\* n is the offset commit_offsets sends for the messages S of a topic whose
\* committed offset is c: one past the last of them.
OffsetAfter(S, c, n) ==
    IF S = {} THEN n = c ELSE /\ n - 1 \in S
                              /\ \A o \in S : o < n

\* Faulty variant: the fallback pops entries from the end of the lists.
IsNext_LatestFirst(t, o) ==
    /\ o \in todo[t]
    /\ \A q \in todo[t] : q <= o
    /\ t = "invalid" => todo["processed"] = {}

\* The entry the fallback handles next: the processed batch in order, then
\* the invalid batch in order.
IsNext(t, o) ==
    /\ o \in todo[t]
    /\ \A q \in todo[t] : o <= q
    /\ t = "invalid" => todo["processed"] = {}

\* What the fallback has left once this entry is handled.
Handled(t, o) == [todo EXCEPT ![t] = @ \ {o}]

\* Faulty variants: the failure is logged and not counted; it is subtracted.
Failed_Uncounted(n) == n
Failed_Subtracted(n) == [n EXCEPT !["failed"] = @ - 1]

\* failed_count += 1
Failed(n) == [n EXCEPT !["failed"] = @ + 1]

\* One of the behaviour's failures happens in this step.
Fault == faults < MaxFaults /\ faults' = faults + 1

-----------------------------------------------------------------------------

Init ==
    /\ log = [t \in Topic |-> <<>>]
    /\ committed = [t \in Topic |-> 0]
    /\ rows = NoRows
    /\ tx = NoRows
    /\ conn = "none"
    /\ pc = "off"
    /\ caller = "none"
    /\ raising = FALSE
    /\ exit = "none"
    /\ position = [t \in Topic |-> 0]
    /\ batch = Empty
    /\ todo = Empty
    /\ consumed = 0
    /\ count = Zero
    /\ local = Zero
    /\ dropped = Empty
    /\ began = [t \in Topic |-> 0]
    /\ runs = 0
    /\ faults = 0

\* The stream consumer publishes to one of its output topics.
Publish(t, k) ==
    /\ Len(log[t]) < MaxOffset
    /\ log' = [log EXCEPT ![t] = Append(@, k)]
    /\ UNCHANGED <<committed, postgres, buffers, counters, history, control,
                   runs, faults>>

\* A run starts: main creates the consumer and subscribes.  A group without a
\* committed offset starts at the earliest message.
Start ==
    /\ pc = "off" /\ runs < MaxRuns
    /\ runs' = runs + 1
    /\ pc' = "connect"
    /\ caller' = "none" /\ raising' = FALSE /\ exit' = "none"
    /\ position' = committed /\ began' = committed
    /\ batch' = Empty /\ todo' = Empty
    /\ consumed' = 0 /\ count' = Zero /\ local' = Zero
    /\ UNCHANGED <<broker, postgres, dropped, faults>>

\* database.connect, which raises when PostgreSQL is not there.
Connect ==
    /\ pc = "connect"
    /\ \/ /\ conn' = "ok" /\ pc' = "loop"
          /\ UNCHANGED <<raising, faults>>
       \/ /\ Fault
          /\ raising' = TRUE /\ pc' = "finally"
          /\ UNCHANGED conn
    /\ UNCHANGED <<broker, rows, tx, buffers, counters, history, caller, exit, runs>>

-----------------------------------------------------------------------------
(***************************************************************************)
(* The polling loop.                                                       *)
(***************************************************************************)

\* flush_batches is called from site c with batches b and counters n.  With
\* nothing buffered it returns at once.
CallFlush(c, b, n) ==
    /\ caller' = c
    /\ local' = n
    /\ pc' = IF Buffered(b) = 0 THEN "returned" ELSE "insert_processed"

LimitReached == MaxMessages > 0 /\ consumed >= MaxMessages

\* The loop head: the message limit ends the run.
ReachLimit ==
    /\ pc = "loop" /\ LimitReached
    /\ CallFlush("limit", batch, count)
    /\ UNCHANGED <<broker, postgres, buffers, consumed, count, history, raising,
                   exit, runs, faults>>

\* No message for the idle timeout: the run ends.
IdleTimeout ==
    /\ pc = "loop" /\ ~LimitReached
    /\ CallFlush("idle", batch, count)
    /\ UNCHANGED <<broker, postgres, buffers, consumed, count, history, raising,
                   exit, runs, faults>>

\* poll returns an error event, which is counted as a failure.
PollError ==
    /\ pc = "loop" /\ ~LimitReached
    /\ Fault
    /\ count' = Failed(count)
    /\ UNCHANGED <<broker, postgres, buffers, consumed, local, history, control, runs>>

\* poll returns a message.  A message that cannot be mapped is counted and
\* left out; a full buffer is flushed.
Deliver(t) ==
    LET o == position[t]
        mapped == KindOf(t, o) # "unmappable"
    IN  /\ pc = "loop" /\ ~LimitReached
        /\ o < Len(log[t])
        /\ position' = [position EXCEPT ![t] = o + 1]
        /\ consumed' = consumed + 1
        /\ IF mapped
           THEN /\ batch' = [batch EXCEPT ![t] = @ \cup {o}]
                /\ UNCHANGED <<count, dropped>>
           ELSE /\ count' = Failed(count)
                /\ dropped' = [dropped EXCEPT ![t] = @ \cup {o}]
                /\ UNCHANGED batch
        /\ IF Buffered(batch') >= BatchSize
           THEN CallFlush("size", batch', count')
           ELSE UNCHANGED <<pc, caller, local>>
        /\ UNCHANGED <<broker, postgres, todo, began, raising, exit, runs, faults>>

-----------------------------------------------------------------------------
(***************************************************************************)
(* flush_batches: the batch in one transaction.                            *)
(***************************************************************************)

\* Faulty variant: the handler forgets the rollback.
Rollback_Forgotten == tx' = tx /\ conn' = "ok"

\* A statement fails on a live connection: the handler rolls back.
Rollback ==
    /\ tx' = NoRows
    /\ conn' = "ok"

\* Faulty variant: the finally block starts over when its own flush raises.
Raise_StartOver ==
    /\ tx' = NoRows
    /\ conn' = "lost"
    /\ raising' = TRUE
    /\ pc' = "finally"

\* The connection is gone: rollback() raises inside the handler, and the
\* exception leaves flush_batches and the batches stay as they are.  Out of
\* the finally block's own flush nothing catches it.
Raise ==
    /\ tx' = NoRows
    /\ conn' = "lost"
    /\ raising' = TRUE
    /\ pc' = IF caller = "final" THEN "unwind" ELSE "finally"

\* insert_processed_batch and insert_invalid_batch, which skip an empty list.
InsertBatch(t) ==
    /\ pc = IF t = "processed" THEN "insert_processed" ELSE "insert_invalid"
    /\ LET next   == IF t = "processed" THEN "insert_invalid" ELSE "db_commit"
           poison == \E o \in batch[t] : KindOf(t, o) = "unstorable"
       IN \/ /\ batch[t] = {} \/ (conn = "ok" /\ ~poison)
             /\ tx' = Insert(t, batch[t])
             /\ pc' = next
             /\ UNCHANGED <<conn, todo, raising, faults>>
          \/ /\ batch[t] # {} /\ conn # "lost"
             /\ IF poison \/ conn = "aborted" THEN UNCHANGED faults ELSE Fault
             /\ Rollback
             /\ todo' = batch
             /\ pc' = "fallback"
             /\ UNCHANGED raising
          \/ /\ batch[t] # {}
             /\ IF conn = "lost" THEN UNCHANGED faults ELSE Fault
             /\ Raise
             /\ UNCHANGED todo
    /\ UNCHANGED <<broker, rows, position, batch, counters, history, caller, exit, runs>>

\* database.commit for the batch.  When the connection breaks while the
\* commit is under way, PostgreSQL may or may not have applied it.
CommitBatch ==
    /\ pc = "db_commit"
    /\ \/ /\ rows' = Durable /\ tx' = NoRows
          /\ local' = [c \in Counter |-> IF c \in Topic
                                         THEN local[c] + Cardinality(batch[c])
                                         ELSE local[c]]
          /\ pc' = "offsets"
          /\ UNCHANGED <<conn, todo, raising, faults>>
       \/ /\ Fault
          /\ Rollback
          /\ todo' = batch
          /\ pc' = "fallback"
          /\ UNCHANGED <<rows, local, raising>>
       \/ /\ Fault
          /\ rows' \in {rows, Durable}
          /\ Raise
          /\ UNCHANGED <<todo, local>>
    /\ UNCHANGED <<broker, position, batch, consumed, count, history, caller, exit, runs>>

\* commit_offsets for the whole batch.  A call that raises may still have
\* reached the broker; its messages are then counted as failed, although
\* their rows are stored.
CommitBatchOffsets ==
    /\ pc = "offsets"
    /\ \E n \in [Topic -> 0..MaxOffset] :
          /\ \A t \in Topic : OffsetAfter(batch[t], committed[t], n[t])
          /\ \/ /\ committed' = n
                /\ UNCHANGED <<local, faults>>
             \/ /\ Fault
                /\ committed' \in {committed, n}
                /\ local' = [local EXCEPT !["failed"] = @ + Buffered(batch)]
    /\ pc' = "returned"
    /\ UNCHANGED <<log, postgres, buffers, consumed, count, history, caller,
                   raising, exit, runs>>

-----------------------------------------------------------------------------
(***************************************************************************)
(* flush_batches: the fallback, one transaction and one offset commit per  *)
(* message.                                                                *)
(***************************************************************************)

\* Faulty variant: the first failure ends the fallback.
GiveUp_AllLeft(t, o) ==
    /\ local' = Failed(local)
    /\ dropped' = [u \in Topic |-> dropped[u] \cup todo[u]]
    /\ todo' = Empty
    /\ pc' = "fallback"

\* The outer handler of a fallback entry: the message is given up.
GiveUp(t, o) ==
    /\ local' = Failed(local)
    /\ dropped' = [dropped EXCEPT ![t] = @ \cup {o}]
    /\ todo' = Handled(t, o)
    /\ pc' = "fallback"

\* insert_processed or insert_invalid for the next entry.
InsertOne(t, o) ==
    /\ pc = "fallback" /\ IsNext(t, o)
    /\ LET poison == KindOf(t, o) = "unstorable"
       IN \/ /\ ~poison
             /\ tx' = Insert(t, {o})
             /\ pc' = "one_commit"
             /\ UNCHANGED <<conn, raising, todo, local, dropped, faults>>
          \/ /\ IF poison THEN UNCHANGED faults ELSE Fault
             /\ Rollback
             /\ GiveUp(t, o)
             /\ UNCHANGED raising
          \/ /\ Fault
             /\ Raise
             /\ UNCHANGED <<todo, local, dropped>>
    /\ UNCHANGED <<broker, rows, position, batch, consumed, count, began, caller,
                   exit, runs>>

\* database.commit for that entry.
CommitOne(t, o) ==
    /\ pc = "one_commit" /\ IsNext(t, o)
    /\ \/ /\ rows' = Durable /\ tx' = NoRows
          /\ local' = [local EXCEPT ![t] = @ + 1]
          /\ pc' = "one_offset"
          /\ UNCHANGED <<conn, raising, todo, dropped, faults>>
       \/ /\ Fault
          /\ Rollback
          /\ GiveUp(t, o)
          /\ UNCHANGED <<rows, raising>>
       \/ /\ Fault
          /\ rows' \in {rows, Durable}
          /\ Raise
          /\ UNCHANGED <<todo, local, dropped>>
    /\ UNCHANGED <<broker, position, batch, consumed, count, began, caller, exit, runs>>

\* commit_offsets for that entry.
CommitOneOffset(t, o) ==
    /\ pc = "one_offset" /\ IsNext(t, o)
    /\ LET moved == [committed EXCEPT ![t] = o + 1]
       IN \/ /\ committed' = moved
             /\ UNCHANGED <<local, faults>>
          \/ /\ Fault
             /\ committed' \in {committed, moved}
             /\ local' = Failed(local)
    /\ todo' = Handled(t, o)
    /\ pc' = "fallback"
    /\ UNCHANGED <<log, postgres, position, batch, consumed, count, history, caller,
                   raising, exit, runs>>

\* Every entry has been handled.
FallbackDone ==
    /\ pc = "fallback" /\ todo = Empty
    /\ pc' = "returned"
    /\ UNCHANGED <<broker, postgres, buffers, counters, history, caller, raising,
                   exit, runs, faults>>

\* Back in main: the counters are taken over and the batches cleared.
FlushReturned ==
    /\ pc = "returned"
    /\ count' = local
    /\ batch' = Empty
    /\ \/ caller = "size" /\ pc' = "loop"
       \/ caller \in {"limit", "idle"} /\ pc' = "finally"
       \/ caller = "final" /\ pc' = "close"
    /\ UNCHANGED <<broker, postgres, position, todo, consumed, local, history,
                   caller, raising, exit, runs, faults>>

-----------------------------------------------------------------------------
(***************************************************************************)
(* The end of a run.                                                       *)
(***************************************************************************)

\* The finally block flushes what is still buffered.
Finally ==
    /\ pc = "finally"
    /\ IF Buffered(batch) = 0
       THEN /\ pc' = "close"
            /\ UNCHANGED <<caller, local>>
       ELSE CallFlush("final", batch, count)
    /\ UNCHANGED <<broker, postgres, buffers, consumed, count, history, raising,
                   exit, runs, faults>>

\* The process is gone; PostgreSQL discards its open transaction.
Leave(code) ==
    /\ pc' = "off" /\ exit' = code
    /\ tx' = NoRows /\ conn' = "none"
    /\ UNCHANGED <<broker, rows, buffers, counters, history, caller, raising, runs>>

\* consumer.close, which commits nothing, database.close and the exit code.
Close ==
    /\ pc = "close"
    /\ Leave(IF raising \/ count["failed"] # 0 THEN "nonzero" ELSE "zero")
    /\ UNCHANGED faults

\* An exception raised inside the finally block ends the process.
Unwind == pc = "unwind" /\ Leave("nonzero") /\ UNCHANGED faults

\* KeyboardInterrupt, which no handler of the loader catches.  It strikes
\* between two statements, or cancels the one under way, and PostgreSQL then
\* refuses every statement until a rollback.
Interrupt ==
    /\ pc \notin {"off", "unwind"}
    /\ Fault
    /\ raising' = TRUE
    /\ pc' = IF caller = "final" \/ pc \in {"finally", "close"} THEN "unwind" ELSE "finally"
    /\ \/ UNCHANGED <<tx, conn>>
       \/ /\ pc \in {"insert_processed", "insert_invalid", "fallback"}
          /\ conn = "ok"
          /\ conn' = "aborted" /\ tx' = NoRows
    /\ UNCHANGED <<broker, rows, buffers, counters, history, caller, exit, runs>>

\* The process is killed: a signal without a handler, a lost container.
Kill == pc # "off" /\ Fault /\ Leave("killed")

-----------------------------------------------------------------------------

\* The steps the process takes by itself.
LoaderStep ==
    \/ Connect
    \/ ReachLimit
    \/ IdleTimeout
    \/ \E t \in Topic : Deliver(t)
    \/ \E t \in Topic : InsertBatch(t)
    \/ CommitBatch
    \/ CommitBatchOffsets
    \/ \E t \in Topic, o \in Offset : InsertOne(t, o)
    \/ \E t \in Topic, o \in Offset : CommitOne(t, o)
    \/ \E t \in Topic, o \in Offset : CommitOneOffset(t, o)
    \/ FallbackDone
    \/ FlushReturned
    \/ Finally
    \/ Close
    \/ Unwind

Environment ==
    \/ \E t \in Topic, k \in Kind : Publish(t, k)
    \/ Start
    \/ PollError
    \/ Interrupt
    \/ Kill

Next == LoaderStep \/ Environment

Spec == Init /\ [][Next]_vars

\* A process that runs keeps running: its calls return, if only with an error.
FairSpec == Spec /\ WF_vars(LoaderStep)
-----------------------------------------------------------------------------
(***************************************************************************)
(* What the loader guarantees.                                             *)
(***************************************************************************)

Accounted(t, o) == rows[t][o] > 0 \/ o \in dropped[t]

\* No message is lost silently: every message below the group's committed
\* offset has a durable row, or some run counted it as failed.  A later
\* message's commit covers the earlier ones (commit_offsets), so this rests on
\* the order of the fallback and on the finally block's flush.
CommittedAccounted ==
    \A t \in Topic : \A o \in 0..(committed[t] - 1) : Accounted(t, o)

\* A failure costs at most one copy: a message has at most one row more than
\* there were faults, and exactly-once loading holds without faults, whatever
\* the restarts.  The copies come from an offset commit that failed, from a
\* kill between the two commits, and from the finally block's second flush.
DuplicatesBounded ==
    \A t \in Topic, o \in Offset : rows[t][o] <= 1 + faults

\* Exit status zero can be trusted: everything the run consumed is stored, the
\* summary counts exactly it, and the group's offset stands behind all of it.
ExitZeroLoaded ==
    pc = "off" /\ exit = "zero" =>
        /\ committed = position
        /\ \A t \in Topic : \A o \in began[t]..(position[t] - 1) : rows[t][o] > 0
        /\ \A t \in Topic : count[t] = position[t] - began[t]
        /\ consumed = count["processed"] + count["invalid"]

\* One poison message costs only itself: without faults the loader gives up
\* no message that can be mapped and stored, however batches group them.
PoisonIsolated ==
    faults = 0 => \A t \in Topic : \A o \in dropped[t] : KindOf(t, o) # "ok"

\* The loop never polls inside a transaction left open or aborted: rows that a
\* later batch's commit would make durable although the loader gave them up.
NoOpenTransactionAtPoll == pc = "loop" => tx = NoRows /\ conn = "ok"

\* The group's offset never retreats in a run that no exception is ending.  (It
\* does when an interrupt makes the finally block flush a batch again, message
\* by message, whose offsets were already committed.)
OffsetsRetreatOnlyInFinalFlush ==
    [][(\E t \in Topic : committed'[t] < committed[t])
         => raising /\ caller = "final"]_vars

\* The loader implements at-least-once loading (module AtLeastOnceLoad).
AtLeastOnce == INSTANCE AtLeastOnceLoad
ImplementsAtLeastOnce == AtLeastOnce!Spec

\* Every run ends: by the limit, the idle timeout, an exception or a kill.
RunEnds == pc # "off" ~> pc = "off"
=============================================================================
