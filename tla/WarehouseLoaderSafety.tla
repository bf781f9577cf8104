------------------------ MODULE WarehouseLoaderSafety ------------------------
(***************************************************************************)
(* Proofs about the warehouse loader beyond the loss of messages (module   *)
(* WarehouseLoaderProofs): the open transaction, the refinement of         *)
(* at-least-once loading, poison messages, the order of offset commits,    *)
(* the meaning of exit status zero, the bound on duplicate rows, and what  *)
(* brings a run to its end.                                                *)
(***************************************************************************)
EXTENDS WarehouseLoaderProofs, WellFoundedInduction

-----------------------------------------------------------------------------
(***************************************************************************)
(* Where control may be, and the open transaction.                         *)
(***************************************************************************)

\* The program points inside flush_batches.
FlushPoint == {"insert_processed", "insert_invalid", "db_commit", "offsets",
               "fallback", "one_commit", "one_offset", "returned"}

\* The program points between an insert and the commit of its transaction.
OpenPoint == {"insert_invalid", "db_commit", "one_commit"}

\* While an exception is leaving main, only the finally block's flush runs, and
\* that flush runs for no other reason: a regular end has an empty buffer.
FlowOK ==
    /\ pc \in FlushPoint => (raising <=> caller = "final")
    /\ pc \in {"connect", "loop"} => ~raising
    /\ pc \in {"connect", "loop", "finally"} => caller # "final"

\* A run that no exception is ending reaches the finally block with nothing
\* buffered.
IdleOK == pc \in {"finally", "close"} /\ ~raising => batch = Empty

\* flush_batches goes to work only with something buffered.
FlushHasWork == pc \in FlushPoint \ {"returned"} => Buffered(batch) # 0

\* Without an exception the connection is good, and a transaction is open only
\* between an insert and its commit.
TransactionOK ==
    /\ pc \in {"off", "connect"} => tx = NoRows /\ conn = "none"
    /\ pc \notin {"off", "connect"} /\ ~raising => conn = "ok"
    /\ pc \notin OpenPoint /\ ~raising => tx = NoRows

FlowInv == FlowOK /\ IdleOK /\ FlushHasWork /\ TransactionOK

\* Nothing is inserted for an empty batch.
LEMMA InsertNothing ==
    ASSUME TypeOK, NEW t \in Topic
    PROVE  Insert(t, {}) = tx
BY DEF Insert, TypeOK

\* An empty buffer has size zero.
LEMMA EmptySize == Buffered(Empty) = 0
BY FS_EmptySet DEF Buffered, Empty, Topic

LEMMA FlowInvStep == TypeOK /\ FlowInv /\ [Next]_vars => FlowInv'
<1> SUFFICES ASSUME TypeOK, FlowInv, [Next]_vars
             PROVE  FlowInv'
  OBVIOUS
<1> USE DEF FlowInv, FlowOK, IdleOK, FlushHasWork, TransactionOK, FlushPoint, OpenPoint
<1> USE DEF broker, postgres, buffers, counters, history, control
<1>0. raising \in BOOLEAN /\ batch \in [Topic -> SUBSET Offset]
  BY DEF TypeOK
<1>1. ASSUME NEW t \in Topic, NEW k \in Kind, Publish(t, k)
      PROVE  FlowInv'
  BY <1>1 DEF Publish
<1>2. CASE Start
  BY <1>2 DEF Start
<1>3. CASE Connect
  BY <1>3 DEF Connect
<1>4. CASE ReachLimit
  BY <1>4 DEF ReachLimit, CallFlush
<1>5. CASE IdleTimeout
  BY <1>5 DEF IdleTimeout, CallFlush
<1>6. CASE PollError
  BY <1>6 DEF PollError
<1>7. ASSUME NEW t \in Topic, Deliver(t)
      PROVE  FlowInv'
  <2>1. \/ UNCHANGED <<pc, caller>>
        \/ CallFlush("size", batch', count')
    BY <1>7 DEF Deliver
  <2>2. pc = "loop" /\ UNCHANGED <<tx, conn, raising>>
    BY <1>7 DEF Deliver
  <2>3. QED
    BY <2>1, <2>2 DEF CallFlush
<1>8. ASSUME NEW t \in Topic, InsertBatch(t)
      PROVE  FlowInv'
  <2>1. UNCHANGED <<batch, caller>>
    BY <1>8 DEF InsertBatch
  <2>2. QED
    BY <1>8, <2>1 DEF InsertBatch, Rollback, Raise, Topic
<1>9. CASE CommitBatch
  BY <1>9 DEF CommitBatch, Rollback, Raise
<1>10. CASE CommitBatchOffsets
  BY <1>10 DEF CommitBatchOffsets
<1>11. ASSUME NEW t \in Topic, NEW o \in Offset, InsertOne(t, o)
       PROVE  FlowInv'
  BY <1>11 DEF InsertOne, GiveUp, Rollback, Raise
<1>12. ASSUME NEW t \in Topic, NEW o \in Offset, CommitOne(t, o)
       PROVE  FlowInv'
  BY <1>12 DEF CommitOne, GiveUp, Rollback, Raise
<1>13. ASSUME NEW t \in Topic, NEW o \in Offset, CommitOneOffset(t, o)
       PROVE  FlowInv'
  BY <1>13 DEF CommitOneOffset
<1>14. CASE FallbackDone
  BY <1>14 DEF FallbackDone
<1>15. CASE FlushReturned
  BY <1>15 DEF FlushReturned
<1>16. CASE Finally
  BY <1>16, EmptySize DEF Finally, CallFlush
<1>17. CASE Close
  BY <1>17 DEF Close, Leave
<1>18. CASE Unwind
  BY <1>18 DEF Unwind, Leave
<1>19. CASE Interrupt
  BY <1>19 DEF Interrupt
<1>20. CASE Kill
  BY <1>20 DEF Kill, Leave
<1>21. CASE UNCHANGED vars
  BY <1>21 DEF vars
<1>22. QED
  BY <1>1, <1>2, <1>3, <1>4, <1>5, <1>6, <1>7, <1>8, <1>9, <1>10, <1>11, <1>12, <1>13,
     <1>14, <1>15, <1>16, <1>17, <1>18, <1>19, <1>20, <1>21
  DEF Next, LoaderStep, Environment

LEMMA FlowInvInit == Init => FlowInv
BY DEF Init, FlowInv, FlowOK, IdleOK, FlushHasWork, TransactionOK, FlushPoint

\* The loop never polls inside a transaction that is open or aborted, whatever
\* failed in the flushes before it.
THEOREM PollsOutsideTransactions == Spec => []NoOpenTransactionAtPoll
<1>1. FlowInv => NoOpenTransactionAtPoll
  BY DEF FlowInv, FlowOK, TransactionOK, OpenPoint, NoOpenTransactionAtPoll
<1>2. QED
  BY <1>1, TypeInvariant, FlowInvInit, FlowInvStep, PTL DEF Spec
-----------------------------------------------------------------------------
(***************************************************************************)
(* What the rows, the failure reports and the offsets stand for: messages  *)
(* that were published.                                                    *)
(***************************************************************************)

\* Message o of topic t is published and mapper.py accepts it.
Mapped(t, o) == o < Len(log[t]) /\ KindOf(t, o) # "unmappable"

\* Message o of topic t is published, and PostgreSQL can hold its row.
Storable(t, o) == o < Len(log[t]) /\ KindOf(t, o) = "ok"

\* The loader never runs ahead of its topics, buffers nothing it could not map,
\* and has rows only of messages that PostgreSQL can hold.
SourceInv ==
    /\ \A t \in Topic : committed[t] <= Len(log[t]) /\ position[t] <= Len(log[t])
    /\ \A t \in Topic : \A o \in batch[t] : Mapped(t, o)
    /\ \A t \in Topic : \A o \in dropped[t] : o < Len(log[t])
    /\ \A t \in Topic, o \in Offset :
          rows[t][o] > 0 \/ tx[t][o] > 0 => Storable(t, o)

\* What every step does to the topics: it keeps each message where it is.
LEMMA LogStep ==
    ASSUME TypeOK, [Next]_vars, NEW u \in Topic
    PROVE  /\ Len(log[u]) \in Nat /\ Len(log'[u]) \in Nat
           /\ Len(log[u]) <= Len(log'[u])
           /\ \A o \in Offset : o < Len(log[u]) => log'[u][o + 1] = log[u][o + 1]
<1>1. \A t \in Topic : log[t] \in Seq(Kind)
  BY DEF TypeOK
<1>2. \/ log' = log
      \/ \E t \in Topic, k \in Kind : log' = [log EXCEPT ![t] = Append(@, k)]
  BY DEF Next, LoaderStep, Environment, vars, broker, postgres, buffers, counters,
         history, control, Publish, Start, Connect, ReachLimit, IdleTimeout, PollError,
         Deliver, InsertBatch, CommitBatch, CommitBatchOffsets, InsertOne, CommitOne,
         CommitOneOffset, FallbackDone, FlushReturned, Finally, Leave, Close, Unwind,
         Interrupt, Kill
<1>3. CASE log' = log
  BY <1>1, <1>3
<1>4. ASSUME NEW t \in Topic, NEW k \in Kind, log' = [log EXCEPT ![t] = Append(@, k)]
      PROVE  \/ log'[u] = log[u]
             \/ log'[u] = Append(log[u], k)
  BY <1>4 DEF TypeOK
<1>5. ASSUME NEW k \in Kind, log'[u] = Append(log[u], k)
      PROVE  /\ Len(log'[u]) = Len(log[u]) + 1
             /\ \A o \in Offset : o < Len(log[u]) => log'[u][o + 1] = log[u][o + 1]
  <2>1. log[u] \in Seq(Kind)
    BY <1>1
  <2>2. Len(log'[u]) = Len(log[u]) + 1
    BY <2>1, <1>5
  <2>3. \A i \in 1..Len(log[u]) : log'[u][i] = log[u][i]
    BY <2>1, <1>5
  <2>4. \A o \in Offset : o < Len(log[u]) => o + 1 \in 1..Len(log[u])
    BY <2>1, LoaderAssumption DEF Offset
  <2>5. QED
    BY <2>2, <2>3, <2>4
<1>6. QED
  BY <1>1, <1>2, <1>3, <1>4, <1>5

LEMMA MessagesKept ==
    ASSUME TypeOK, [Next]_vars, NEW t \in Topic, NEW o \in Offset
    PROVE  /\ Mapped(t, o) => Mapped(t, o)'
           /\ Storable(t, o) => Storable(t, o)'
           /\ o < Len(log[t]) => o < Len(log'[t])
<1>1. o \in Int
  BY LoaderAssumption DEF Offset
<1>2. QED
  BY <1>1, LogStep DEF Mapped, Storable, KindOf

\* What every step does to the buffers: it keeps them, clears them or adds the
\* message delivered.
LEMMA BatchStep ==
    ASSUME [Next]_vars
    PROVE  \/ batch' = batch \/ batch' = Empty
           \/ \E t \in Topic : /\ Deliver(t)
                               /\ KindOf(t, position[t]) # "unmappable"
                               /\ batch' = [batch EXCEPT ![t] = @ \cup {position[t]}]
BY DEF Next, LoaderStep, Environment, vars, broker, postgres, buffers, counters,
       history, control, Publish, Start, Connect, ReachLimit, IdleTimeout, PollError,
       Deliver, InsertBatch, CommitBatch, CommitBatchOffsets, InsertOne, CommitOne,
       CommitOneOffset, FallbackDone, FlushReturned, Finally, Leave, Close, Unwind,
       Interrupt, Kill

\* What every step does to the open transaction.
LEMMA TransactionStep ==
    ASSUME [Next]_vars
    PROVE  \/ tx' = tx \/ tx' = NoRows
           \/ \E t \in Topic :
                 /\ InsertBatch(t) /\ tx' = Insert(t, batch[t])
                 /\ \A o \in batch[t] : KindOf(t, o) # "unstorable"
           \/ \E t \in Topic, o \in Offset :
                 /\ InsertOne(t, o) /\ tx' = Insert(t, {o})
                 /\ KindOf(t, o) # "unstorable"
BY DEF Next, LoaderStep, Environment, vars, broker, postgres, buffers, counters,
       history, control, Publish, Start, Connect, ReachLimit, IdleTimeout, PollError,
       Deliver, InsertBatch, CommitBatch, CommitBatchOffsets, InsertOne, CommitOne,
       CommitOneOffset, FallbackDone, FlushReturned, Finally, Leave, Close, Unwind,
       Interrupt, Kill, Rollback, Raise

\* What every step does to the failure reports.
LEMMA ReportStep ==
    ASSUME [Next]_vars
    PROVE  \/ dropped' = dropped
           \/ \E t \in Topic :
                 /\ Deliver(t) /\ KindOf(t, position[t]) = "unmappable"
                 /\ dropped' = [dropped EXCEPT ![t] = @ \cup {position[t]}]
           \/ \E t \in Topic, o \in Offset :
                 /\ InsertOne(t, o) \/ CommitOne(t, o)
                 /\ KindOf(t, o) = "unstorable" \/ Fault
                 /\ dropped' = [dropped EXCEPT ![t] = @ \cup {o}]
BY DEF Next, LoaderStep, Environment, vars, broker, postgres, buffers, counters,
       history, control, Publish, Start, Connect, ReachLimit, IdleTimeout, PollError,
       Deliver, InsertBatch, CommitBatch, CommitBatchOffsets, InsertOne, CommitOne,
       CommitOneOffset, FallbackDone, FlushReturned, Finally, Leave, Close, Unwind,
       Interrupt, Kill, GiveUp

\* What every step does to the position.
LEMMA PositionStep ==
    ASSUME [Next]_vars
    PROVE  \/ position' = position
           \/ Start /\ position' = committed
           \/ \E t \in Topic : /\ Deliver(t)
                               /\ position[t] < Len(log[t])
                               /\ position' = [position EXCEPT ![t] = position[t] + 1]
BY DEF Next, LoaderStep, Environment, vars, broker, postgres, buffers, counters,
       history, control, Publish, Start, Connect, ReachLimit, IdleTimeout, PollError,
       Deliver, InsertBatch, CommitBatch, CommitBatchOffsets, InsertOne, CommitOne,
       CommitOneOffset, FallbackDone, FlushReturned, Finally, Leave, Close, Unwind,
       Interrupt, Kill

\* What every step does to the group's offsets: they move only to one past a
\* message that flush_batches holds.
LEMMA OffsetStep ==
    ASSUME [Next]_vars
    PROVE  \/ committed' = committed
           \/ /\ CommitBatchOffsets
              /\ committed' \in [Topic -> 0..MaxOffset]
              /\ \A t \in Topic : OffsetAfter(batch[t], committed[t], committed'[t])
           \/ \E t \in Topic, o \in Offset :
                 /\ CommitOneOffset(t, o)
                 /\ committed' = [committed EXCEPT ![t] = o + 1]
BY DEF Next, LoaderStep, Environment, vars, broker, postgres, buffers, counters,
       history, control, Publish, Start, Connect, ReachLimit, IdleTimeout, PollError,
       Deliver, InsertBatch, CommitBatch, CommitBatchOffsets, InsertOne, CommitOne,
       CommitOneOffset, FallbackDone, FlushReturned, Finally, Leave, Close, Unwind,
       Interrupt, Kill
\* poll delivers a published message.
LEMMA DeliveredPublished ==
    ASSUME TypeOK, NEW t \in Topic, Deliver(t)
    PROVE  position[t] \in Offset /\ position[t] < Len(log[t])
<1>1. /\ position[t] \in 0..MaxOffset
      /\ log[t] \in Seq(Kind) /\ Len(log[t]) <= MaxOffset
  BY DEF TypeOK
<1>2. position[t] < Len(log[t])
  BY DEF Deliver
<1>3. QED
  BY <1>1, <1>2, LoaderAssumption DEF Offset

\* A fallback entry is a buffered message.
LEMMA EntryBuffered ==
    ASSUME LoadInv, NEW t \in Topic, NEW o \in Offset,
           InsertOne(t, o) \/ CommitOne(t, o) \/ CommitOneOffset(t, o)
    PROVE  o \in todo[t] /\ o \in batch[t]
<1>1. pc \in {"fallback", "one_commit", "one_offset"} /\ o \in todo[t]
  BY DEF InsertOne, CommitOne, CommitOneOffset, IsNext
<1>2. QED
  BY <1>1 DEF LoadInv, FallbackAccounted

LEMMA SourceInvInit == Init => SourceInv
<1> SUFFICES ASSUME Init PROVE SourceInv
  OBVIOUS
<1>1. \A t \in Topic : /\ committed[t] = 0 /\ position[t] = 0 /\ Len(log[t]) = 0
                       /\ batch[t] = {} /\ dropped[t] = {}
                       /\ \A o \in Offset : rows[t][o] = 0 /\ tx[t][o] = 0
  BY DEF Init, Empty, NoRows
<1>2. QED
  BY <1>1 DEF SourceInv

LEMMA SourceInvStep == LoadInv /\ SourceInv /\ [Next]_vars => SourceInv'
<1> SUFFICES ASSUME LoadInv, SourceInv, [Next]_vars
             PROVE  SourceInv'
  OBVIOUS
<1>t. TypeOK /\ TypeOK'
  BY TypeStep DEF LoadInv
<1>kept. \A t \in Topic, o \in Offset :
            /\ Mapped(t, o) => Mapped(t, o)'
            /\ Storable(t, o) => Storable(t, o)'
            /\ o < Len(log[t]) => o < Len(log'[t])
  BY <1>t, MessagesKept
<1>len. \A t \in Topic : /\ Len(log[t]) \in Nat /\ Len(log'[t]) \in Nat
                         /\ Len(log[t]) <= Len(log'[t])
  BY <1>t, LogStep
<1>rng. \A t \in Topic : /\ committed[t] \in Nat /\ position[t] \in Nat
                         /\ batch[t] \subseteq Offset /\ dropped[t] \subseteq Offset
  BY <1>t, LoaderAssumption DEF TypeOK
<1>off. Offset \subseteq Nat
  BY LoaderAssumption DEF Offset
<1>src. \A t \in Topic : /\ committed[t] <= Len(log[t]) /\ position[t] <= Len(log[t])
                         /\ \A o \in batch[t] : Mapped(t, o)
                         /\ \A o \in dropped[t] : o < Len(log[t])
                         /\ \A o \in Offset :
                               rows[t][o] > 0 \/ tx[t][o] > 0 => Storable(t, o)
  BY DEF SourceInv
<1>1. \A t \in Topic : committed'[t] <= Len(log'[t])
  <2> SUFFICES ASSUME NEW t \in Topic
               PROVE  committed'[t] <= Len(log[t]) /\ committed'[t] \in Nat
    BY <1>len
  <2>0. committed'[t] \in Nat
    BY <1>t, LoaderAssumption DEF TypeOK
  <2>1. CASE committed' = committed
    BY <2>0, <2>1, <1>src
  <2>2. ASSUME OffsetAfter(batch[t], committed[t], committed'[t])
        PROVE  committed'[t] <= Len(log[t])
    <3>1. \/ committed'[t] = committed[t]
          \/ committed'[t] - 1 \in batch[t]
      BY <2>2 DEF OffsetAfter
    <3>2. committed'[t] - 1 \in batch[t] => committed'[t] - 1 < Len(log[t])
      BY <1>src DEF Mapped
    <3>3. QED
      BY <3>1, <3>2, <2>0, <1>src, <1>len
  <2>3. ASSUME NEW u \in Topic, NEW o \in Offset, CommitOneOffset(u, o),
               committed' = [committed EXCEPT ![u] = o + 1]
        PROVE  committed'[t] <= Len(log[t])
    <3>1. o < Len(log[u]) /\ o \in Nat
      BY <2>3, <1>src, <1>off, EntryBuffered DEF Mapped
    <3>2. committed'[t] = IF t = u THEN o + 1 ELSE committed[t]
      BY <2>3, <1>t DEF TypeOK
    <3>3. QED
      BY <3>1, <3>2, <1>src, <1>len
  <2>4. QED
    BY <2>0, <2>1, <2>2, <2>3, OffsetStep
<1>2. \A t \in Topic : position'[t] <= Len(log'[t])
  <2> SUFFICES ASSUME NEW t \in Topic
               PROVE  position'[t] <= Len(log[t]) /\ position'[t] \in Nat
    BY <1>len
  <2>0. position'[t] \in Nat
    BY <1>t, LoaderAssumption DEF TypeOK
  <2>1. CASE position' = position \/ position' = committed
    BY <2>0, <2>1, <1>src
  <2>2. ASSUME NEW u \in Topic, position[u] < Len(log[u]),
               position' = [position EXCEPT ![u] = position[u] + 1]
        PROVE  position'[t] <= Len(log[t])
    <3>1. position'[t] = IF t = u THEN position[u] + 1 ELSE position[t]
      BY <2>2, <1>t DEF TypeOK
    <3>2. QED
      BY <3>1, <2>2, <1>src, <1>len, <1>rng
  <2>3. QED
    BY <2>0, <2>1, <2>2, PositionStep
<1>3. \A t \in Topic : \A o \in batch'[t] : Mapped(t, o)'
  <2>1. CASE batch' = batch \/ batch' = Empty
    BY <2>1, <1>src, <1>kept, <1>rng DEF Empty
  <2>2. ASSUME NEW u \in Topic, Deliver(u), KindOf(u, position[u]) # "unmappable",
               batch' = [batch EXCEPT ![u] = @ \cup {position[u]}],
               NEW t \in Topic, NEW o \in batch'[t]
        PROVE  Mapped(t, o)'
    <3>1. o \in batch[t] \/ (t = u /\ o = position[u])
      BY <2>2, <1>t DEF TypeOK
    <3>2. Mapped(u, position[u]) /\ position[u] \in Offset
      BY <2>2, <1>t, DeliveredPublished DEF Mapped
    <3>3. QED
      BY <3>1, <3>2, <1>src, <1>kept, <1>rng
  <2>3. QED
    BY <2>1, <2>2, BatchStep
<1>4. \A t \in Topic : \A o \in dropped'[t] : o < Len(log'[t])
  <2>1. CASE dropped' = dropped
    BY <2>1, <1>src, <1>kept, <1>rng
  <2>2. ASSUME NEW u \in Topic, NEW q \in Offset, q < Len(log[u]),
               dropped' = [dropped EXCEPT ![u] = @ \cup {q}],
               NEW t \in Topic, NEW o \in dropped'[t]
        PROVE  o < Len(log'[t])
    <3>1. o \in dropped[t] \/ (t = u /\ o = q)
      BY <2>2, <1>t DEF TypeOK
    <3>2. QED
      BY <3>1, <2>2, <1>src, <1>kept, <1>rng
  <2>3. \A u \in Topic : Deliver(u) => position[u] \in Offset /\ position[u] < Len(log[u])
    BY <1>t, DeliveredPublished
  <2>4. \A u \in Topic, q \in Offset :
           InsertOne(u, q) \/ CommitOne(u, q) => q < Len(log[u])
    BY <1>src, EntryBuffered DEF Mapped
  <2>5. QED
    BY <2>1, <2>2, <2>3, <2>4, ReportStep
<1>5. \A t \in Topic, o \in Offset : rows'[t][o] > 0 => Storable(t, o)'
  <2> SUFFICES ASSUME NEW t \in Topic, NEW o \in Offset, rows'[t][o] > 0
               PROVE  Storable(t, o)
    BY <1>kept
  <2>1. rows'[t][o] = rows[t][o] \/ rows'[t][o] = rows[t][o] + tx[t][o]
    BY <1>t, RowsStep, DurableGrows
  <2>2. rows[t][o] > 0 \/ tx[t][o] > 0
    BY <2>1, <1>t, DurableGrows
  <2>3. QED
    BY <2>2, <1>src
<1>6. \A t \in Topic, o \in Offset : tx'[t][o] > 0 => Storable(t, o)'
  <2> SUFFICES ASSUME NEW t \in Topic, NEW o \in Offset, tx'[t][o] > 0
               PROVE  Storable(t, o)
    BY <1>kept
  <2>1. CASE tx' = tx
    BY <2>1, <1>src
  <2>2. CASE tx' = NoRows
    BY <2>2 DEF NoRows
  <2>3. ASSUME NEW u \in Topic, NEW S \in SUBSET Offset, tx' = Insert(u, S),
               \A q \in S : q \in batch[u] /\ KindOf(u, q) # "unstorable"
        PROVE  Storable(t, o)
    <3>1. tx'[t][o] = tx[t][o] \/ (t = u /\ o \in S)
      BY <2>3, <1>t DEF Insert, TypeOK
    <3>2. CASE t = u /\ o \in S
      <4>1. Mapped(t, o) /\ KindOf(t, o) # "unstorable"
        BY <3>2, <2>3, <1>src
      <4>2. KindOf(t, o) \in Kind
        <5>1. log[t] \in Seq(Kind) /\ o + 1 \in 1..Len(log[t])
          BY <4>1, <1>t, <1>off, <1>len DEF Mapped, TypeOK
        <5>2. QED
          BY <5>1 DEF KindOf
      <4>3. QED
        BY <4>1, <4>2 DEF Mapped, Storable, Kind
    <3>3. QED
      BY <3>1, <3>2, <1>src
  <2>4. ASSUME NEW u \in Topic, tx' = Insert(u, batch[u]),
               \A q \in batch[u] : KindOf(u, q) # "unstorable"
        PROVE  Storable(t, o)
    BY <2>3, <2>4, <1>rng
  <2>5. ASSUME NEW u \in Topic, NEW q \in Offset, InsertOne(u, q), tx' = Insert(u, {q}),
               KindOf(u, q) # "unstorable"
        PROVE  Storable(t, o)
    BY <2>3, <2>5, EntryBuffered
  <2>6. QED
    BY <2>1, <2>2, <2>4, <2>5, TransactionStep
<1>7. QED
  BY <1>1, <1>2, <1>3, <1>4, <1>5, <1>6 DEF SourceInv

LEMMA SourceInvariant == Spec => [](TypeOK /\ LoadInv /\ FlowInv /\ SourceInv)
<1>1. LoadInv => TypeOK
  BY DEF LoadInv
<1>2. QED
  BY <1>1, LoadInvInit, LoadInvStep, FlowInvInit, FlowInvStep, SourceInvInit,
     SourceInvStep, PTL DEF Spec

-----------------------------------------------------------------------------
(***************************************************************************)
(* The loader implements at-least-once loading.                            *)
(***************************************************************************)

\* Of what the abstract specification shows, a step changes one variable.
LEMMA OneVisibleChange ==
    ASSUME [Next]_vars
    PROVE  \/ /\ \E t \in Topic, k \in Kind : Publish(t, k)
              /\ UNCHANGED <<committed, rows, dropped>>
           \/ UNCHANGED <<log, committed, dropped>>
           \/ UNCHANGED <<log, rows, dropped>>
           \/ UNCHANGED <<log, committed, rows>>
BY DEF Next, LoaderStep, Environment, vars, broker, postgres, buffers, counters,
       history, control, Publish, Start, Connect, ReachLimit, IdleTimeout, PollError,
       Deliver, InsertBatch, CommitBatch, CommitBatchOffsets, InsertOne, CommitOne,
       CommitOneOffset, FallbackDone, FlushReturned, Finally, Leave, Close, Unwind,
       Interrupt, Kill

LEMMA LoaderSimulates ==
    ASSUME LoadInv, SourceInv, [Next]_vars
    PROVE  [AtLeastOnce!Next]_(AtLeastOnce!vars)
<1> USE DEF AtLeastOnce!Topic, AtLeastOnce!Offset, AtLeastOnce!Kind
<1>t. TypeOK /\ TypeOK' /\ LoadInv' /\ SourceInv'
  BY TypeStep, LoadInvStep, SourceInvStep DEF LoadInv
<1>1. CASE /\ \E t \in Topic, k \in Kind : Publish(t, k)
           /\ UNCHANGED <<committed, rows, dropped>>
  <2>1. PICK t \in Topic, k \in Kind : Publish(t, k)
    BY <1>1
  <2>2. AtLeastOnce!Publish(t, k)
    BY <1>1, <2>1 DEF Publish, AtLeastOnce!Publish
  <2>3. QED
    BY <2>2 DEF AtLeastOnce!Next, Topic, Kind
<1>2. CASE UNCHANGED <<log, committed, dropped>>
  <2>1. ASSUME NEW t \in Topic, NEW o \in Offset
        PROVE  \/ rows'[t][o] = rows[t][o]
               \/ /\ rows'[t][o] > rows[t][o]
                  /\ o < Len(log[t])
                  /\ log[t][o + 1] = "ok"
    <3>1. rows'[t][o] = rows[t][o] \/ rows'[t][o] = rows[t][o] + tx[t][o]
      BY <1>t, RowsStep, DurableGrows
    <3>2. tx[t][o] > 0 => Storable(t, o)
      BY DEF SourceInv
    <3>3. QED
      BY <3>1, <3>2, <1>t, DurableGrows DEF Storable, KindOf
  <2>2. rows' \in [Topic -> [Offset -> Nat]]
    BY <1>t DEF TypeOK
  <2>3. AtLeastOnce!Store
    BY <1>2, <2>1, <2>2 DEF AtLeastOnce!Store, Topic, Offset
  <2>4. QED
    BY <2>3 DEF AtLeastOnce!Next
<1>3. CASE UNCHANGED <<log, rows, dropped>>
  <2>1. committed' \in [Topic -> 0..MaxOffset]
    BY <1>t DEF TypeOK
  <2>2. \A t \in Topic : \A o \in 0..(committed'[t] - 1) : Accounted(t, o)'
    BY <1>t DEF LoadInv, CommittedAccounted
  <2>3. \A t \in Topic : \A o \in 0..(committed'[t] - 1) : AtLeastOnce!Accounted(t, o)
    BY <1>3, <2>2 DEF Accounted, AtLeastOnce!Accounted
  <2>4. AtLeastOnce!Acknowledge
    BY <1>3, <2>1, <2>3 DEF AtLeastOnce!Acknowledge, Topic
  <2>5. QED
    BY <2>4 DEF AtLeastOnce!Next
<1>4. CASE UNCHANGED <<log, committed, rows>>
  <2>1. CASE dropped' = dropped
    BY <1>4, <2>1 DEF AtLeastOnce!vars
  <2>2. ASSUME NEW t \in Topic, NEW o \in Offset, o < Len(log[t]),
               dropped' = [dropped EXCEPT ![t] = @ \cup {o}]
        PROVE  AtLeastOnce!Next
    <3>1. AtLeastOnce!GiveUp(t, o)
      BY <1>4, <2>2 DEF AtLeastOnce!GiveUp
    <3>2. QED
      BY <3>1 DEF AtLeastOnce!Next, Topic, Offset
  <2>3. \A t \in Topic : Deliver(t) => position[t] \in Offset /\ position[t] < Len(log[t])
    BY <1>t, DeliveredPublished
  <2>4. \A t \in Topic, o \in Offset :
           InsertOne(t, o) \/ CommitOne(t, o) => o < Len(log[t])
    BY EntryBuffered DEF SourceInv, Mapped
  <2>5. QED
    BY <2>1, <2>2, <2>3, <2>4, ReportStep
<1>5. QED
  BY <1>1, <1>2, <1>3, <1>4, OneVisibleChange

\* Whatever fails and however often the loader is started, what can be seen of
\* it (topics, offsets, rows, failure reports) is a behaviour of at-least-once
\* loading: only messages that were published and that PostgreSQL can hold
\* become rows, none of them goes away, only published messages are given up,
\* and the offsets move only to where everything below is accounted for.
THEOREM LoaderImplementsAtLeastOnce == Spec => ImplementsAtLeastOnce
<1>1. Init => AtLeastOnce!Init
  BY DEF Init, AtLeastOnce!Init, NoRows, Empty, Topic, Offset, AtLeastOnce!Topic,
         AtLeastOnce!Offset
<1>2. LoadInv /\ SourceInv /\ [Next]_vars => [AtLeastOnce!Next]_(AtLeastOnce!vars)
  BY LoaderSimulates
<1>3. QED
  BY <1>1, <1>2, SourceInvariant, PTL DEF Spec, ImplementsAtLeastOnce, AtLeastOnce!Spec

-----------------------------------------------------------------------------
(***************************************************************************)
(* Poison messages.                                                        *)
(***************************************************************************)

\* The number of faults only grows.
LEMMA FaultsStep ==
    ASSUME TypeOK, [Next]_vars
    PROVE  faults' = faults \/ (Fault /\ faults' > 0)
<1>1. faults' = faults \/ Fault
  BY DEF Next, LoaderStep, Environment, vars, broker, postgres, buffers, counters,
         history, control, Publish, Start, Connect, ReachLimit, IdleTimeout, PollError,
         Deliver, InsertBatch, CommitBatch, CommitBatchOffsets, InsertOne, CommitOne,
         CommitOneOffset, FallbackDone, FlushReturned, Finally, Leave, Close, Unwind,
         Interrupt, Kill
<1>2. QED
  BY <1>1 DEF Fault, TypeOK

LEMMA PoisonStep == LoadInv /\ SourceInv /\ PoisonIsolated /\ [Next]_vars => PoisonIsolated'
<1> SUFFICES ASSUME LoadInv, SourceInv, PoisonIsolated, [Next]_vars, faults' = 0,
                    NEW t \in Topic, NEW o \in dropped'[t]
             PROVE  KindOf(t, o)' # "ok"
  BY DEF PoisonIsolated
<1>t. TypeOK
  BY DEF LoadInv
<1>0. faults = 0 /\ ~Fault
  BY <1>t, FaultsStep DEF Fault, TypeOK
<1>1. \A u \in Topic, q \in Offset : q < Len(log[u]) => KindOf(u, q)' = KindOf(u, q)
  BY <1>t, LogStep DEF KindOf
<1>2. CASE o \in dropped[t]
  BY <1>0, <1>1, <1>2, <1>t DEF SourceInv, PoisonIsolated, TypeOK
<1>3. ASSUME NEW u \in Topic, NEW q \in Offset, q < Len(log[u]), KindOf(u, q) # "ok",
             dropped' = [dropped EXCEPT ![u] = @ \cup {q}]
      PROVE  KindOf(t, o)' # "ok"
  <2>1. o \in dropped[t] \/ (t = u /\ o = q)
    BY <1>3, <1>t DEF TypeOK
  <2>2. KindOf(u, q)' # "ok"
    BY <1>1, <1>3
  <2>3. CASE t = u /\ o = q
    BY <2>2, <2>3
  <2>4. QED
    BY <2>1, <2>3, <1>2
<1>4. \A u \in Topic : Deliver(u) => position[u] \in Offset /\ position[u] < Len(log[u])
  BY <1>t, DeliveredPublished
<1>5. \A u \in Topic, q \in Offset :
         InsertOne(u, q) \/ CommitOne(u, q) => q < Len(log[u])
  BY EntryBuffered DEF SourceInv, Mapped
<1>6. QED
  BY <1>0, <1>2, <1>3, <1>4, <1>5, ReportStep

\* One poison message costs only itself, whatever the batch size, the order of
\* the messages and the number of restarts.
THEOREM PoisonCostsItself == Spec => []PoisonIsolated
<1>1. Init => PoisonIsolated
  BY DEF Init, PoisonIsolated, Empty
<1>2. QED
  BY <1>1, PoisonStep, SourceInvariant, PTL DEF Spec

-----------------------------------------------------------------------------
(***************************************************************************)
(* The order of the offset commits.                                        *)
(***************************************************************************)

\* The per-message fallback is at work.
Falling == pc \in {"fallback", "one_commit", "one_offset"}

\* The messages of topic t that the run has still to write.
Pending(t) == IF Falling THEN todo[t]
              ELSE IF pc \in {"off", "returned"} THEN {} ELSE batch[t]

\* Offsets added to or taken from one topic's set.
LEMMA SetsUpdated ==
    ASSUME NEW f \in [Topic -> SUBSET Offset], NEW t \in Topic, NEW o, NEW u \in Topic
    PROVE  /\ [f EXCEPT ![t] = @ \cup {o}][u] = IF u = t THEN f[u] \cup {o} ELSE f[u]
           /\ [f EXCEPT ![t] = @ \ {o}][u] = IF u = t THEN f[u] \ {o} ELSE f[u]
OBVIOUS

\* The group's offset never passes what was polled and, while no exception is
\* leaving main, never passes a message that has still to be written.
AheadInv ==
    /\ pc # "off" => \A t \in Topic : committed[t] <= position[t]
    /\ pc # "off" /\ ~raising =>
          \A t \in Topic : \A o \in Pending(t) : committed[t] <= o

LEMMA AheadInvStep ==
    LoadInv /\ FlowInv /\ AheadInv /\ [Next]_vars => AheadInv'
<1> SUFFICES ASSUME LoadInv, FlowInv, AheadInv, [Next]_vars
             PROVE  AheadInv'
  OBVIOUS
<1> USE DEF broker, postgres, buffers, counters, history, control
<1>t. TypeOK /\ TypeOK'
  BY TypeStep DEF LoadInv
<1>rng. \A t \in Topic : /\ committed[t] \in Nat /\ position[t] \in Nat
                         /\ committed'[t] \in Nat /\ position'[t] \in Nat
                         /\ batch[t] \subseteq Offset /\ todo[t] \subseteq Offset
  BY <1>t, LoaderAssumption DEF TypeOK
<1>off. Offset \subseteq Nat
  BY LoaderAssumption DEF Offset
<1>set. batch \in [Topic -> SUBSET Offset] /\ todo \in [Topic -> SUBSET Offset]
  BY <1>t DEF TypeOK
<1>same. ASSUME UNCHANGED <<committed, position>>, pc # "off",
                ~raising' => /\ ~raising
                             /\ \A t \in Topic : Pending(t)' \subseteq Pending(t)
         PROVE  AheadInv'
  BY <1>same DEF AheadInv
<1>off1. ASSUME pc' = "off"
         PROVE  AheadInv'
  BY <1>off1 DEF AheadInv
<1>raise. ASSUME UNCHANGED <<committed, position>>, pc # "off", raising'
          PROVE  AheadInv'
  BY <1>raise DEF AheadInv
<1>1. ASSUME NEW t \in Topic, NEW k \in Kind, Publish(t, k)
      PROVE  AheadInv'
  BY <1>1 DEF Publish, AheadInv, Pending, Falling
<1>2. CASE Start
  BY <1>2, <1>rng DEF Start, AheadInv, Pending, Falling, Empty
<1>3. CASE Connect
  BY <1>3, <1>same DEF Connect, Pending, Falling
<1>4. CASE ReachLimit
  BY <1>4, <1>same DEF ReachLimit, CallFlush, Pending, Falling
<1>5. CASE IdleTimeout
  BY <1>5, <1>same DEF IdleTimeout, CallFlush, Pending, Falling
<1>6. CASE PollError
  BY <1>6, <1>same DEF PollError, Pending, Falling
<1>7. ASSUME NEW t \in Topic, Deliver(t)
      PROVE  AheadInv'
  <2>1. /\ pc = "loop" /\ UNCHANGED <<committed, raising, todo>>
        /\ position' = [position EXCEPT ![t] = position[t] + 1]
        /\ pc' \in {"loop", "insert_processed", "returned"}
    BY <1>7 DEF Deliver, CallFlush
  <2>2. \A u \in Topic : position'[u] = IF u = t THEN position[t] + 1 ELSE position[u]
    BY <2>1, <1>t DEF TypeOK
  <2>3. \/ batch' = batch
        \/ batch' = [batch EXCEPT ![t] = @ \cup {position[t]}]
    BY <1>7 DEF Deliver
  <2>4. \A u \in Topic : \A o \in batch'[u] : o \in batch[u] \/ (u = t /\ o = position[t])
    BY <2>3, <1>set, SetsUpdated
  <2>5. \A u \in Topic : Pending(u)' \subseteq batch'[u] /\ Pending(u) = batch[u]
    BY <2>1 DEF Pending, Falling
  <2>6. \A u \in Topic : committed'[u] <= position'[u]
    BY <2>1, <2>2, <1>rng DEF AheadInv
  <2>7. ASSUME ~raising', NEW u \in Topic, NEW o \in Pending(u)'
        PROVE  committed'[u] <= o
    BY <2>1, <2>4, <2>5, <2>7 DEF AheadInv
  <2>8. QED
    BY <2>6, <2>7 DEF AheadInv
<1>8. ASSUME NEW t \in Topic, InsertBatch(t)
      PROVE  AheadInv'
  BY <1>8, <1>same, <1>raise DEF InsertBatch, Rollback, Raise, Pending, Falling
<1>9. CASE CommitBatch
  BY <1>9, <1>same, <1>raise DEF CommitBatch, Rollback, Raise, Pending, Falling
<1>10. CASE CommitBatchOffsets
  <2>1. /\ pc = "offsets" /\ pc' = "returned" /\ UNCHANGED <<position, raising>>
    BY <1>10 DEF CommitBatchOffsets
  <2>2. \A t \in Topic : \/ committed'[t] = committed[t]
                         \/ committed'[t] - 1 \in batch[t]
    BY <1>10, <1>rng DEF CommitBatchOffsets, OffsetAfter
  <2>3. \A t \in Topic : \A o \in batch[t] : o < position[t]
    BY <2>1 DEF LoadInv, BufferedPolled
  <2>4. \A t \in Topic : committed'[t] <= position'[t]
    BY <2>1, <2>2, <2>3, <1>rng DEF AheadInv
  <2>5. \A t \in Topic : Pending(t)' = {}
    BY <2>1 DEF Pending, Falling
  <2>6. QED
    BY <2>4, <2>5 DEF AheadInv
<1>11. ASSUME NEW t \in Topic, NEW o \in Offset, InsertOne(t, o)
       PROVE  AheadInv'
  <2>1. \/ todo' = todo /\ pc' = "one_commit" /\ raising' = raising
        \/ todo' = [todo EXCEPT ![t] = @ \ {o}] /\ pc' = "fallback" /\ raising' = raising
        \/ raising'
    BY <1>11 DEF InsertOne, GiveUp, Raise, Handled
  <2>2. raising' \/ \A u \in Topic : todo'[u] \subseteq todo[u]
    BY <2>1, <1>set, SetsUpdated
  <2>3. pc = "fallback" /\ UNCHANGED <<committed, position>>
    BY <1>11 DEF InsertOne
  <2>4. QED
    BY <2>1, <2>2, <2>3, <1>same, <1>raise DEF Pending, Falling
<1>12. ASSUME NEW t \in Topic, NEW o \in Offset, CommitOne(t, o)
       PROVE  AheadInv'
  <2>1. \/ todo' = todo /\ pc' = "one_offset" /\ raising' = raising
        \/ todo' = [todo EXCEPT ![t] = @ \ {o}] /\ pc' = "fallback" /\ raising' = raising
        \/ raising'
    BY <1>12 DEF CommitOne, GiveUp, Raise, Handled
  <2>2. raising' \/ \A u \in Topic : todo'[u] \subseteq todo[u]
    BY <2>1, <1>set, SetsUpdated
  <2>3. pc = "one_commit" /\ UNCHANGED <<committed, position>>
    BY <1>12 DEF CommitOne
  <2>4. QED
    BY <2>1, <2>2, <2>3, <1>same, <1>raise DEF Pending, Falling
<1>13. ASSUME NEW t \in Topic, NEW o \in Offset, CommitOneOffset(t, o)
       PROVE  AheadInv'
  <2>1. /\ pc = "one_offset" /\ pc' = "fallback" /\ UNCHANGED <<position, raising>>
        /\ todo' = [todo EXCEPT ![t] = @ \ {o}]
        /\ committed' \in {committed, [committed EXCEPT ![t] = o + 1]}
        /\ \A q \in todo[t] : o <= q
    BY <1>13 DEF CommitOneOffset, Handled, IsNext
  <2>2. \A u \in Topic : \A q \in todo'[u] : q \in todo[u] /\ (u = t => q # o)
    BY <2>1, <1>t DEF TypeOK
  <2>3. \A u \in Topic : \/ committed'[u] = committed[u]
                         \/ u = t /\ committed'[u] = o + 1
    BY <2>1, <1>t DEF TypeOK
  <2>4. o < position[t]
    BY <1>13, <2>1, EntryBuffered DEF LoadInv, BufferedPolled
  <2>5. \A u \in Topic : committed'[u] <= position'[u]
    BY <2>1, <2>3, <2>4, <1>rng, <1>off DEF AheadInv
  <2>6. \A u \in Topic : Pending(u)' = todo'[u] /\ Pending(u) = todo[u]
    BY <2>1 DEF Pending, Falling
  <2>7. ASSUME ~raising', NEW u \in Topic, NEW q \in todo'[u]
        PROVE  committed'[u] <= q
    <3>1. q \in todo[u] /\ q \in Nat
      BY <2>2, <2>7, <1>rng, <1>off
    <3>2. CASE committed'[u] = committed[u]
      BY <3>1, <3>2, <2>1, <2>6, <2>7 DEF AheadInv
    <3>3. CASE u = t /\ committed'[u] = o + 1
      <4>1. o <= q /\ q # o
        BY <3>1, <3>3, <2>1, <2>2, <2>7
      <4>2. QED
        BY <4>1, <3>1, <3>3, <1>off
    <3>4. QED
      BY <2>3, <3>2, <3>3
  <2>8. QED
    BY <2>5, <2>6, <2>7 DEF AheadInv
<1>14. CASE FallbackDone
  BY <1>14, <1>same DEF FallbackDone, Pending, Falling
<1>15. CASE FlushReturned
  <2>1. \A t \in Topic : Pending(t)' = {}
    BY <1>15 DEF FlushReturned, Pending, Falling, Empty
  <2>2. QED
    BY <1>15, <2>1, <1>same DEF FlushReturned
<1>16. CASE Finally
  BY <1>16, <1>same DEF Finally, CallFlush, Pending, Falling
<1>17. CASE Close
  BY <1>17, <1>off1 DEF Close, Leave
<1>18. CASE Unwind
  BY <1>18, <1>off1 DEF Unwind, Leave
<1>19. CASE Interrupt
  BY <1>19, <1>raise DEF Interrupt
<1>20. CASE Kill
  BY <1>20, <1>off1 DEF Kill, Leave
<1>21. CASE UNCHANGED vars
  BY <1>21 DEF vars, AheadInv, Pending, Falling
<1>22. QED
  BY <1>1, <1>2, <1>3, <1>4, <1>5, <1>6, <1>7, <1>8, <1>9, <1>10, <1>11, <1>12, <1>13,
     <1>14, <1>15, <1>16, <1>17, <1>18, <1>19, <1>20, <1>21
  DEF Next, LoaderStep, Environment

LEMMA LoaderInvariant ==
    Spec => [](LoadInv /\ FlowInv /\ SourceInv /\ AheadInv)
<1>1. Init => AheadInv
  BY DEF Init, AheadInv
<1>2. QED
  BY <1>1, AheadInvStep, SourceInvariant, PTL DEF Spec

\* A step that moves an offset back is one of the finally block's flush.
LEMMA RetreatStep ==
    ASSUME LoadInv, FlowInv, AheadInv, [Next]_vars, NEW t \in Topic,
           committed'[t] < committed[t]
    PROVE  raising /\ caller = "final"
<1>t. TypeOK /\ TypeOK'
  BY TypeStep DEF LoadInv
<1>rng. committed[t] \in Nat /\ committed'[t] \in Nat /\ Offset \subseteq Nat
  BY <1>t, LoaderAssumption DEF TypeOK, Offset
<1>1. CASE CommitBatchOffsets /\ OffsetAfter(batch[t], committed[t], committed'[t])
  <2>1. pc = "offsets"
    BY <1>1 DEF CommitBatchOffsets
  <2>2. PICK o \in batch[t] : o = committed'[t] - 1
    BY <1>1, <1>rng DEF OffsetAfter
  <2>3. ~(committed[t] <= o)
    BY <2>2, <1>rng
  <2>4. o \in Pending(t)
    BY <2>1, <2>2 DEF Pending, Falling
  <2>5. raising
    BY <2>1, <2>3, <2>4 DEF AheadInv
  <2>6. QED
    BY <2>1, <2>5 DEF FlowInv, FlowOK, FlushPoint
<1>2. ASSUME NEW u \in Topic, NEW o \in Offset, CommitOneOffset(u, o),
             committed' = [committed EXCEPT ![u] = o + 1]
      PROVE  raising /\ caller = "final"
  <2>1. pc = "one_offset" /\ o \in todo[u]
    BY <1>2 DEF CommitOneOffset, IsNext
  <2>2. u = t /\ committed'[t] = o + 1
    <3>1. committed'[t] = IF t = u THEN o + 1 ELSE committed[t]
      BY <1>2, <1>t DEF TypeOK
    <3>2. committed'[t] # committed[t]
      BY <1>rng
    <3>3. QED
      BY <3>1, <3>2
  <2>3. ~(committed[t] <= o)
    BY <2>2, <1>rng
  <2>4. o \in Pending(t)
    BY <2>1, <2>2 DEF Pending, Falling
  <2>5. raising
    BY <2>1, <2>3, <2>4 DEF AheadInv
  <2>6. QED
    BY <2>1, <2>5 DEF FlowInv, FlowOK, FlushPoint
<1>3. committed' # committed
  BY <1>rng
<1>4. QED
  BY <1>1, <1>2, <1>3, OffsetStep

\* The group's offsets never retreat except in the flush of the finally block
\* while an exception is leaving main, whatever failed before.
THEOREM OffsetsRetreatOnlyWhenRaising == Spec => OffsetsRetreatOnlyInFinalFlush
<1>1. LoadInv /\ FlowInv /\ AheadInv /\ [Next]_vars =>
         [(\E t \in Topic : committed'[t] < committed[t])
             => raising /\ caller = "final"]_vars
  BY RetreatStep
<1>2. QED
  BY <1>1, LoaderInvariant, PTL DEF Spec, OffsetsRetreatOnlyInFinalFlush

-----------------------------------------------------------------------------
(***************************************************************************)
(* What exit status zero means.  While a run has met no failure, the       *)
(* buffer is exactly what lies between the group's offset and the          *)
(* position, and the counters are exactly what lies behind the offset.     *)
(***************************************************************************)

\* The counters in force: flush_batches works on its own copies.
Tally == IF pc \in FlushPoint THEN local ELSE count

\* The messages of topic t whose rows are committed and whose offset is not.
JustStored(t) ==
    CASE pc = "offsets"    -> batch[t]
      [] pc = "one_offset" -> {o \in todo[t] : IsNext(t, o)}
      [] OTHER             -> {}

\* A run that has neither raised an exception nor counted a failure.
CleanRun == pc # "off" /\ ~raising /\ Tally["failed"] = 0

\* On topic t the run has lost nothing, repeated nothing and counted correctly.
Exact(t) ==
    /\ Pending(t) = committed[t]..(position[t] - 1)
    /\ Tally[t] = committed[t] - began[t] + Cardinality(JustStored(t))
    /\ \A o \in began[t]..(committed[t] - 1) : rows[t][o] > 0
    /\ \A o \in JustStored(t) : rows[t][o] > 0

ExactInv ==
    /\ pc # "off" => consumed = (position["processed"] - began["processed"])
                                  + (position["invalid"] - began["invalid"])
    /\ CleanRun => \A t \in Topic : Exact(t)

\* An interval without its first element.
LEMMA IntervalShortened ==
    ASSUME NEW a \in Int, NEW b \in Int
    PROVE  (a..b) \ {a} = (a + 1)..b
OBVIOUS

\* One more message extends an interval.
LEMMA IntervalExtended ==
    ASSUME NEW a \in Int, NEW b \in Int, a <= b
    PROVE  (a..(b - 1)) \cup {b} = a..b
OBVIOUS

LEMMA ExactInvStep ==
    LoadInv /\ FlowInv /\ AheadInv /\ ExactInv /\ [Next]_vars => ExactInv'
<1> SUFFICES ASSUME LoadInv, FlowInv, AheadInv, ExactInv, [Next]_vars
             PROVE  ExactInv'
  OBVIOUS
<1> USE DEF broker, postgres, buffers, counters, history, control
<1>t. TypeOK /\ TypeOK'
  BY TypeStep DEF LoadInv
<1>rng. \A t \in Topic : /\ committed[t] \in Nat /\ position[t] \in Nat /\ began[t] \in Nat
                         /\ committed[t] <= MaxOffset /\ position[t] <= MaxOffset
  BY <1>t, LoaderAssumption DEF TypeOK
<1>set. /\ batch \in [Topic -> SUBSET Offset] /\ todo \in [Topic -> SUBSET Offset]
        /\ count \in [Counter -> Nat] /\ local \in [Counter -> Nat]
  BY <1>t DEF TypeOK
<1>off. Offset \subseteq Nat /\ Offset = 0..(MaxOffset - 1) /\ MaxOffset \in Nat
  BY LoaderAssumption DEF Offset
<1>cnt. Topic \subseteq Counter /\ "failed" \in Counter /\ "failed" \notin Topic
  BY DEF Counter, Topic
<1>grow. \A t \in Topic, o \in Offset : rows[t][o] > 0 => rows'[t][o] > 0
  BY <1>t, RowsStep, DurableGrows
<1>card. Cardinality({}) = 0
  BY FS_EmptySet
<1>same. ASSUME UNCHANGED <<committed, position, began, consumed>>, pc # "off",
                CleanRun' => /\ CleanRun
                             /\ \A t \in Topic : /\ Pending(t)' = Pending(t)
                                                 /\ Tally'[t] = Tally[t]
                                                 /\ JustStored(t) = {}
                                                 /\ JustStored(t)' = {}
         PROVE  ExactInv'
  <2>1. ASSUME CleanRun', NEW t \in Topic
        PROVE  Exact(t)'
    <3>1. Exact(t) /\ JustStored(t) = {} /\ JustStored(t)' = {}
      BY <2>1, <1>same DEF ExactInv
    <3>2. \A o \in began[t]..(committed[t] - 1) : rows'[t][o] > 0
      BY <3>1, <1>grow, <1>rng, <1>off DEF Exact
    <3>3. QED
      BY <3>1, <3>2, <2>1, <1>same DEF Exact
  <2>2. QED
    BY <2>1, <1>same DEF ExactInv
<1>raise. ASSUME UNCHANGED <<position, began, consumed>>, pc # "off", ~CleanRun'
          PROVE  ExactInv'
  BY <1>raise DEF ExactInv
<1>failed. \A n \in [Counter -> Nat] : Failed(n)["failed"] # 0
  BY <1>cnt DEF Failed
<1>flush. ASSUME NEW c, CallFlush(c, batch, count), pc \in {"loop", "finally"},
                 UNCHANGED <<committed, position, began, consumed, count, batch, raising>>
          PROVE  ExactInv'
  <2>1. local' = count /\ pc' \in {"returned", "insert_processed"}
    BY <1>flush DEF CallFlush
  <2>2. Tally' = Tally
    BY <2>1, <1>flush DEF Tally, FlushPoint
  <2>3. pc' = "returned" => \A t \in Topic : batch[t] = {}
    BY <1>flush, <1>set, EmptyBuffer DEF CallFlush
  <2>4. \A t \in Topic : Pending(t)' = Pending(t)
    BY <2>1, <2>3, <1>flush DEF Pending, Falling
  <2>5. \A t \in Topic : JustStored(t) = {} /\ JustStored(t)' = {}
    BY <2>1, <1>flush DEF JustStored
  <2>6. CleanRun' => CleanRun
    BY <2>2, <1>flush DEF CleanRun
  <2>7. QED
    BY <2>2, <2>4, <2>5, <2>6, <1>flush, <1>same
\* A step that leaves what the invariant speaks of alone.
<1>alone. ASSUME UNCHANGED <<committed, position, began, consumed, pc, batch, todo, rows,
                             count, local, raising>>
          PROVE  ExactInv'
  <2>1. Tally' = Tally /\ (CleanRun' <=> CleanRun)
    BY <1>alone DEF Tally, CleanRun
  <2>2. ASSUME NEW t \in Topic
        PROVE  Exact(t)' <=> Exact(t)
    <3>1. Pending(t)' = Pending(t)
      BY <1>alone DEF Pending, Falling
    <3>2. JustStored(t)' = JustStored(t)
      BY <1>alone DEF JustStored, IsNext
    <3>3. QED
      BY <3>1, <3>2, <2>1, <1>alone DEF Exact
  <2>3. QED
    BY <2>1, <2>2, <1>alone DEF ExactInv
<1>1. ASSUME NEW t \in Topic, NEW k \in Kind, Publish(t, k)
      PROVE  ExactInv'
  BY <1>1, <1>alone DEF Publish
<1>2. CASE Start
  <2>1. /\ pc' = "connect" /\ position' = committed /\ began' = committed
        /\ consumed' = 0 /\ count' = Zero /\ batch' = Empty /\ committed' = committed
    BY <1>2 DEF Start
  <2>2. ASSUME NEW t \in Topic
        PROVE  Exact(t)'
    <3>1. Pending(t)' = {} /\ JustStored(t)' = {} /\ Tally'[t] = 0
      BY <2>1, <1>cnt DEF Pending, Falling, JustStored, Tally, FlushPoint, Empty, Zero
    <3>2. committed[t] - committed[t] = 0 /\ committed[t]..(committed[t] - 1) = {}
      BY <1>rng
    <3>3. QED
      BY <3>1, <3>2, <2>1, <1>card DEF Exact
  <2>3. consumed' = (position'["processed"] - began'["processed"])
                      + (position'["invalid"] - began'["invalid"])
    BY <2>1, <1>rng DEF Topic
  <2>4. QED
    BY <2>2, <2>3 DEF ExactInv
<1>3. CASE Connect
  BY <1>3, <1>same, <1>raise
  DEF Connect, CleanRun, Pending, Falling, Tally, FlushPoint, JustStored
<1>4. CASE ReachLimit
  BY <1>4, <1>flush DEF ReachLimit
<1>5. CASE IdleTimeout
  BY <1>5, <1>flush DEF IdleTimeout
<1>6. CASE PollError
  <2>1. ~CleanRun'
    BY <1>6, <1>failed, <1>set DEF PollError, CleanRun, Tally, FlushPoint
  <2>2. QED
    BY <1>6, <2>1, <1>raise DEF PollError
<1>7. ASSUME NEW t \in Topic, Deliver(t)
      PROVE  ExactInv'
  <2>0. position[t] \in Offset
    BY <1>7, <1>t, DeliveredPublished
  <2>1. /\ pc = "loop" /\ UNCHANGED <<committed, began, raising, rows>>
        /\ position' = [position EXCEPT ![t] = position[t] + 1]
        /\ consumed' = consumed + 1
    BY <1>7 DEF Deliver
  <2>2. \A u \in Topic : position'[u] = IF u = t THEN position[t] + 1 ELSE position[u]
    BY <2>1, <1>t DEF TypeOK
  <2>3. \/ pc' = "loop"
        \/ pc' = "insert_processed" /\ local' = count'
    BY <1>7, LoaderAssumption DEF Deliver, CallFlush
  <2>4. Tally' = count' /\ Tally = count /\ pc' # "off"
    BY <2>1, <2>3 DEF Tally, FlushPoint
  <2>5. consumed' = (position'["processed"] - began'["processed"])
                      + (position'["invalid"] - began'["invalid"])
    <3>1. consumed = (position["processed"] - began["processed"])
                       + (position["invalid"] - began["invalid"])
      BY <2>1 DEF ExactInv
    <3>2. CASE t = "processed"
      BY <3>1, <3>2, <2>1, <2>2, <1>rng DEF Topic
    <3>3. CASE t = "invalid"
      BY <3>1, <3>3, <2>1, <2>2, <1>rng DEF Topic
    <3>4. QED
      BY <3>2, <3>3 DEF Topic
  <2>6. CASE count' = Failed(count)
    <3>1. ~CleanRun'
      BY <2>4, <2>6, <1>failed, <1>set DEF CleanRun
    <3>2. QED
      BY <3>1, <2>5 DEF ExactInv
  <2>7. CASE count' = count /\ batch' = [batch EXCEPT ![t] = @ \cup {position[t]}]
    <3>1. ASSUME CleanRun', NEW u \in Topic
          PROVE  Exact(u)'
      <4>1. Exact(u)
        BY <3>1, <2>1, <2>4, <2>7 DEF CleanRun, ExactInv
      <4>2. /\ Pending(u) = batch[u] /\ Pending(u)' = batch'[u]
            /\ JustStored(u) = {} /\ JustStored(u)' = {}
        BY <2>1, <2>3 DEF Pending, Falling, JustStored
      <4>3. batch[u] = committed[u]..(position[u] - 1)
        BY <4>1, <4>2 DEF Exact
      <4>4. batch'[u] = IF u = t THEN batch[u] \cup {position[u]} ELSE batch[u]
        BY <2>7, <1>set, SetsUpdated
      <4>5. committed[u] <= position[u]
        BY <2>1 DEF AheadInv
      <4>6. batch'[u] = committed[u]..(position'[u] - 1)
        <5>1. CASE u = t
          <6>1. batch'[u] = (committed[u]..(position[u] - 1)) \cup {position[u]}
            BY <5>1, <4>3, <4>4
          <6>2. position'[u] - 1 = position[u]
            BY <5>1, <2>2, <1>rng
          <6>3. QED
            BY <6>1, <6>2, <4>5, <1>rng, IntervalExtended
        <5>2. CASE u # t
          BY <5>2, <4>3, <4>4, <2>2
        <5>3. QED
          BY <5>1, <5>2
      <4>7. QED
        BY <4>1, <4>2, <4>6, <2>1, <2>4, <2>7 DEF Exact
    <3>2. QED
      BY <3>1, <2>5 DEF ExactInv
  <2>8. QED
    BY <1>7, <2>6, <2>7 DEF Deliver
<1>8. ASSUME NEW t \in Topic, InsertBatch(t)
      PROVE  ExactInv'
  <2>1. /\ pc \in {"insert_processed", "insert_invalid"}
        /\ UNCHANGED <<committed, position, began, consumed, batch, local, count>>
    BY <1>8 DEF InsertBatch
  <2>2. CASE raising'
    BY <2>1, <2>2, <1>raise DEF CleanRun
  <2>3. CASE /\ raising' = raising
             /\ pc' \in {"insert_invalid", "db_commit", "fallback"}
             /\ pc' = "fallback" => todo' = batch
    BY <2>1, <2>3, <1>same
    DEF CleanRun, Pending, Falling, Tally, FlushPoint, JustStored
  <2>4. QED
    BY <1>8, <2>2, <2>3 DEF InsertBatch, Raise
<1>9. CASE CommitBatch
  <2>1. /\ pc = "db_commit"
        /\ UNCHANGED <<committed, position, began, consumed, batch, count>>
    BY <1>9 DEF CommitBatch
  <2>2. CASE raising'
    BY <2>1, <2>2, <1>raise DEF CleanRun
  <2>3. CASE pc' = "fallback" /\ todo' = batch /\ UNCHANGED <<raising, local>>
    BY <2>1, <2>3, <1>same DEF CleanRun, Pending, Falling, Tally, FlushPoint, JustStored
  <2>4. CASE /\ pc' = "offsets" /\ rows' = Durable /\ raising' = raising
             /\ local' = [c \in Counter |-> IF c \in Topic
                                            THEN local[c] + Cardinality(batch[c])
                                            ELSE local[c]]
    <3>1. /\ Tally = local /\ Tally' = local'
          /\ local'["failed"] = local["failed"]
          /\ \A u \in Topic : local'[u] = local[u] + Cardinality(batch[u])
      BY <2>1, <2>4, <1>cnt DEF Tally, FlushPoint
    <3>2. ASSUME CleanRun', NEW u \in Topic
          PROVE  Exact(u)'
      <4>1. Exact(u)
        BY <3>1, <3>2, <2>1, <2>4 DEF CleanRun, ExactInv
      <4>2. /\ Pending(u)' = Pending(u)
            /\ JustStored(u) = {} /\ JustStored(u)' = batch[u]
        BY <2>1, <2>4 DEF Pending, Falling, JustStored
      <4>3. \A o \in batch[u] : rows'[u][o] > 0
        <5>1. \A o \in batch[u] : tx[u][o] > 0
          BY <2>1 DEF LoadInv, BatchInserted, Topic
        <5>2. QED
          BY <5>1, <2>4, <1>t, <1>set, DurableGrows
      <4>4. \A o \in began[u]..(committed[u] - 1) : rows'[u][o] > 0
        BY <4>1, <1>grow, <1>rng, <1>off DEF Exact
      <4>5. Cardinality(batch[u]) \in Nat
        BY <1>set, BufferSize
      <4>6. Tally'[u] = committed[u] - began[u] + Cardinality(batch[u])
        BY <4>1, <4>2, <4>5, <3>1, <1>card, <1>rng DEF Exact
      <4>7. QED
        BY <4>1, <4>2, <4>3, <4>4, <4>6, <2>1 DEF Exact
    <3>3. QED
      BY <3>2, <2>1, <2>4 DEF ExactInv
  <2>5. QED
    BY <1>9, <2>2, <2>3, <2>4 DEF CommitBatch, Raise
<1>10. CASE CommitBatchOffsets
  <2>1. /\ pc = "offsets" /\ pc' = "returned"
        /\ UNCHANGED <<position, began, consumed, rows, raising>>
    BY <1>10 DEF CommitBatchOffsets
  <2>2. Tally = local /\ Tally' = local'
    BY <2>1 DEF Tally, FlushPoint
  <2>3. CASE local' = [local EXCEPT !["failed"] = @ + Buffered(batch)]
    <3>1. Buffered(batch) # 0
      BY <2>1 DEF FlowInv, FlushHasWork, FlushPoint
    <3>2. Buffered(batch) \in Nat
      <4>1. batch["processed"] \subseteq Offset /\ batch["invalid"] \subseteq Offset
        BY <1>set DEF Topic
      <4>2. QED
        BY <4>1, BufferSize DEF Buffered
    <3>3. local'["failed"] # 0
      BY <2>3, <3>1, <3>2, <1>set, <1>cnt
    <3>4. QED
      BY <3>3, <2>1, <2>2, <1>raise DEF CleanRun
  <2>4. CASE /\ local' = local
             /\ \A u \in Topic : /\ committed'[u] \in Nat
                                 /\ OffsetAfter(batch[u], committed[u], committed'[u])
    <3>1. ASSUME CleanRun', NEW u \in Topic
          PROVE  Exact(u)'
      <4>1. Exact(u)
        BY <3>1, <2>1, <2>2, <2>4 DEF CleanRun, ExactInv
      <4>2. /\ Pending(u) = batch[u] /\ Pending(u)' = {}
            /\ JustStored(u) = batch[u] /\ JustStored(u)' = {}
        BY <2>1 DEF Pending, Falling, JustStored
      <4>3. batch[u] = committed[u]..(position[u] - 1) /\ committed[u] <= position[u]
        BY <4>1, <4>2, <2>1 DEF Exact, AheadInv
      <4>4. committed'[u] = position[u]
        <5>1. CASE batch[u] = {}
          <6>1. committed'[u] = committed[u]
            BY <5>1, <2>4 DEF OffsetAfter
          <6>2. ~(committed[u] <= position[u] - 1)
            <7>1. committed[u] <= position[u] - 1 =>
                     committed[u] \in committed[u]..(position[u] - 1)
              BY <1>rng
            <7>2. QED
              BY <7>1, <5>1, <4>3
          <6>3. QED
            BY <6>1, <6>2, <4>3, <1>rng
        <5>2. CASE batch[u] # {}
          <6>1. position[u] - 1 \in batch[u]
            BY <5>2, <4>3, <1>rng
          <6>2. committed'[u] - 1 \in batch[u] /\ position[u] - 1 < committed'[u]
            BY <5>2, <6>1, <2>4 DEF OffsetAfter
          <6>3. QED
            BY <6>2, <4>3, <2>4, <1>rng
        <5>3. QED
          BY <5>1, <5>2
      <4>5. Cardinality(batch[u]) = position[u] - committed[u]
        <5>1. committed[u] \in Int /\ position[u] - 1 \in Int
          BY <1>rng
        <5>2. Cardinality(committed[u]..(position[u] - 1)) =
                 IF committed[u] > position[u] - 1 THEN 0
                 ELSE (position[u] - 1) - committed[u] + 1
          BY <5>1, FS_Interval
        <5>3. QED
          BY <5>2, <4>3, <1>rng
      <4>6. Tally'[u] = committed'[u] - began[u]
        BY <4>1, <4>2, <4>4, <4>5, <2>2, <2>4, <1>rng DEF Exact
      <4>7. \A o \in began[u]..(position[u] - 1) : rows[u][o] > 0
        <5>1. \A o \in began[u]..(position[u] - 1) :
                 \/ o \in began[u]..(committed[u] - 1)
                 \/ o \in batch[u]
          BY <4>3, <1>rng
        <5>2. QED
          BY <5>1, <4>1, <4>2 DEF Exact
      <4>8. committed'[u]..(position[u] - 1) = {}
        BY <4>4, <1>rng
      <4>9. QED
        BY <4>2, <4>4, <4>6, <4>7, <4>8, <2>1, <1>card, <1>rng DEF Exact
    <3>2. QED
      BY <3>1, <2>1 DEF ExactInv
  <2>5. QED
    BY <1>10, <2>3, <2>4 DEF CommitBatchOffsets
<1>11. ASSUME NEW t \in Topic, NEW o \in Offset, InsertOne(t, o)
       PROVE  ExactInv'
  <2>1. /\ pc = "fallback" /\ UNCHANGED <<committed, position, began, consumed, count>>
    BY <1>11 DEF InsertOne
  <2>2. CASE raising'
    BY <2>1, <2>2, <1>raise DEF CleanRun
  <2>3. CASE local' = Failed(local) /\ pc' = "fallback"
    BY <2>1, <2>3, <1>failed, <1>set, <1>raise DEF CleanRun, Tally, FlushPoint
  <2>4. CASE pc' = "one_commit" /\ UNCHANGED <<raising, todo, local>>
    BY <2>1, <2>4, <1>same DEF CleanRun, Pending, Falling, Tally, FlushPoint, JustStored
  <2>5. QED
    BY <1>11, <2>2, <2>3, <2>4 DEF InsertOne, GiveUp, Raise
<1>12. ASSUME NEW t \in Topic, NEW o \in Offset, CommitOne(t, o)
       PROVE  ExactInv'
  <2>1. /\ pc = "one_commit" /\ IsNext(t, o)
        /\ UNCHANGED <<committed, position, began, consumed, count>>
    BY <1>12 DEF CommitOne
  <2>2. CASE raising'
    BY <2>1, <2>2, <1>raise DEF CleanRun
  <2>3. CASE local' = Failed(local) /\ pc' = "fallback"
    BY <2>1, <2>3, <1>failed, <1>set, <1>raise DEF CleanRun, Tally, FlushPoint
  <2>4. CASE /\ pc' = "one_offset" /\ rows' = Durable /\ UNCHANGED <<raising, todo>>
             /\ local' = [local EXCEPT ![t] = @ + 1]
    <3>1. /\ Tally = local /\ Tally' = local' /\ local'["failed"] = local["failed"]
          /\ \A u \in Topic : local'[u] = IF u = t THEN local[u] + 1 ELSE local[u]
      BY <2>1, <2>4, <1>set, <1>cnt DEF Tally, FlushPoint
    <3>2. ASSUME CleanRun', NEW u \in Topic
          PROVE  Exact(u)'
      <4>1. Exact(u)
        BY <3>1, <3>2, <2>1, <2>4 DEF CleanRun, ExactInv
      <4>2. Pending(u)' = Pending(u) /\ JustStored(u) = {}
        BY <2>1, <2>4 DEF Pending, Falling, JustStored
      <4>3. JustStored(u)' = IF u = t THEN {o} ELSE {}
        <5>1. JustStored(u)' = {q \in todo[u] : IsNext(u, q)}
          BY <2>4 DEF JustStored, IsNext
        <5>2. \A q \in todo[u] : IsNext(u, q) <=> u = t /\ q = o
          BY <2>1, <1>t, <1>set, OneNext
        <5>3. o \in todo[t]
          BY <2>1 DEF IsNext
        <5>4. QED
          BY <5>1, <5>2, <5>3
      <4>4. Tally'[u] = committed[u] - began[u] + Cardinality(JustStored(u)')
        <5>1. Cardinality({o}) = 1
          BY FS_Singleton
        <5>2. Tally[u] = committed[u] - began[u]
          BY <4>1, <4>2, <1>card, <1>rng DEF Exact
        <5>3. QED
          BY <5>1, <5>2, <4>3, <3>1, <1>card, <1>rng
      <4>5. \A q \in JustStored(u)' : rows'[u][q] > 0
        <5>1. tx[t][o] > 0
          BY <2>1 DEF LoadInv, EntryInserted
        <5>2. rows'[t][o] > 0
          BY <5>1, <2>4, <1>t, DurableGrows
        <5>3. QED
          BY <5>2, <4>3
      <4>6. \A q \in began[u]..(committed[u] - 1) : rows'[u][q] > 0
        BY <4>1, <1>grow, <1>rng, <1>off DEF Exact
      <4>7. QED
        BY <4>1, <4>2, <4>4, <4>5, <4>6, <2>1 DEF Exact
    <3>3. QED
      BY <3>2, <2>1, <2>4 DEF ExactInv
  <2>5. QED
    BY <1>12, <2>2, <2>3, <2>4 DEF CommitOne, GiveUp, Raise
<1>13. ASSUME NEW t \in Topic, NEW o \in Offset, CommitOneOffset(t, o)
       PROVE  ExactInv'
  <2>1. /\ pc = "one_offset" /\ pc' = "fallback" /\ IsNext(t, o)
        /\ todo' = [todo EXCEPT ![t] = @ \ {o}]
        /\ UNCHANGED <<position, began, consumed, rows, raising>>
    BY <1>13 DEF CommitOneOffset, Handled
  <2>2. Tally = local /\ Tally' = local'
    BY <2>1 DEF Tally, FlushPoint
  <2>3. CASE local' = Failed(local)
    BY <2>1, <2>2, <2>3, <1>failed, <1>set, <1>raise DEF CleanRun
  <2>4. CASE local' = local /\ committed' = [committed EXCEPT ![t] = o + 1]
    <3>1. ASSUME CleanRun', NEW u \in Topic
          PROVE  Exact(u)'
      <4>1. Exact(u)
        BY <3>1, <2>1, <2>2, <2>4 DEF CleanRun, ExactInv
      <4>2. /\ Pending(u) = todo[u] /\ Pending(u)' = todo'[u]
            /\ JustStored(u) = {q \in todo[u] : IsNext(u, q)} /\ JustStored(u)' = {}
        BY <2>1 DEF Pending, Falling, JustStored
      <4>3. todo'[u] = IF u = t THEN todo[u] \ {o} ELSE todo[u]
        BY <2>1, <1>set, SetsUpdated
      <4>4. committed'[u] = IF u = t THEN o + 1 ELSE committed[u]
        BY <2>4, <1>t DEF TypeOK
      <4>5. JustStored(u) = IF u = t THEN {o} ELSE {}
        <5>1. \A q \in todo[u] : IsNext(u, q) <=> u = t /\ q = o
          BY <2>1, <1>t, <1>set, OneNext
        <5>2. o \in todo[t]
          BY <2>1 DEF IsNext
        <5>3. QED
          BY <5>1, <5>2, <4>2
      <4>6. todo[u] = committed[u]..(position[u] - 1)
        BY <4>1, <4>2 DEF Exact
      <4>7. u = t => o = committed[u]
        <5>1. o \in todo[t] /\ \A q \in todo[t] : o <= q
          BY <2>1 DEF IsNext
        <5>2. u = t => o \in Nat /\ committed[u] <= o /\ o <= position[u] - 1
          BY <5>1, <4>6, <1>rng
        <5>3. u = t => committed[u] \in todo[t]
          BY <5>2, <4>6, <1>rng
        <5>4. QED
          BY <5>1, <5>2, <5>3, <1>rng
      <4>8. Cardinality(JustStored(u)) = IF u = t THEN 1 ELSE 0
        BY <4>5, <1>card, FS_Singleton
      <4>9. Tally'[u] = committed'[u] - began[u]
        <5>1. Tally'[u] = committed[u] - began[u] + Cardinality(JustStored(u))
          BY <4>1, <2>2, <2>4 DEF Exact
        <5>2. CASE u = t
          BY <5>1, <5>2, <4>4, <4>7, <4>8, <1>rng
        <5>3. CASE u # t
          BY <5>1, <5>3, <4>4, <4>8, <1>rng
        <5>4. QED
          BY <5>2, <5>3
      <4>10. todo'[u] = committed'[u]..(position[u] - 1)
        <5>1. CASE u = t
          <6>1. todo'[u] = (committed[u]..(position[u] - 1)) \ {committed[u]}
            BY <5>1, <4>3, <4>6, <4>7
          <6>2. committed'[u] = committed[u] + 1
            BY <5>1, <4>4, <4>7
          <6>3. position[u] - 1 \in Int /\ committed[u] \in Int
            BY <1>rng
          <6>4. QED
            BY <6>1, <6>2, <6>3, IntervalShortened
        <5>2. CASE u # t
          BY <5>2, <4>3, <4>4, <4>6
        <5>3. QED
          BY <5>1, <5>2
      <4>11. \A q \in began[u]..(committed'[u] - 1) : rows[u][q] > 0
        <5>1. \A q \in began[u]..(committed'[u] - 1) :
                 \/ q \in began[u]..(committed[u] - 1)
                 \/ u = t /\ q = o
          BY <4>4, <4>7, <1>rng
        <5>2. QED
          BY <5>1, <4>1, <4>5 DEF Exact
      <4>12. Tally'[u] = committed'[u] - began[u] + Cardinality(JustStored(u)')
        <5>1. committed'[u] \in Nat
          BY <4>4, <1>rng, <1>off
        <5>2. QED
          BY <5>1, <4>2, <4>9, <1>card, <1>rng
      <4>13. QED
        BY <4>2, <4>10, <4>11, <4>12, <2>1 DEF Exact
    <3>2. QED
      BY <3>1, <2>1 DEF ExactInv
  <2>5. QED
    BY <1>13, <2>3, <2>4 DEF CommitOneOffset
<1>14. CASE FallbackDone
  <2>1. \A t \in Topic : todo[t] = {}
    BY <1>14 DEF FallbackDone, Empty
  <2>2. QED
    BY <1>14, <2>1, <1>same
    DEF FallbackDone, CleanRun, Pending, Falling, Tally, FlushPoint, JustStored
<1>15. CASE FlushReturned
  <2>1. \A t \in Topic : batch'[t] = {}
    BY <1>15 DEF FlushReturned, Empty
  <2>2. QED
    BY <1>15, <2>1, <1>same
    DEF FlushReturned, CleanRun, Pending, Falling, Tally, FlushPoint, JustStored
<1>16. CASE Finally
  <2>1. CASE Buffered(batch) = 0
    BY <2>1, <1>16, <1>same
    DEF Finally, CleanRun, Pending, Falling, Tally, FlushPoint, JustStored
  <2>2. CASE Buffered(batch) # 0
    BY <2>2, <1>16, <1>flush DEF Finally
  <2>3. QED
    BY <2>1, <2>2
<1>17. CASE Close
  BY <1>17 DEF Close, Leave, ExactInv, CleanRun
<1>18. CASE Unwind
  BY <1>18 DEF Unwind, Leave, ExactInv, CleanRun
<1>19. CASE Interrupt
  BY <1>19, <1>raise DEF Interrupt, CleanRun
<1>20. CASE Kill
  BY <1>20 DEF Kill, Leave, ExactInv, CleanRun
<1>21. CASE UNCHANGED vars
  BY <1>21, <1>alone DEF vars
<1>22. QED
  BY <1>1, <1>2, <1>3, <1>4, <1>5, <1>6, <1>7, <1>8, <1>9, <1>10, <1>11, <1>12, <1>13,
     <1>14, <1>15, <1>16, <1>17, <1>18, <1>19, <1>20, <1>21
  DEF Next, LoaderStep, Environment

\* A run ends with status zero only from a clean state.
LEMMA ExitStep ==
    LoadInv /\ FlowInv /\ AheadInv /\ ExactInv /\ ExitZeroLoaded /\ [Next]_vars
        => ExitZeroLoaded'
<1> SUFFICES ASSUME LoadInv, FlowInv, AheadInv, ExactInv, ExitZeroLoaded, [Next]_vars,
                    pc' = "off", exit' = "zero"
             PROVE  ExitZeroLoaded'
  BY DEF ExitZeroLoaded
<1> USE DEF broker, postgres, buffers, counters, history, control
<1>t. TypeOK
  BY DEF LoadInv
<1>1. CASE pc = "off"
  <2>1. UNCHANGED <<committed, position, rows, began, count, consumed, exit>>
    BY <1>1 DEF Next, LoaderStep, Environment, vars, Publish, Start, Connect, ReachLimit,
       IdleTimeout, PollError, Deliver, InsertBatch, CommitBatch, CommitBatchOffsets,
       InsertOne, CommitOne, CommitOneOffset, FallbackDone, FlushReturned, Finally,
       Close, Unwind, Interrupt, Kill
  <2>2. QED
    BY <1>1, <2>1 DEF ExitZeroLoaded
<1>2. CASE pc # "off"
  <2>1. Close /\ ~raising /\ count["failed"] = 0
    BY <1>2 DEF Next, LoaderStep, Environment, vars, Publish, Start, Connect, ReachLimit,
       IdleTimeout, PollError, Deliver, CallFlush, InsertBatch, CommitBatch,
       CommitBatchOffsets, InsertOne, CommitOne, CommitOneOffset, GiveUp, Raise,
       FallbackDone, FlushReturned, Finally, Close, Leave, Unwind, Interrupt, Kill
  <2>2. /\ pc = "close"
        /\ UNCHANGED <<committed, position, rows, began, count, consumed>>
    BY <2>1 DEF Close, Leave
  <2>3. CleanRun /\ Tally = count
    BY <2>1, <2>2 DEF CleanRun, Tally, FlushPoint
  <2>4. \A t \in Topic : /\ committed[t] \in Nat /\ position[t] \in Nat /\ began[t] \in Nat
                         /\ committed[t] <= position[t]
    BY <1>t, <2>2, LoaderAssumption DEF TypeOK, AheadInv
  <2>5. ASSUME NEW t \in Topic
        PROVE  /\ committed[t] = position[t]
               /\ count[t] = position[t] - began[t]
               /\ \A o \in began[t]..(position[t] - 1) : rows[t][o] > 0
    <3>1. Exact(t)
      BY <2>3 DEF ExactInv
    <3>2. Pending(t) = {} /\ JustStored(t) = {}
      BY <2>1, <2>2 DEF Pending, Falling, JustStored, FlowInv, IdleOK, Empty
    <3>3. committed[t] = position[t]
      BY <3>1, <3>2, <2>4 DEF Exact
    <3>4. count[t] = position[t] - began[t]
      BY <3>1, <3>2, <3>3, <2>3, <2>4, FS_EmptySet DEF Exact
    <3>5. QED
      BY <3>1, <3>3, <3>4 DEF Exact
  <2>6. committed = position
    BY <2>5, <1>t DEF TypeOK
  <2>7. consumed = count["processed"] + count["invalid"]
    BY <2>2, <2>5 DEF ExactInv, Topic
  <2>8. QED
    BY <2>2, <2>5, <2>6, <2>7 DEF ExitZeroLoaded
<1>3. QED
  BY <1>1, <1>2

\* Exit status zero can be trusted, for every batch size and message limit and
\* after any history of failed and killed runs.
THEOREM ExitZeroTrusted == Spec => []ExitZeroLoaded
<1>1. Init => ExactInv /\ ExitZeroLoaded
  BY DEF Init, ExactInv, CleanRun, ExitZeroLoaded
<1>2. QED
  BY <1>1, ExactInvStep, ExitStep, LoaderInvariant, PTL DEF Spec

-----------------------------------------------------------------------------
(***************************************************************************)
(* The bound on duplicate rows.  The copies a message has, those in the    *)
(* open transaction and the one that the loader may still write together   *)
(* never exceed one by more than the number of faults: only a fault makes  *)
(* a message that was written due again.                                   *)
(***************************************************************************)

\* The row of message o is in the open transaction, or is committed while its
\* offset is not.
Credited(t, o) ==
    \/ /\ t = "processed" /\ o \in batch[t]
       /\ pc \in {"insert_invalid", "db_commit", "offsets"}
    \/ /\ t = "invalid" /\ o \in batch[t]
       /\ pc \in {"db_commit", "offsets"}
    \/ /\ pc \in {"one_commit", "one_offset"}
       /\ IsNext(t, o)

\* This run or a later one may yet write a row for message o.
Due(t, o) == ~Credited(t, o) /\ (o >= committed[t] \/ o \in Pending(t))

Copies(t, o) == rows[t][o] + tx[t][o]

Paid(t, o) == Copies(t, o) + (IF Due(t, o) THEN 1 ELSE 0) <= 1 + faults

CopiesPaid == \A t \in Topic, o \in Offset : Paid(t, o)

\* Between two buffered messages only messages without a row were polled.
BatchSolid ==
    pc # "off" => \A t \in Topic : \A o \in batch[t], q \in Offset :
        o < q /\ q < position[t] => q \in batch[t] \/ KindOf(t, q) # "ok"

\* The fallback goes through the batch in order.
TodoSolid ==
    Falling => \A t \in Topic : \A o \in todo[t], q \in batch[t] :
        o <= q => q \in todo[t]

CopiesInv == BatchSolid /\ TodoSolid /\ CopiesPaid

LEMMA BatchSolidStep ==
    LoadInv /\ SourceInv /\ AheadInv /\ BatchSolid /\ [Next]_vars => BatchSolid'
<1> SUFFICES ASSUME LoadInv, SourceInv, AheadInv, BatchSolid, [Next]_vars, pc' # "off",
                    NEW t \in Topic, NEW o \in batch'[t], NEW q \in Offset,
                    o < q, q < position'[t]
             PROVE  q \in batch'[t] \/ KindOf(t, q)' # "ok"
  BY DEF BatchSolid
<1>t. TypeOK
  BY DEF LoadInv
<1>rng. /\ position[t] \in Nat /\ batch \in [Topic -> SUBSET Offset] /\ Offset \subseteq Nat
        /\ position[t] <= Len(log[t]) /\ Len(log[t]) \in Nat
  <2>1. position[t] \in Nat /\ Offset \subseteq Nat
    BY <1>t, LoaderAssumption DEF TypeOK, Offset
  <2>2. batch \in [Topic -> SUBSET Offset] /\ Len(log[t]) \in Nat
    BY <1>t DEF TypeOK
  <2>3. position[t] <= Len(log[t])
    BY DEF SourceInv
  <2>4. QED
    BY <2>1, <2>2, <2>3
<1>kind. q < position[t] => KindOf(t, q)' = KindOf(t, q)
  BY <1>t, <1>rng, LogStep DEF KindOf
<1>1. CASE batch' = Empty
  BY <1>1 DEF Empty
<1>2. CASE pc # "off" /\ batch' = batch /\ position' = position
  BY <1>2, <1>kind DEF BatchSolid
<1>3. ASSUME NEW u \in Topic, Deliver(u)
      PROVE  q \in batch'[t] \/ KindOf(t, q)' # "ok"
  <2>1. /\ pc = "loop" /\ position' = [position EXCEPT ![u] = position[u] + 1]
        /\ log' = log
    BY <1>3 DEF Deliver, broker
  <2>2. position'[t] = IF t = u THEN position[t] + 1 ELSE position[t]
    BY <2>1, <1>t DEF TypeOK
  <2>3. \/ /\ batch' = batch
           /\ KindOf(u, position[u]) = "unmappable"
        \/ batch' = [batch EXCEPT ![u] = @ \cup {position[u]}]
    BY <1>3 DEF Deliver
  <2>4. batch[t] \subseteq batch'[t]
    BY <2>3, <1>rng, SetsUpdated
  <2>5. o \in batch[t] \/ (t = u /\ o = position[t])
    BY <2>3, <1>rng, SetsUpdated
  <2>6. q < position[t] \/ (t = u /\ q = position[t])
    BY <2>2, <1>rng
  <2>7. o \in batch[t]
    BY <2>5, <2>6, <1>rng
  <2>8. CASE q < position[t]
    BY <2>1, <2>4, <2>7, <2>8, <1>kind DEF BatchSolid
  <2>9. CASE t = u /\ q = position[t]
    BY <2>1, <2>3, <2>9, <1>rng, SetsUpdated DEF KindOf
  <2>10. QED
    BY <2>6, <2>8, <2>9
<1>4. \/ batch' = Empty
      \/ pc # "off" /\ batch' = batch /\ position' = position
      \/ \E u \in Topic : Deliver(u)
  BY DEF Next, LoaderStep, Environment, vars, broker, postgres, buffers, counters,
         history, control, Publish, Start, Connect, ReachLimit, IdleTimeout, PollError,
         InsertBatch, CommitBatch, CommitBatchOffsets, InsertOne, CommitOne,
         CommitOneOffset, FallbackDone, FlushReturned, Finally, Leave, Close, Unwind,
         Interrupt, Kill
<1>5. QED
  BY <1>1, <1>2, <1>3, <1>4

LEMMA TodoSolidStep ==
    LoadInv /\ TodoSolid /\ [Next]_vars => TodoSolid'
<1> SUFFICES ASSUME LoadInv, TodoSolid, [Next]_vars, Falling',
                    NEW u \in Topic, NEW p \in todo'[u], NEW q \in batch'[u], p <= q
             PROVE  q \in todo'[u]
  BY DEF TodoSolid
<1>t. TypeOK
  BY DEF LoadInv
<1>rng. /\ todo \in [Topic -> SUBSET Offset] /\ Offset \subseteq Nat
        /\ batch \in [Topic -> SUBSET Offset]
  BY <1>t, LoaderAssumption DEF TypeOK, Offset
<1>1. CASE batch' = batch /\ todo' = batch
  BY <1>1
<1>2. CASE Falling /\ UNCHANGED <<batch, todo>>
  BY <1>2 DEF TodoSolid
<1>3. ASSUME NEW t \in Topic, NEW o \in Offset, IsNext(t, o), Falling,
             batch' = batch, todo' = [todo EXCEPT ![t] = @ \ {o}]
      PROVE  q \in todo'[u]
  <2>1. todo'[u] = IF u = t THEN todo[u] \ {o} ELSE todo[u]
    BY <1>3, <1>rng, SetsUpdated
  <2>2. q \in todo[u] /\ p \in Nat
    BY <2>1, <1>3, <1>rng DEF TodoSolid
  <2>3. u = t => o <= p /\ p # o
    BY <2>1, <1>3 DEF IsNext
  <2>4. u = t => q # o
    BY <2>2, <2>3, <1>rng
  <2>5. QED
    BY <2>1, <2>2, <2>4
<1>4. \/ batch' = batch /\ todo' = batch
      \/ Falling /\ UNCHANGED <<batch, todo>>
      \/ \E t \in Topic, o \in Offset : /\ IsNext(t, o) /\ Falling /\ batch' = batch
                                        /\ todo' = [todo EXCEPT ![t] = @ \ {o}]
  BY DEF Next, LoaderStep, Environment, vars, broker, postgres, buffers, counters,
         history, control, Publish, Start, Connect, ReachLimit, IdleTimeout, PollError,
         Deliver, CallFlush, InsertBatch, CommitBatch, CommitBatchOffsets, InsertOne,
         CommitOne, CommitOneOffset, FallbackDone, FlushReturned, Finally, Leave, Close,
         Unwind, Interrupt, Kill, Raise, GiveUp, Handled, Falling
<1>5. QED
  BY <1>1, <1>2, <1>3, <1>4

\* A step that inserts nothing adds no copy.
LEMMA CopiesStep ==
    ASSUME TypeOK, TypeOK', [Next]_vars, NEW t \in Topic, NEW o \in Offset
    PROVE  \/ Copies(t, o)' <= Copies(t, o)
           \/ /\ UNCHANGED <<rows, faults>>
              /\ \/ \E u \in Topic : InsertBatch(u) /\ tx' = Insert(u, batch[u])
                 \/ \E u \in Topic, q \in Offset : InsertOne(u, q) /\ tx' = Insert(u, {q})
<1>1. \/ UNCHANGED <<rows, tx>>
      \/ rows' \in {rows, Durable} /\ tx' = NoRows
      \/ /\ UNCHANGED <<rows, faults>>
         /\ \/ \E u \in Topic : InsertBatch(u) /\ tx' = Insert(u, batch[u])
            \/ \E u \in Topic, q \in Offset : InsertOne(u, q) /\ tx' = Insert(u, {q})
  BY DEF Next, LoaderStep, Environment, vars, broker, postgres, buffers, counters,
         history, control, Publish, Start, Connect, ReachLimit, IdleTimeout, PollError,
         Deliver, InsertBatch, CommitBatch, CommitBatchOffsets, InsertOne, CommitOne,
         CommitOneOffset, FallbackDone, FlushReturned, Finally, Leave, Close, Unwind,
         Interrupt, Kill, Rollback, Raise
<1>2. rows[t][o] \in Nat /\ tx[t][o] \in Nat /\ Durable[t][o] = rows[t][o] + tx[t][o]
  BY DurableGrows
<1>3. CASE rows' \in {rows, Durable} /\ tx' = NoRows
  <2>1. tx'[t][o] = 0 /\ rows'[t][o] <= rows[t][o] + tx[t][o] /\ rows'[t][o] \in Nat
    BY <1>2, <1>3 DEF NoRows
  <2>2. QED
    BY <2>1, <1>2 DEF Copies
<1>4. CASE UNCHANGED <<rows, tx>>
  BY <1>2, <1>4 DEF Copies
<1>5. QED
  BY <1>1, <1>3, <1>4

LEMMA CopiesPaidStep ==
    LoadInv /\ FlowInv /\ SourceInv /\ AheadInv /\ CopiesInv /\ [Next]_vars => CopiesPaid'
<1> SUFFICES ASSUME LoadInv, FlowInv, SourceInv, AheadInv, CopiesInv, [Next]_vars,
                    NEW t \in Topic, NEW o \in Offset
             PROVE  Paid(t, o)'
  BY DEF CopiesPaid
<1> USE DEF broker, postgres, buffers, counters, history, control
<1>t. TypeOK /\ TypeOK' /\ LoadInv' /\ SourceInv'
  BY TypeStep, LoadInvStep, SourceInvStep DEF LoadInv
<1>num. /\ Copies(t, o) \in Nat /\ Copies(t, o)' \in Nat /\ faults \in Nat /\ faults' \in Nat
        /\ rows[t][o] \in Nat /\ tx[t][o] \in Nat
        /\ Copies(t, o) = rows[t][o] + tx[t][o]
        /\ Copies(t, o)' = rows'[t][o] + tx'[t][o]
  <2>1. rows[t][o] \in Nat /\ tx[t][o] \in Nat /\ faults \in Nat
    BY <1>t, LoaderAssumption DEF TypeOK
  <2>2. rows'[t][o] \in Nat /\ tx'[t][o] \in Nat /\ faults' \in Nat
    BY <1>t, LoaderAssumption DEF TypeOK
  <2>3. QED
    BY <2>1, <2>2 DEF Copies
<1>paid. /\ Copies(t, o) <= 1 + faults
         /\ Due(t, o) => Copies(t, o) <= faults
  BY <1>num DEF CopiesInv, CopiesPaid, Paid
<1>rng. /\ committed[t] \in Nat /\ position[t] \in Nat /\ o \in Nat
        /\ committed'[t] \in Nat /\ Offset \subseteq Nat
  BY <1>t, LoaderAssumption DEF TypeOK, Offset
<1>set. batch \in [Topic -> SUBSET Offset] /\ todo \in [Topic -> SUBSET Offset]
  BY <1>t DEF TypeOK
<1>ok. Storable(t, o)' \/ Paid(t, o)'
  <2>1. ~Storable(t, o)' => ~(rows'[t][o] > 0) /\ ~(tx'[t][o] > 0)
    BY <1>t DEF SourceInv
  <2>2. rows'[t][o] \in Nat /\ tx'[t][o] \in Nat
    BY <1>t DEF TypeOK
  <2>3. ~Storable(t, o)' => Copies(t, o)' = 0
    BY <2>1, <2>2, <1>num
  <2>4. QED
    BY <2>3, <1>num DEF Paid
<1>same. ASSUME faults' = faults, Copies(t, o)' <= Copies(t, o), Due(t, o)' => Due(t, o)
         PROVE  Paid(t, o)'
  BY <1>same, <1>paid, <1>num DEF Paid
<1>lost. ASSUME faults' = faults, rows' = rows, tx' = NoRows, tx[t][o] > 0
         PROVE  Paid(t, o)'
  <2>1. tx'[t][o] = 0
    BY <1>lost DEF NoRows
  <2>2. Copies(t, o)' + 1 <= Copies(t, o)
    BY <2>1, <1>lost, <1>num
  <2>3. Copies(t, o)' + 1 <= 1 + faults'
    BY <2>2, <1>lost, <1>paid, <1>num
  <2>4. QED
    BY <2>3, <1>num DEF Paid
<1>fault. CASE Fault
  <2>1. faults' = faults + 1
    BY <1>fault DEF Fault
  <2>2. Copies(t, o)' <= Copies(t, o)
    BY <2>1, <1>t, <1>num, CopiesStep
  <2>3. QED
    BY <2>1, <2>2, <1>num, <1>paid DEF Paid
\* Outside of flush_batches and of the fallback, nothing is credited.
<1>free. ASSUME faults' = faults, UNCHANGED committed, Copies(t, o)' <= Copies(t, o),
                ~Credited(t, o), o \in Pending(t)' => o \in Pending(t)
         PROVE  Paid(t, o)'
  <2>1. Due(t, o)' => Due(t, o)
    BY <1>free DEF Due
  <2>2. QED
    BY <2>1, <1>free, <1>same
<1>insert. ASSUME NEW S, tx' = Insert(t, S), UNCHANGED <<rows, faults>>, o \in S,
                  Due(t, o), ~Due(t, o)'
           PROVE  Paid(t, o)'
  <2>1. tx'[t][o] = tx[t][o] + 1
    BY <1>insert, <1>t DEF Insert, TypeOK
  <2>2. Copies(t, o)' = Copies(t, o) + 1
    BY <2>1, <1>insert, <1>num
  <2>3. QED
    BY <2>2, <1>insert, <1>paid, <1>num DEF Paid
<1>other. ASSUME NEW u \in Topic, NEW S, tx' = Insert(u, S), rows' = rows,
                 ~(t = u /\ o \in S)
          PROVE  Copies(t, o)' <= Copies(t, o)
  <2>1. tx'[t][o] = tx[t][o]
    BY <1>other, <1>t DEF Insert, TypeOK
  <2>2. QED
    BY <2>1, <1>other, <1>num
<1>1. ASSUME NEW u \in Topic, NEW k \in Kind, Publish(u, k)
      PROVE  Paid(t, o)'
  BY <1>1, <1>same, <1>num DEF Publish, Due, Credited, Pending, Falling, IsNext
<1>2. CASE Start
  BY <1>2, <1>free, <1>num DEF Start, Credited, Pending, Falling, Empty
<1>3. CASE Connect
  BY <1>3, <1>fault, <1>free, <1>num DEF Connect, Credited, Pending, Falling
<1>4. CASE ReachLimit
  BY <1>4, <1>free, <1>num DEF ReachLimit, CallFlush, Credited, Pending, Falling
<1>5. CASE IdleTimeout
  BY <1>5, <1>free, <1>num DEF IdleTimeout, CallFlush, Credited, Pending, Falling
<1>6. CASE PollError
  BY <1>6, <1>fault DEF PollError
<1>7. ASSUME NEW u \in Topic, Deliver(u)
      PROVE  Paid(t, o)'
  <2>1. /\ pc = "loop" /\ UNCHANGED <<committed, rows, tx, faults>>
        /\ pc' \in {"loop", "insert_processed", "returned"}
    BY <1>7 DEF Deliver, CallFlush
  <2>2. \/ batch' = batch
        \/ batch' = [batch EXCEPT ![u] = @ \cup {position[u]}]
    BY <1>7 DEF Deliver
  <2>3. o \in batch'[t] => o \in batch[t] \/ o = position[t]
    BY <2>2, <1>set, SetsUpdated
  <2>4. committed[t] <= position[t]
    BY <2>1 DEF AheadInv
  <2>5. ~Credited(t, o) /\ ~Credited(t, o)'
    BY <2>1 DEF Credited
  <2>6. (o \in Pending(t)' => o \in batch'[t]) /\ Pending(t) = batch[t]
    BY <2>1 DEF Pending, Falling
  <2>7. Due(t, o)' => Due(t, o)
    BY <2>1, <2>3, <2>4, <2>5, <2>6, <1>rng DEF Due
  <2>8. QED
    BY <2>1, <2>7, <1>same, <1>num
<1>8. ASSUME NEW u \in Topic, InsertBatch(u)
      PROVE  Paid(t, o)'
  <2>1. /\ UNCHANGED <<committed, rows, batch>>
        /\ pc = IF u = "processed" THEN "insert_processed" ELSE "insert_invalid"
    BY <1>8 DEF InsertBatch
  <2>2. Pending(t) = batch[t]
    BY <2>1 DEF Pending, Falling
  <2>3. CASE /\ tx' = Insert(u, batch[u]) /\ faults' = faults
             /\ pc' = IF u = "processed" THEN "insert_invalid" ELSE "db_commit"
    <3>1. CASE t = u /\ o \in batch[u]
      <4>1. Due(t, o)
        BY <3>1, <2>1, <2>2 DEF Due, Credited
      <4>2. Credited(t, o)'
        BY <3>1, <2>1, <2>3 DEF Credited, Topic
      <4>3. QED
        BY <3>1, <4>1, <4>2, <2>1, <2>3, <1>insert DEF Due
    <3>2. CASE ~(t = u /\ o \in batch[u])
      <4>1. Credited(t, o) => Credited(t, o)'
        BY <2>1, <2>3 DEF Credited, Topic
      <4>2. Pending(t)' = Pending(t)
        BY <2>1, <2>2, <2>3 DEF Pending, Falling
      <4>3. Due(t, o)' => Due(t, o)
        BY <4>1, <4>2, <2>1 DEF Due
      <4>4. QED
        BY <3>2, <4>3, <2>1, <2>3, <1>other, <1>same
    <3>3. QED
      BY <3>1, <3>2
  <2>4. CASE /\ tx' = NoRows /\ faults' = faults
             /\ \/ pc' = "fallback" /\ todo' = batch
                \/ pc' \in {"finally", "unwind"}
    <3>1. CASE Credited(t, o)
      <4>1. tx[t][o] > 0
        BY <3>1, <2>1 DEF Credited, LoadInv, BatchInserted
      <4>2. QED
        BY <4>1, <2>1, <2>4, <1>lost
    <3>2. CASE ~Credited(t, o)
      <4>1. Pending(t)' = Pending(t)
        BY <2>1, <2>2, <2>4 DEF Pending, Falling
      <4>2. Copies(t, o)' <= Copies(t, o)
        <5>1. tx'[t][o] = 0
          BY <2>4 DEF NoRows
        <5>2. QED
          BY <5>1, <2>1, <1>num
      <4>3. QED
        BY <3>2, <4>1, <4>2, <2>1, <2>4, <1>free
    <3>3. QED
      BY <3>1, <3>2
  <2>5. QED
    BY <1>8, <1>fault, <2>3, <2>4 DEF InsertBatch, Rollback, Raise
<1>9. CASE CommitBatch
  <2>1. CASE /\ rows' = Durable /\ tx' = NoRows /\ pc' = "offsets" /\ faults' = faults
    <3>1. pc = "db_commit" /\ UNCHANGED <<committed, batch>>
      BY <1>9 DEF CommitBatch
    <3>2. Copies(t, o)' <= Copies(t, o)
      <4>1. tx'[t][o] = 0 /\ rows'[t][o] = rows[t][o] + tx[t][o]
        BY <2>1, <1>t, DurableGrows DEF NoRows
      <4>2. QED
        BY <4>1, <1>num
    <3>3. Pending(t)' = Pending(t) /\ (Credited(t, o) => Credited(t, o)')
      BY <2>1, <3>1 DEF Pending, Falling, Credited
    <3>4. Due(t, o)' => Due(t, o)
      BY <3>1, <3>3 DEF Due
    <3>5. QED
      BY <2>1, <3>2, <3>4, <1>same
  <2>2. QED
    BY <1>9, <2>1, <1>fault DEF CommitBatch
<1>10. CASE CommitBatchOffsets
  <2>1. /\ pc = "offsets" /\ pc' = "returned" /\ UNCHANGED <<rows, tx, log, position>>
    BY <1>10 DEF CommitBatchOffsets
  <2>2. CASE faults' = faults /\ OffsetAfter(batch[t], committed[t], committed'[t])
    <3>1. Pending(t)' = {} /\ Pending(t) = batch[t]
      BY <2>1 DEF Pending, Falling
    <3>2. ASSUME Storable(t, o)', Due(t, o)'
          PROVE  Due(t, o)
      <4>1. o >= committed'[t]
        BY <3>1, <3>2 DEF Due
      <4>2. o \notin batch[t]
        BY <4>1, <2>2, <1>rng DEF OffsetAfter
      <4>3. ~Credited(t, o)
        BY <2>1, <4>2 DEF Credited
      <4>4. CASE batch[t] = {}
        BY <4>1, <4>3, <4>4, <2>2 DEF Due, OffsetAfter
      <4>5. CASE batch[t] # {} /\ o < committed[t]
        <5>1. PICK q \in batch[t] : q = committed'[t] - 1
          BY <4>5, <2>2, <1>rng DEF OffsetAfter
        <5>2. q < o /\ o < position[t]
          BY <5>1, <4>1, <4>5, <2>1, <1>rng DEF AheadInv
        <5>3. KindOf(t, o) # "ok"
          BY <5>1, <5>2, <4>2, <2>1 DEF CopiesInv, BatchSolid
        <5>4. QED
          BY <5>3, <3>2, <2>1 DEF Storable, KindOf
      <4>6. CASE o >= committed[t]
        BY <4>3, <4>6 DEF Due
      <4>7. QED
        BY <4>4, <4>5, <4>6, <1>rng
    <3>3. Copies(t, o)' <= Copies(t, o)
      BY <2>1, <1>num
    <3>4. QED
      BY <2>2, <3>2, <3>3, <1>same, <1>ok
  <2>3. QED
    BY <1>10, <2>2, <1>fault DEF CommitBatchOffsets
<1>11. ASSUME NEW u \in Topic, NEW q \in Offset, InsertOne(u, q)
       PROVE  Paid(t, o)'
  <2>1. /\ pc = "fallback" /\ IsNext(u, q) /\ UNCHANGED <<committed, rows, batch>>
    BY <1>11 DEF InsertOne
  <2>2. Pending(t) = todo[t] /\ ~Credited(t, o)
    BY <2>1 DEF Pending, Falling, Credited
  <2>3. CASE /\ tx' = Insert(u, {q}) /\ faults' = faults
             /\ pc' = "one_commit" /\ todo' = todo
    <3>1. CASE t = u /\ o = q
      <4>1. Due(t, o)
        BY <3>1, <2>1, <2>2 DEF Due, IsNext
      <4>2. Credited(t, o)'
        BY <3>1, <2>1, <2>3 DEF Credited, IsNext
      <4>3. QED
        BY <3>1, <4>1, <4>2, <2>1, <2>3, <1>insert DEF Due
    <3>2. CASE ~(t = u /\ o = q)
      <4>1. Pending(t)' = Pending(t)
        BY <2>1, <2>3 DEF Pending, Falling
      <4>2. Copies(t, o)' <= Copies(t, o)
        BY <3>2, <2>1, <2>3, <1>other
      <4>3. QED
        BY <4>1, <4>2, <2>1, <2>2, <2>3, <1>free
    <3>3. QED
      BY <3>1, <3>2
  <2>4. CASE /\ tx' = NoRows /\ faults' = faults /\ pc' = "fallback"
             /\ todo' = [todo EXCEPT ![u] = @ \ {q}]
    <3>1. Pending(t)' = todo'[t]
      BY <2>4 DEF Pending, Falling
    <3>2. todo'[t] \subseteq todo[t]
      BY <2>4, <1>set, SetsUpdated
    <3>3. Copies(t, o)' <= Copies(t, o)
      <4>1. tx'[t][o] = 0
        BY <2>4 DEF NoRows
      <4>2. QED
        BY <4>1, <2>1, <1>num
    <3>4. QED
      BY <3>1, <3>2, <3>3, <2>1, <2>2, <2>4, <1>free
  <2>5. QED
    BY <1>11, <1>fault, <2>3, <2>4 DEF InsertOne, Rollback, GiveUp, Handled
<1>12. ASSUME NEW u \in Topic, NEW q \in Offset, CommitOne(u, q)
       PROVE  Paid(t, o)'
  <2>1. CASE /\ rows' = Durable /\ tx' = NoRows /\ pc' = "one_offset"
             /\ faults' = faults /\ todo' = todo
    <3>1. pc = "one_commit" /\ UNCHANGED <<committed, batch>>
      BY <1>12 DEF CommitOne
    <3>2. Copies(t, o)' <= Copies(t, o)
      <4>1. tx'[t][o] = 0 /\ rows'[t][o] = rows[t][o] + tx[t][o]
        BY <2>1, <1>t, DurableGrows DEF NoRows
      <4>2. QED
        BY <4>1, <1>num
    <3>3. Pending(t)' = Pending(t) /\ (Credited(t, o) => Credited(t, o)')
      BY <2>1, <3>1 DEF Pending, Falling, Credited, IsNext
    <3>4. Due(t, o)' => Due(t, o)
      BY <3>1, <3>3 DEF Due
    <3>5. QED
      BY <2>1, <3>2, <3>4, <1>same
  <2>2. QED
    BY <1>12, <2>1, <1>fault DEF CommitOne
<1>13. ASSUME NEW u \in Topic, NEW q \in Offset, CommitOneOffset(u, q)
       PROVE  Paid(t, o)'
  <2>1. /\ pc = "one_offset" /\ pc' = "fallback" /\ IsNext(u, q)
        /\ todo' = [todo EXCEPT ![u] = @ \ {q}]
        /\ UNCHANGED <<rows, tx, log, position, batch>>
    BY <1>13 DEF CommitOneOffset, Handled
  <2>2. CASE faults' = faults /\ committed' = [committed EXCEPT ![u] = q + 1]
    <3>1. /\ Pending(t) = todo[t] /\ Pending(t)' = todo'[t]
          /\ Credited(t, o) <=> IsNext(t, o)
      BY <2>1 DEF Pending, Falling, Credited
    <3>2. /\ todo'[t] = IF t = u THEN todo[t] \ {q} ELSE todo[t]
          /\ committed'[t] = IF t = u THEN q + 1 ELSE committed[t]
      <4>1. todo'[t] = IF t = u THEN todo[t] \ {q} ELSE todo[t]
        BY <2>1, <1>set, SetsUpdated
      <4>2. committed \in [Topic -> 0..MaxOffset]
        BY <1>t DEF TypeOK
      <4>3. QED
        BY <4>1, <4>2, <2>2
    <3>3. IsNext(t, o) => t = u /\ o = q
      BY <2>1, <1>t, OneNext
    <3>4. ASSUME Storable(t, o)', Due(t, o)'
          PROVE  Due(t, o)
      <4>1. o >= committed'[t] \/ o \in todo'[t]
        BY <3>1, <3>4 DEF Due
      <4>2. ~(t = u /\ o = q)
        BY <4>1, <3>2, <1>rng
      <4>3. ~Credited(t, o)
        BY <4>2, <3>1, <3>3
      <4>4. CASE o \in todo[t]
        BY <4>3, <4>4, <3>1 DEF Due
      <4>5. CASE o >= committed[t]
        BY <4>3, <4>5 DEF Due
      <4>6. CASE o \notin todo[t] /\ o < committed[t]
        <5>1. t = u /\ q < o
          BY <4>1, <4>6, <3>2, <1>rng
        <5>2. q \in todo[t] /\ q \in batch[t]
          BY <5>1, <1>13, EntryBuffered
        <5>3. o < position[t]
          BY <4>6, <2>1, <1>rng DEF AheadInv
        <5>4. o \in batch[t] \/ KindOf(t, o) # "ok"
          BY <5>1, <5>2, <5>3, <2>1 DEF CopiesInv, BatchSolid
        <5>5. o \notin batch[t]
          <6>1. q <= o
            BY <5>1, <1>rng
          <6>2. TodoSolid /\ Falling
            BY <2>1 DEF CopiesInv, Falling
          <6>3. QED
            BY <6>1, <6>2, <5>2, <4>6 DEF TodoSolid
        <5>6. QED
          BY <5>4, <5>5, <3>4, <2>1 DEF Storable, KindOf
      <4>7. QED
        BY <4>4, <4>5, <4>6, <1>rng
    <3>5. Copies(t, o)' <= Copies(t, o)
      BY <2>1, <1>num
    <3>6. QED
      BY <2>2, <3>4, <3>5, <1>same, <1>ok
  <2>3. QED
    BY <1>13, <2>2, <1>fault DEF CommitOneOffset
<1>14. CASE FallbackDone
  BY <1>14, <1>free, <1>num DEF FallbackDone, Credited, Pending, Falling
<1>15. CASE FlushReturned
  BY <1>15, <1>free, <1>num DEF FlushReturned, Credited, Pending, Falling, Empty
<1>16. CASE Finally
  BY <1>16, <1>free, <1>num DEF Finally, CallFlush, Credited, Pending, Falling
<1>leave. ASSUME NEW code, pc \in {"close", "unwind"}, Leave(code), faults' = faults
          PROVE  Paid(t, o)'
  <2>1. Copies(t, o)' <= Copies(t, o)
    <3>1. tx'[t][o] = 0 /\ rows' = rows
      BY <1>leave DEF Leave, NoRows
    <3>2. QED
      BY <3>1, <1>num
  <2>2. QED
    BY <2>1, <1>leave, <1>free DEF Leave, Credited, Pending, Falling
<1>17. CASE Close
  BY <1>17, <1>leave DEF Close
<1>18. CASE Unwind
  BY <1>18, <1>leave DEF Unwind
<1>19. CASE Interrupt
  BY <1>19, <1>fault DEF Interrupt
<1>20. CASE Kill
  BY <1>20, <1>fault DEF Kill
<1>21. CASE UNCHANGED vars
  BY <1>21, <1>same, <1>num DEF vars, Due, Credited, Pending, Falling, IsNext
<1>22. QED
  BY <1>1, <1>2, <1>3, <1>4, <1>5, <1>6, <1>7, <1>8, <1>9, <1>10, <1>11, <1>12, <1>13,
     <1>14, <1>15, <1>16, <1>17, <1>18, <1>19, <1>20, <1>21
  DEF Next, LoaderStep, Environment

LEMMA CopiesInvInit == Init => CopiesInv
<1> SUFFICES ASSUME Init PROVE CopiesInv
  OBVIOUS
<1>1. \A t \in Topic, o \in Offset : Copies(t, o) = 0
  BY DEF Init, Copies, NoRows
<1>2. BatchSolid /\ TodoSolid
  BY DEF Init, BatchSolid, TodoSolid, Falling
<1>3. CopiesPaid
  BY <1>1 DEF Init, CopiesPaid, Paid
<1>4. QED
  BY <1>2, <1>3 DEF CopiesInv

LEMMA CopiesBound == LoadInv /\ CopiesInv => DuplicatesBounded
<1> SUFFICES ASSUME LoadInv, CopiesInv, NEW t \in Topic, NEW o \in Offset
             PROVE  rows[t][o] <= 1 + faults
  BY DEF DuplicatesBounded
<1>1. rows[t][o] \in Nat /\ tx[t][o] \in Nat /\ faults \in Nat
  BY LoaderAssumption DEF LoadInv, TypeOK
<1>2. Copies(t, o) + (IF Due(t, o) THEN 1 ELSE 0) <= 1 + faults
  BY DEF CopiesInv, CopiesPaid, Paid
<1>3. QED
  BY <1>1, <1>2 DEF Copies

\* A failure costs at most one copy of a message, and loading is exactly-once
\* without failures, for every batch size and across any number of restarts.
THEOREM CopiesBoundedByFaults == Spec => []DuplicatesBounded
<1>1. LoadInv /\ FlowInv /\ SourceInv /\ AheadInv /\ CopiesInv /\ [Next]_vars => CopiesInv'
  BY BatchSolidStep, TodoSolidStep, CopiesPaidStep DEF CopiesInv
<1>2. QED
  BY <1>1, CopiesInvInit, CopiesBound, LoaderInvariant, PTL DEF Spec

-----------------------------------------------------------------------------
(***************************************************************************)
(* The end of a run.  Beside the fairness, RunEnds rests on two facts: a   *)
(* run that has not ended has a step to take, and every step but an error  *)
(* of poll brings it nearer to its end.                                    *)
(***************************************************************************)

\* How far from its end a run is.  A flush belongs to the loop, to the way out
\* of it, or to the finally block, by its caller.
Stage == CASE pc = "off" -> 0
           [] pc = "unwind" -> 1
           [] pc = "close" -> 2
           [] pc \in FlushPoint /\ caller = "final" -> 3
           [] pc = "finally" -> 4
           [] pc \in FlushPoint /\ caller \in {"limit", "idle"} -> 5
           [] pc = "connect" -> 7
           [] OTHER -> 6

\* The messages that may still be published and read.
Unread == 2 * MaxOffset - position["processed"] - position["invalid"]

\* What a flush has still to do, and what it has to do for one entry.
FlushLeft == CASE pc = "insert_processed" -> 5
               [] pc = "insert_invalid" -> 4
               [] pc = "db_commit" -> 3
               [] pc = "returned" -> 1
               [] pc = "loop" -> 0
               [] OTHER -> 2
EntryLeft == CASE pc = "fallback" -> 2 [] pc = "one_commit" -> 1 [] OTHER -> 0

FewerTodo == todo' # todo /\ \A t \in Topic : todo'[t] \subseteq todo[t]

\* The run is nearer to its end: by stage, then by what it can still read, by
\* the progress of its flush, and in the fallback by its entries.
Nearer ==
    \/ Stage' < Stage
    \/ /\ Stage' = Stage
       /\ \/ Unread' < Unread
          \/ /\ Unread' = Unread
             /\ \/ FlushLeft' < FlushLeft
                \/ FlushLeft' = FlushLeft /\ FewerTodo
                \/ FlushLeft' = FlushLeft /\ todo' = todo /\ EntryLeft' < EntryLeft

\* Each step of a run, interrupts and kills included, brings it nearer to its
\* end; a message that is published, or an error of poll, which costs one of
\* the failures, leaves it where it is.
RunAdvances ==
    [][pc # "off" =>
          \/ Nearer
          \/ /\ UNCHANGED <<pc, caller, position, batch, todo>>
             /\ PollError \/ \E t \in Topic, k \in Kind : Publish(t, k)]_vars

\* The guards of LoaderStep's actions.
LoaderAble ==
    \/ pc \in {"connect", "loop", "db_commit", "finally", "close", "unwind"}
    \/ pc \in {"insert_processed", "insert_invalid"} /\ conn # "none"
    \/ /\ pc = "offsets"
       /\ \E n \in [Topic -> 0..MaxOffset] :
             \A t \in Topic : OffsetAfter(batch[t], committed[t], n[t])
    \/ pc = "fallback" /\ todo = Empty
    \/ /\ pc \in {"fallback", "one_commit", "one_offset"}
       /\ \E t \in Topic, o \in Offset : IsNext(t, o)
    \/ pc = "returned" /\ caller \in {"size", "limit", "idle", "final"}

\* A run that has not ended meets the guard of one of its own steps.
LoaderNotStuck == pc # "off" => LoaderAble

\* A run without a connection has buffered nothing; a flush has a caller; and
\* the entry that is being inserted is the fallback's next.
FlushReady ==
    /\ pc # "off" /\ conn = "none" => batch = Empty
    /\ pc \in FlushPoint => caller \in {"size", "limit", "idle", "final"}
    /\ pc \in {"one_commit", "one_offset"} => \E t \in Topic, o \in Offset : IsNext(t, o)

LEMMA AdvanceStep ==
    ASSUME TypeOK, [Next]_vars, pc # "off", ~UNCHANGED vars
    PROVE  \/ Nearer
           \/ /\ UNCHANGED <<pc, caller, position, batch, todo>>
              /\ PollError \/ \E t \in Topic, k \in Kind : Publish(t, k)
<1> USE DEF broker, postgres, buffers, counters, history, control
<1>1. /\ position \in [Topic -> 0..MaxOffset] /\ MaxOffset \in Nat
      /\ pc \in ProgramPoint /\ caller \in {"none", "size", "limit", "idle", "final"}
      /\ todo \in [Topic -> SUBSET Offset]
  BY LoaderAssumption DEF TypeOK
<1>2. Unread \in Int
  BY <1>1 DEF Unread, Topic
<1>3. CASE Connect \/ ReachLimit \/ IdleTimeout \/ Finally \/ Close \/ Unwind
           \/ Interrupt \/ Kill
  <2>1. Stage' < Stage
    BY <1>1, <1>3 DEF Connect, ReachLimit, IdleTimeout, CallFlush, Finally, Close, Unwind,
       Interrupt, Kill, Leave, Stage, FlushPoint, ProgramPoint
  <2> QED
    BY <2>1 DEF Nearer
<1>4. ASSUME NEW t \in Topic, Deliver(t)
      PROVE  Nearer
  <2>1. Stage' = Stage
    BY <1>1, <1>4 DEF Deliver, CallFlush, Stage, FlushPoint
  <2>2. Unread' = Unread - 1
    BY <1>1, <1>4 DEF Deliver, Unread, Topic
  <2> QED
    BY <1>2, <2>1, <2>2 DEF Nearer
<1>5. CASE /\ UNCHANGED <<caller, position>>
           /\ pc \in FlushPoint
           /\ pc' = IF caller = "final" THEN "unwind" ELSE "finally"
  <2>1. Stage' < Stage
    BY <1>1, <1>5 DEF Stage, FlushPoint
  <2> QED
    BY <2>1 DEF Nearer
<1>6. CASE /\ UNCHANGED <<caller, position>>
           /\ pc \in FlushPoint
           /\ pc' \in FlushPoint
           /\ FlushLeft' < FlushLeft
  <2>1. Stage' = Stage
    BY <1>1, <1>6 DEF Stage, FlushPoint
  <2>2. Unread' = Unread
    BY <1>6 DEF Unread
  <2> QED
    BY <1>6, <2>1, <2>2 DEF Nearer
<1>7. ASSUME UNCHANGED <<caller, position>>,
             pc \in {"fallback", "one_commit", "one_offset"},
             pc' \in {"fallback", "one_commit", "one_offset"},
             FewerTodo \/ (todo' = todo /\ EntryLeft' < EntryLeft)
      PROVE  Nearer
  <2>1. Stage' = Stage
    BY <1>1, <1>7 DEF Stage, FlushPoint
  <2>2. Unread' = Unread /\ FlushLeft' = FlushLeft
    BY <1>7 DEF Unread, FlushLeft
  <2> QED
    BY <1>7, <2>1, <2>2 DEF Nearer
<1>8. ASSUME NEW t \in Topic, InsertBatch(t)
      PROVE  Nearer
  BY <1>5, <1>6, <1>8 DEF InsertBatch, Raise, FlushPoint, FlushLeft
<1>9. CASE CommitBatch
  BY <1>5, <1>6, <1>9 DEF CommitBatch, Raise, FlushPoint, FlushLeft
<1>10. CASE CommitBatchOffsets \/ FallbackDone
  BY <1>6, <1>10 DEF CommitBatchOffsets, FallbackDone, FlushPoint, FlushLeft
<1>11. ASSUME NEW t \in Topic, NEW o \in Offset, IsNext(t, o), todo' = Handled(t, o)
       PROVE  FewerTodo
  BY <1>1, <1>11 DEF IsNext, Handled, FewerTodo
<1>12. ASSUME NEW t \in Topic, NEW o \in Offset, InsertOne(t, o)
       PROVE  Nearer
  <2>1. UNCHANGED <<caller, position>> /\ pc = "fallback" /\ IsNext(t, o)
    BY <1>12 DEF InsertOne
  <2>2. CASE GiveUp(t, o)
    BY <1>7, <1>11, <2>1, <2>2 DEF GiveUp
  <2>3. CASE Raise
    BY <1>5, <2>1, <2>3 DEF Raise, FlushPoint
  <2>4. CASE pc' = "one_commit" /\ todo' = todo
    BY <1>7, <2>1, <2>4 DEF EntryLeft
  <2> QED
    BY <1>12, <2>2, <2>3, <2>4 DEF InsertOne
<1>13. ASSUME NEW t \in Topic, NEW o \in Offset, CommitOne(t, o)
       PROVE  Nearer
  <2>1. UNCHANGED <<caller, position>> /\ pc = "one_commit" /\ IsNext(t, o)
    BY <1>13 DEF CommitOne
  <2>2. CASE GiveUp(t, o)
    BY <1>7, <1>11, <2>1, <2>2 DEF GiveUp
  <2>3. CASE Raise
    BY <1>5, <2>1, <2>3 DEF Raise, FlushPoint
  <2>4. CASE pc' = "one_offset" /\ todo' = todo
    BY <1>7, <2>1, <2>4 DEF EntryLeft
  <2> QED
    BY <1>13, <2>2, <2>3, <2>4 DEF CommitOne
<1>14. ASSUME NEW t \in Topic, NEW o \in Offset, CommitOneOffset(t, o)
       PROVE  Nearer
  BY <1>7, <1>11, <1>14 DEF CommitOneOffset
<1>15. CASE FlushReturned
  <2>1. CASE caller = "size"
    <3>1. Stage' = Stage /\ Unread' = Unread /\ FlushLeft' < FlushLeft
      BY <1>15, <2>1 DEF FlushReturned, Stage, Unread, FlushLeft, FlushPoint
    <3> QED
      BY <3>1 DEF Nearer
  <2>2. CASE caller # "size"
    <3>1. Stage' < Stage
      BY <1>15, <2>2 DEF FlushReturned, Stage, FlushPoint
    <3> QED
      BY <3>1 DEF Nearer
  <2> QED
    BY <2>1, <2>2
<1>16. CASE PollError \/ \E t \in Topic, k \in Kind : Publish(t, k)
  BY <1>16 DEF PollError, Publish
<1>17. ~Start
  BY DEF Start
<1> QED
  BY <1>3, <1>4, <1>8, <1>9, <1>10, <1>12, <1>13, <1>14, <1>15, <1>16, <1>17
  DEF Next, LoaderStep, Environment

\* No run goes on for ever unless polling fails for ever: whatever fails and
\* wherever it is interrupted, each step leaves it nearer to its end.
THEOREM RunsAdvance == Spec => RunAdvances
<1>1. TypeOK /\ [Next]_vars
          => [pc # "off" =>
                 \/ Nearer
                 \/ /\ UNCHANGED <<pc, caller, position, batch, todo>>
                    /\ PollError \/ \E t \in Topic, k \in Kind : Publish(t, k)]_vars
  BY AdvanceStep
<1> QED
  BY <1>1, TypeInit, TypeStep, PTL DEF Spec, RunAdvances
\* A set of numbers that is not empty has a least one.
LEMMA LeastNumber ==
    ASSUME NEW S \in SUBSET Nat, S # {}
    PROVE  \E x \in S : \A y \in S : x <= y
<1>1. PICK x \in S : \A y \in S : ~(<<y, x>> \in OpToRel(<, Nat))
  BY NatLessThanWellFounded, WFMin, Zenon
<1>2. ASSUME NEW y \in S
      PROVE  x <= y
  <2>1. ~(<<y, x>> \in OpToRel(<, Nat))
    BY <1>1
  <2>2. <<y, x>> \in OpToRel(<, Nat) <=> y < x
    BY DEF OpToRel
  <2>3. ~(y < x)
    BY <2>1, <2>2, Zenon
  <2> QED
    BY <2>3
<1> QED
  BY <1>2

\* There is an offset to commit for every batch.
LEMMA OffsetExists ==
    ASSUME NEW S \in SUBSET Offset, NEW c \in 0..MaxOffset
    PROVE  \E n \in 0..MaxOffset : OffsetAfter(S, c, n)
<1>1. CASE S = {}
  BY <1>1 DEF OffsetAfter
<1>2. CASE S # {}
  <2> DEFINE Above == {m \in 0..MaxOffset : \A o \in S : o < m}
  <2>1. MaxOffset \in Above /\ Above \in SUBSET Nat
    BY LoaderAssumption DEF Offset
  <2>2. PICK n \in Above : \A m \in Above : n <= m
    BY <2>1, LeastNumber
  <2>3. n \in 0..MaxOffset /\ n # 0 /\ \A o \in S : o < n
    <3>1. n \in 0..MaxOffset /\ \A o \in S : o < n
      OBVIOUS
    <3>2. PICK o \in S : TRUE
      BY <1>2
    <3>3. o \in Nat
      BY LoaderAssumption DEF Offset
    <3> QED
      BY <3>1, <3>3
  <2>4. n - 1 \in S
    <3> SUFFICES ASSUME n - 1 \notin S
                 PROVE  FALSE
      OBVIOUS
    <3>1. n - 1 \in 0..MaxOffset
      BY <2>3, LoaderAssumption
    <3>2. \A o \in S : o < n - 1
      BY <2>3, LoaderAssumption DEF Offset
    <3>3. n - 1 \in Above
      BY <3>1, <3>2
    <3> HIDE DEF Above
    <3> QED
      BY <2>2, <2>3, <3>3
  <2> QED
    BY <1>2, <2>3, <2>4 DEF OffsetAfter
<1> QED
  BY <1>1, <1>2

\* While the fallback has entries, one of them is next.
LEMMA NextEntry ==
    ASSUME TypeOK, todo # Empty
    PROVE  \E t \in Topic, o \in Offset : IsNext(t, o)
<1>1. todo \in [Topic -> SUBSET Offset] /\ Offset \subseteq Nat
  BY DEF TypeOK, Offset
<1>2. CASE todo["processed"] # {}
  <2>1. todo["processed"] \in SUBSET Nat /\ todo["processed"] \subseteq Offset
    BY <1>1 DEF Topic
  <2>2. PICK o \in todo["processed"] : \A q \in todo["processed"] : o <= q
    BY <1>2, <2>1, LeastNumber
  <2>3. IsNext("processed", o)
    BY <2>2 DEF IsNext
  <2> QED
    BY <2>1, <2>3 DEF Topic
<1>3. CASE todo["processed"] = {}
  <2>1. todo["invalid"] # {}
    BY <1>1, <1>3 DEF Empty, Topic
  <2>2. todo["invalid"] \in SUBSET Nat /\ todo["invalid"] \subseteq Offset
    BY <1>1 DEF Topic
  <2>3. PICK o \in todo["invalid"] : \A q \in todo["invalid"] : o <= q
    BY <2>1, <2>2, LeastNumber
  <2>4. IsNext("invalid", o)
    BY <1>3, <2>3 DEF IsNext
  <2> QED
    BY <2>2, <2>4 DEF Topic
<1> QED
  BY <1>2, <1>3

LEMMA FlushReadyInit == Init => FlushReady
BY DEF Init, FlushReady, FlushPoint

LEMMA FlushReadyStep ==
    ASSUME TypeOK, FlowInv, FlushReady, [Next]_vars
    PROVE  FlushReady'
<1> USE DEF broker, postgres, buffers, counters, history, control, FlushPoint
<1>1. CASE Start
  BY <1>1 DEF Start, FlushReady
<1>2. CASE Connect
  BY <1>2 DEF Connect, FlushReady, FlowInv, TransactionOK
<1>3. CASE ReachLimit \/ IdleTimeout \/ Finally \/ Close \/ Unwind \/ Kill \/ PollError
  BY <1>3 DEF ReachLimit, IdleTimeout, CallFlush, Finally, Close, Unwind, Kill, Leave,
     PollError, FlushReady
<1>4. ASSUME NEW t \in Topic, Deliver(t)
      PROVE  FlushReady'
  <2>1. conn' = "ok"
    BY <1>4 DEF Deliver, FlowInv, FlowOK, TransactionOK
  <2> QED
    BY <1>4, <2>1 DEF Deliver, CallFlush, FlushReady
<1>5. ASSUME NEW t \in Topic, InsertBatch(t)
      PROVE  FlushReady'
  <2>1. conn' # conn => conn' # "none"
    BY <1>5 DEF InsertBatch, Rollback, Raise
  <2>2. UNCHANGED <<batch, caller>> /\ pc \in FlushPoint
    BY <1>5 DEF InsertBatch
  <2>3. pc' \notin {"one_commit", "one_offset"}
    BY <1>5 DEF InsertBatch, Raise
  <2> QED
    BY <2>1, <2>2, <2>3 DEF FlushReady
<1>6. CASE CommitBatch
  <2>1. conn' # conn => conn' # "none"
    BY <1>6 DEF CommitBatch, Rollback, Raise
  <2>2. UNCHANGED <<batch, caller>> /\ pc \in FlushPoint
    BY <1>6 DEF CommitBatch
  <2>3. pc' \notin {"one_commit", "one_offset"}
    BY <1>6 DEF CommitBatch, Raise
  <2> QED
    BY <2>1, <2>2, <2>3 DEF FlushReady
<1>7. CASE CommitBatchOffsets \/ FallbackDone
  BY <1>7 DEF CommitBatchOffsets, FallbackDone, FlushReady
<1>8. ASSUME NEW t \in Topic, NEW o \in Offset, InsertOne(t, o) \/ CommitOne(t, o)
      PROVE  FlushReady'
  <2>1. conn' # conn => conn' # "none"
    BY <1>8 DEF InsertOne, CommitOne, Rollback, Raise
  <2>2. UNCHANGED <<batch, caller>> /\ pc \in FlushPoint /\ IsNext(t, o)
    BY <1>8 DEF InsertOne, CommitOne
  <2>3. pc' \in {"one_commit", "one_offset"} => todo' = todo
    BY <1>8 DEF InsertOne, CommitOne, GiveUp, Raise
  <2>4. todo' = todo => IsNext(t, o)'
    BY <2>2 DEF IsNext
  <2> QED
    BY <2>1, <2>2, <2>3, <2>4 DEF FlushReady
<1>9. ASSUME NEW t \in Topic, NEW o \in Offset, CommitOneOffset(t, o)
      PROVE  FlushReady'
  BY <1>9 DEF CommitOneOffset, FlushReady
<1>10. CASE FlushReturned
  BY <1>10 DEF FlushReturned, FlushReady
<1>11. CASE Interrupt
  <2>1. conn' # conn => conn' # "none"
    BY <1>11 DEF Interrupt
  <2> QED
    BY <1>11, <2>1 DEF Interrupt, FlushReady
<1>12. ASSUME NEW t \in Topic, NEW k \in Kind, Publish(t, k)
       PROVE  FlushReady'
  BY <1>12 DEF Publish, FlushReady, IsNext
<1>13. CASE UNCHANGED vars
  BY <1>13 DEF vars, FlushReady, IsNext
<1> QED
  BY <1>1, <1>2, <1>3, <1>4, <1>5, <1>6, <1>7, <1>8, <1>9, <1>10, <1>11, <1>12, <1>13
  DEF Next, LoaderStep, Environment

\* No failure, interrupt or restart leaves a run at a point where it can do
\* nothing: not inside a flush over a dead connection, and not in a fallback.
THEOREM NeverStuck == Spec => []LoaderNotStuck
<1>1. TypeOK /\ FlowInv /\ FlushReady /\ [Next]_vars => FlushReady'
  BY FlushReadyStep
<1>2. TypeOK /\ FlowInv /\ FlushReady => LoaderNotStuck
  <2> SUFFICES ASSUME TypeOK, FlowInv, FlushReady, pc # "off"
               PROVE  LoaderAble
    BY DEF LoaderNotStuck
  <2>1. pc \in ProgramPoint /\ batch \in [Topic -> SUBSET Offset]
        /\ committed \in [Topic -> 0..MaxOffset]
    BY DEF TypeOK
  <2>2. CASE pc \in {"insert_processed", "insert_invalid"}
    <3>1. batch # Empty
      BY <2>2, EmptySize DEF FlowInv, FlushHasWork, FlushPoint
    <3> QED
      BY <2>2, <3>1 DEF FlushReady, LoaderAble
  <2>3. CASE pc = "offsets"
    <3> DEFINE n == [t \in Topic |-> CHOOSE m \in 0..MaxOffset :
                                         OffsetAfter(batch[t], committed[t], m)]
    <3>1. ASSUME NEW t \in Topic
          PROVE  n[t] \in 0..MaxOffset /\ OffsetAfter(batch[t], committed[t], n[t])
      <4>1. \E m \in 0..MaxOffset : OffsetAfter(batch[t], committed[t], m)
        BY <2>1, OffsetExists
      <4> QED
        BY <4>1
    <3>2. n \in [Topic -> 0..MaxOffset]
      BY <3>1
    <3> HIDE DEF n
    <3> QED
      BY <2>3, <3>1, <3>2 DEF LoaderAble
  <2>4. CASE pc = "fallback"
    BY <2>4, NextEntry DEF LoaderAble
  <2>5. CASE pc \in {"one_commit", "one_offset", "returned"}
    BY <2>5 DEF FlushReady, FlushPoint, LoaderAble
  <2> QED
    BY <2>1, <2>2, <2>3, <2>4, <2>5 DEF LoaderAble, ProgramPoint
<1> QED
  BY <1>1, <1>2, FlushReadyInit, SourceInvariant, PTL DEF Spec
=============================================================================
