------------------------ MODULE WarehouseLoaderProofs ------------------------
(***************************************************************************)
(* Proofs about the warehouse loader for every topic length, batch size,   *)
(* message limit, and number of faults and runs.                           *)
(***************************************************************************)
EXTENDS WarehouseLoader, FiniteSetTheorems, TLAPS

\* The size of a buffered batch is a natural number.
LEMMA BufferSize ==
    ASSUME NEW S, S \subseteq Offset
    PROVE  Cardinality(S) \in Nat
<1>1. IsFiniteSet(Offset)
  BY LoaderAssumption, FS_Interval DEF Offset
<1>2. IsFiniteSet(S)
  BY <1>1, FS_Subset
<1>3. QED
  BY <1>2, FS_CardinalityType

LEMMA InsertType ==
    ASSUME TypeOK, NEW t \in Topic, NEW S
    PROVE  Insert(t, S) \in [Topic -> [Offset -> Nat]]
BY DEF TypeOK, Insert

\* What is inserted is in the transaction.
LEMMA Inserted ==
    ASSUME TypeOK, NEW t \in Topic, NEW S, NEW o \in Offset, o \in S
    PROVE  Insert(t, S)[t][o] > 0
<1>1. tx \in [Topic -> [Offset -> Nat]]
  BY DEF TypeOK
<1>2. Insert(t, S)[t][o] = tx[t][o] + 1
  BY <1>1 DEF Insert
<1>3. QED
  BY <1>1, <1>2

LEMMA DurableType ==
    ASSUME TypeOK
    PROVE  Durable \in [Topic -> [Offset -> Nat]]
BY DEF TypeOK, Durable

LEMMA FailedType ==
    ASSUME NEW n \in [Counter -> Nat]
    PROVE  Failed(n) \in [Counter -> Nat]
BY DEF Failed, Counter

LEMMA NoRowsType == NoRows \in [Topic -> [Offset -> Nat]]
BY DEF NoRows

LEMMA EmptyType == Empty \in [Topic -> SUBSET Offset]
BY DEF Empty

LEMMA ZeroType == Zero \in [Counter -> Nat]
BY DEF Zero

LEMMA AddOffsetType ==
    ASSUME NEW f \in [Topic -> SUBSET Offset], NEW t \in Topic, NEW o \in Offset
    PROVE  [f EXCEPT ![t] = @ \cup {o}] \in [Topic -> SUBSET Offset]
OBVIOUS

\* A call of flush_batches keeps the control variables in their ranges.
LEMMA CallFlushType ==
    ASSUME NEW c \in {"none", "size", "limit", "idle", "final"}, NEW b,
           NEW n \in [Counter -> Nat], CallFlush(c, b, n)
    PROVE  /\ caller' \in {"none", "size", "limit", "idle", "final"}
           /\ local' \in [Counter -> Nat]
           /\ pc' \in ProgramPoint
BY DEF CallFlush, ProgramPoint

LEMMA FaultType ==
    ASSUME TypeOK, Fault \/ UNCHANGED faults
    PROVE  (faults \in 0..MaxFaults)'
BY LoaderAssumption DEF TypeOK, Fault

LEMMA TypeInit == Init => TypeOK
<1> USE LoaderAssumption
<1> SUFFICES ASSUME Init PROVE TypeOK
  OBVIOUS
<1>1. /\ log \in [Topic -> Seq(Kind)]
      /\ \A t \in Topic : Len(log[t]) <= MaxOffset
  BY DEF Init
<1>2. /\ committed \in [Topic -> 0..MaxOffset]
      /\ position \in [Topic -> 0..MaxOffset]
      /\ began \in [Topic -> 0..MaxOffset]
  BY DEF Init
<1>3. count \in [Counter -> Nat] /\ local \in [Counter -> Nat]
  BY ZeroType DEF Init
<1>4. /\ batch \in [Topic -> SUBSET Offset]
      /\ todo \in [Topic -> SUBSET Offset]
      /\ dropped \in [Topic -> SUBSET Offset]
  BY EmptyType DEF Init
<1>5. rows \in [Topic -> [Offset -> Nat]] /\ tx \in [Topic -> [Offset -> Nat]]
  BY NoRowsType DEF Init
<1>6. runs \in 0..MaxRuns /\ faults \in 0..MaxFaults /\ consumed \in Nat
  BY DEF Init
<1>7. QED
  BY <1>1, <1>2, <1>3, <1>4, <1>5, <1>6 DEF Init, TypeOK, ProgramPoint

LEMMA TypeStep == TypeOK /\ [Next]_vars => TypeOK'
<1> USE LoaderAssumption
<1> SUFFICES ASSUME TypeOK, [Next]_vars
             PROVE  TypeOK'
  OBVIOUS
<1> USE DEF broker, postgres, buffers, counters, history, control
<1>1. ASSUME NEW t \in Topic, NEW k \in Kind, Publish(t, k)
      PROVE  TypeOK'
  BY <1>1 DEF TypeOK, Publish
<1>2. CASE Start
  <2>1. count' \in [Counter -> Nat] /\ local' \in [Counter -> Nat]
    BY <1>2, ZeroType DEF Start
  <2>2. batch' \in [Topic -> SUBSET Offset] /\ todo' \in [Topic -> SUBSET Offset]
    BY <1>2, EmptyType DEF Start
  <2>3. /\ position' \in [Topic -> 0..MaxOffset]
        /\ began' \in [Topic -> 0..MaxOffset]
        /\ consumed' \in Nat
        /\ runs' \in 0..MaxRuns
    BY <1>2 DEF TypeOK, Start
  <2>4. /\ pc' \in ProgramPoint
        /\ caller' \in {"none", "size", "limit", "idle", "final"}
        /\ exit' \in {"none", "zero", "nonzero", "killed"}
        /\ raising' \in BOOLEAN
    BY <1>2 DEF Start, ProgramPoint
  <2>5. UNCHANGED <<log, committed, rows, tx, conn, dropped, faults>>
    BY <1>2 DEF Start
  <2>6. QED
    BY <2>1, <2>2, <2>3, <2>4, <2>5 DEF TypeOK
<1>3. CASE Connect
  BY <1>3, FaultType DEF TypeOK, Connect, ProgramPoint
<1>4. CASE ReachLimit
  BY <1>4, CallFlushType DEF TypeOK, ReachLimit
<1>5. CASE IdleTimeout
  BY <1>5, CallFlushType DEF TypeOK, IdleTimeout
<1>6. CASE PollError
  <2>1. Failed(count) \in [Counter -> Nat]
    BY FailedType DEF TypeOK
  <2>2. QED
    BY <1>6, <2>1, FaultType DEF TypeOK, PollError
<1>7. ASSUME NEW t \in Topic, Deliver(t)
      PROVE  TypeOK'
  <2>1. position[t] \in Offset /\ position[t] + 1 \in 0..MaxOffset
    BY <1>7 DEF TypeOK, Deliver, Offset
  <2>2. position' \in [Topic -> 0..MaxOffset]
    BY <1>7, <2>1 DEF TypeOK, Deliver
  <2> Failed(count) \in [Counter -> Nat]
    BY FailedType DEF TypeOK
  <2>3. count' \in [Counter -> Nat]
    BY <1>7 DEF TypeOK, Deliver
  <2>6. batch' \in [Topic -> SUBSET Offset]
    <3>1. \/ batch' = batch
          \/ batch' = [batch EXCEPT ![t] = @ \cup {position[t]}]
      BY <1>7 DEF Deliver
    <3>2. batch \in [Topic -> SUBSET Offset]
      BY DEF TypeOK
    <3>3. [batch EXCEPT ![t] = @ \cup {position[t]}] \in [Topic -> SUBSET Offset]
      BY <2>1, <3>2, AddOffsetType, Zenon
    <3>4. QED
      BY <3>1, <3>2, <3>3
  <2>7. dropped' \in [Topic -> SUBSET Offset]
    <3>1. \/ dropped' = dropped
          \/ dropped' = [dropped EXCEPT ![t] = @ \cup {position[t]}]
      BY <1>7 DEF Deliver
    <3>2. dropped \in [Topic -> SUBSET Offset]
      BY DEF TypeOK
    <3>3. [dropped EXCEPT ![t] = @ \cup {position[t]}] \in [Topic -> SUBSET Offset]
      BY <2>1, <3>2, AddOffsetType, Zenon
    <3>4. QED
      BY <3>1, <3>2, <3>3
  <2>4. /\ caller' \in {"none", "size", "limit", "idle", "final"}
        /\ local' \in [Counter -> Nat]
        /\ pc' \in ProgramPoint
    <3>1. \/ UNCHANGED <<pc, caller, local>>
          \/ CallFlush("size", batch', count')
      BY <1>7 DEF Deliver
    <3>2. /\ caller \in {"none", "size", "limit", "idle", "final"}
          /\ local \in [Counter -> Nat]
          /\ pc \in ProgramPoint
      BY DEF TypeOK
    <3>3. QED
      BY <3>1, <3>2, <2>3, CallFlushType
  <2>8. UNCHANGED <<broker, postgres, todo, began, raising, exit, runs, faults>>
    BY <1>7 DEF Deliver
  <2>9. consumed' \in Nat
    BY <1>7 DEF TypeOK, Deliver
  <2>5. QED
    BY <2>2, <2>3, <2>4, <2>6, <2>7, <2>8, <2>9 DEF TypeOK
<1>8. ASSUME NEW t \in Topic, InsertBatch(t)
      PROVE  TypeOK'
  <2>1. (faults \in 0..MaxFaults)'
    BY <1>8, FaultType DEF InsertBatch
  <2>2. tx' \in [Topic -> [Offset -> Nat]]
    BY <1>8, InsertType, NoRowsType DEF InsertBatch, Rollback, Raise
  <2>3. pc' \in ProgramPoint /\ conn' \in {"none", "ok", "aborted", "lost"}
    BY <1>8 DEF TypeOK, InsertBatch, Rollback, Raise, ProgramPoint
  <2>4. raising' \in BOOLEAN /\ todo' \in [Topic -> SUBSET Offset]
    BY <1>8 DEF TypeOK, InsertBatch, Raise
  <2>5. QED
    BY <1>8, <2>1, <2>2, <2>3, <2>4 DEF TypeOK, InsertBatch
<1>9. CASE CommitBatch
  <2>1. \A c \in Topic : Cardinality(batch[c]) \in Nat
    BY BufferSize DEF TypeOK
  <2>2. [c \in Counter |-> IF c \in Topic THEN local[c] + Cardinality(batch[c])
                                          ELSE local[c]] \in [Counter -> Nat]
    BY <2>1 DEF TypeOK, Counter
  <2>3. QED
    <3>1. (faults \in 0..MaxFaults)'
      BY <1>9, FaultType DEF CommitBatch
    <3>2. /\ tx' \in [Topic -> [Offset -> Nat]]
          /\ rows' \in [Topic -> [Offset -> Nat]]
      BY <1>9, DurableType, NoRowsType DEF TypeOK, CommitBatch, Rollback, Raise
    <3>3. pc' \in ProgramPoint /\ conn' \in {"none", "ok", "aborted", "lost"}
      BY <1>9 DEF TypeOK, CommitBatch, Rollback, Raise, ProgramPoint
    <3>4. /\ raising' \in BOOLEAN
          /\ todo' \in [Topic -> SUBSET Offset]
          /\ local' \in [Counter -> Nat]
      BY <1>9, <2>2 DEF TypeOK, CommitBatch, Raise
    <3>5. QED
      BY <1>9, <3>1, <3>2, <3>3, <3>4 DEF TypeOK, CommitBatch
<1>10. CASE CommitBatchOffsets
  <2>1. Buffered(batch) \in Nat
    <3>1. batch["processed"] \subseteq Offset /\ batch["invalid"] \subseteq Offset
      BY DEF TypeOK, Topic
    <3>2. QED
      BY <3>1, BufferSize DEF Buffered
  <2>2. [local EXCEPT !["failed"] = @ + Buffered(batch)] \in [Counter -> Nat]
    BY <2>1 DEF TypeOK, Counter
  <2>3. committed' \in [Topic -> 0..MaxOffset]
    BY <1>10 DEF TypeOK, CommitBatchOffsets
  <2>4. local' \in [Counter -> Nat]
    BY <1>10, <2>2 DEF TypeOK, CommitBatchOffsets
  <2>5. (faults \in 0..MaxFaults)'
    BY <1>10, FaultType DEF CommitBatchOffsets
  <2>6. /\ pc' \in ProgramPoint
        /\ UNCHANGED <<log, postgres, buffers, consumed, count, history, caller,
                       raising, exit, runs>>
    BY <1>10 DEF CommitBatchOffsets, ProgramPoint
  <2>7. QED
    BY <2>3, <2>4, <2>5, <2>6 DEF TypeOK
<1>11. ASSUME NEW t \in Topic, NEW o \in Offset, InsertOne(t, o)
       PROVE  TypeOK'
  <2>1. (faults \in 0..MaxFaults)'
    BY <1>11, FaultType DEF InsertOne
  <2>2. tx' \in [Topic -> [Offset -> Nat]]
    BY <1>11, InsertType, NoRowsType DEF InsertOne, Rollback, Raise
  <2>3. pc' \in ProgramPoint /\ conn' \in {"none", "ok", "aborted", "lost"}
    BY <1>11 DEF TypeOK, InsertOne, GiveUp, Rollback, Raise, ProgramPoint
  <2>4. Failed(local) \in [Counter -> Nat] /\ Handled(t, o) \in [Topic -> SUBSET Offset]
    BY FailedType DEF TypeOK, Handled
  <2>5. raising' \in BOOLEAN
    BY <1>11 DEF TypeOK, InsertOne, Raise
  <2>6. todo' \in [Topic -> SUBSET Offset] /\ local' \in [Counter -> Nat]
    BY <1>11, <2>4 DEF TypeOK, InsertOne, GiveUp
  <2>7. dropped' \in [Topic -> SUBSET Offset]
    BY <1>11 DEF TypeOK, InsertOne, GiveUp
  <2>8. QED
    BY <1>11, <2>1, <2>2, <2>3, <2>5, <2>6, <2>7 DEF TypeOK, InsertOne
<1>12. ASSUME NEW t \in Topic, NEW o \in Offset, CommitOne(t, o)
       PROVE  TypeOK'
  <2>1. (faults \in 0..MaxFaults)'
    BY <1>12, FaultType DEF CommitOne
  <2>2. /\ tx' \in [Topic -> [Offset -> Nat]]
        /\ rows' \in [Topic -> [Offset -> Nat]]
    BY <1>12, DurableType, NoRowsType DEF TypeOK, CommitOne, Rollback, Raise
  <2>3. pc' \in ProgramPoint /\ conn' \in {"none", "ok", "aborted", "lost"}
    BY <1>12 DEF TypeOK, CommitOne, GiveUp, Rollback, Raise, ProgramPoint
  <2>4. Failed(local) \in [Counter -> Nat] /\ Handled(t, o) \in [Topic -> SUBSET Offset]
    BY FailedType DEF TypeOK, Handled
  <2>5. [local EXCEPT ![t] = @ + 1] \in [Counter -> Nat]
    BY DEF TypeOK, Counter
  <2>6. raising' \in BOOLEAN
    BY <1>12 DEF TypeOK, CommitOne, Raise
  <2>7. todo' \in [Topic -> SUBSET Offset] /\ local' \in [Counter -> Nat]
    BY <1>12, <2>4, <2>5 DEF TypeOK, CommitOne, GiveUp
  <2>8. dropped' \in [Topic -> SUBSET Offset]
    BY <1>12 DEF TypeOK, CommitOne, GiveUp
  <2>9. QED
    BY <1>12, <2>1, <2>2, <2>3, <2>6, <2>7, <2>8 DEF TypeOK, CommitOne
<1>13. ASSUME NEW t \in Topic, NEW o \in Offset, CommitOneOffset(t, o)
       PROVE  TypeOK'
  <2>1. (faults \in 0..MaxFaults)'
    BY <1>13, FaultType DEF CommitOneOffset
  <2>2. /\ Failed(local) \in [Counter -> Nat]
        /\ Handled(t, o) \in [Topic -> SUBSET Offset]
    BY FailedType DEF TypeOK, Handled
  <2>3. o + 1 \in 0..MaxOffset
    BY DEF Offset
  <2>4. committed' \in [Topic -> 0..MaxOffset]
    BY <1>13, <2>3 DEF TypeOK, CommitOneOffset
  <2>5. local' \in [Counter -> Nat] /\ todo' \in [Topic -> SUBSET Offset]
    BY <1>13, <2>2 DEF TypeOK, CommitOneOffset
  <2>6. /\ pc' \in ProgramPoint
        /\ UNCHANGED <<log, postgres, position, batch, consumed, count, history,
                       caller, raising, exit, runs>>
    BY <1>13 DEF CommitOneOffset, ProgramPoint
  <2>7. QED
    BY <2>1, <2>4, <2>5, <2>6 DEF TypeOK
<1>14. CASE FallbackDone
  BY <1>14 DEF TypeOK, FallbackDone, ProgramPoint
<1>15. CASE FlushReturned
  BY <1>15, EmptyType DEF TypeOK, FlushReturned, ProgramPoint
<1>16. CASE Finally
  BY <1>16, CallFlushType DEF TypeOK, Finally, ProgramPoint
<1>17. CASE Close
  BY <1>17, NoRowsType DEF TypeOK, Close, Leave, ProgramPoint
<1>18. CASE Unwind
  BY <1>18, NoRowsType DEF TypeOK, Unwind, Leave, ProgramPoint
<1>19. CASE Interrupt
  BY <1>19, FaultType, NoRowsType DEF TypeOK, Interrupt, ProgramPoint
<1>20. CASE Kill
  BY <1>20, FaultType, NoRowsType DEF TypeOK, Kill, Leave, ProgramPoint
<1>21. CASE UNCHANGED vars
  BY <1>21 DEF TypeOK, vars
<1>22. QED
  BY <1>1, <1>2, <1>3, <1>4, <1>5, <1>6, <1>7, <1>8, <1>9, <1>10, <1>11, <1>12,
     <1>13, <1>14, <1>15, <1>16, <1>17, <1>18, <1>19, <1>20, <1>21
  DEF Next, LoaderStep, Environment

\* Every variable keeps its type, whatever the sizes and however often the
\* loader is interrupted, killed and started again.
THEOREM TypeInvariant == Spec => []TypeOK
BY TypeInit, TypeStep, PTL DEF Spec

-----------------------------------------------------------------------------
(***************************************************************************)
(* No message is lost silently.  CommittedAccounted is not inductive: a    *)
(* commit moves the offset past messages that were polled and are in       *)
(* nobody's hands any more, so the invariant follows every polled message  *)
(* from the buffer through the flush to its row or its failure report.     *)
(***************************************************************************)

\* A polled message is stored, given up or still buffered.
PolledAccounted ==
    pc # "off" => \A t \in Topic : \A o \in 0..(position[t] - 1) :
                      Accounted(t, o) \/ o \in batch[t]

\* Only polled messages are buffered.
BufferedPolled ==
    pc # "off" => \A t \in Topic : \A o \in batch[t] : o < position[t]

\* When flush_batches commits a batch's offsets or returns, it is done with it.
FlushedAccounted ==
    pc \in {"offsets", "returned"} =>
        \A t \in Topic : \A o \in batch[t] : Accounted(t, o)

\* The fallback owes only the entries it has not come to.
FallbackAccounted ==
    pc \in {"fallback", "one_commit", "one_offset"} =>
        \A t \in Topic : /\ todo[t] \subseteq batch[t]
                         /\ \A o \in batch[t] : Accounted(t, o) \/ o \in todo[t]

\* The transaction about to be committed holds the whole batch.
BatchInserted ==
    /\ pc \in {"insert_invalid", "db_commit"} =>
           \A o \in batch["processed"] : tx["processed"][o] > 0
    /\ pc = "db_commit" => \A o \in batch["invalid"] : tx["invalid"][o] > 0

\* The fallback's entry is in the transaction, and then stored.
EntryInserted ==
    \A t \in Topic, o \in Offset : IsNext(t, o) =>
        /\ pc = "one_commit" => tx[t][o] > 0
        /\ pc = "one_offset" => Accounted(t, o)

LoadInv ==
    /\ TypeOK
    /\ CommittedAccounted
    /\ PolledAccounted
    /\ BufferedPolled
    /\ FlushedAccounted
    /\ FallbackAccounted
    /\ BatchInserted
    /\ EntryInserted

\* No step takes rows away, and failure reports stay.
LEMMA DurableGrows ==
    ASSUME TypeOK, NEW t \in Topic, NEW o \in Offset
    PROVE  /\ Durable[t][o] = rows[t][o] + tx[t][o]
           /\ rows[t][o] \in Nat /\ tx[t][o] \in Nat
BY DEF TypeOK, Durable

LEMMA RowsStep ==
    ASSUME [Next]_vars
    PROVE  rows' = rows \/ rows' = Durable
BY DEF Next, LoaderStep, Environment, vars, broker, postgres, buffers, counters,
       history, control, Publish, Start, Connect, ReachLimit, IdleTimeout, PollError,
       Deliver, InsertBatch, CommitBatch, CommitBatchOffsets, InsertOne, CommitOne,
       CommitOneOffset, FallbackDone, FlushReturned, Finally, Leave, Close, Unwind,
       Interrupt, Kill

LEMMA DroppedStep ==
    ASSUME TypeOK, [Next]_vars, NEW u \in Topic
    PROVE  dropped[u] \subseteq dropped'[u]
<1> USE DEF broker, postgres, buffers, counters, history, control
<1>1. ASSUME NEW t \in Topic, Deliver(t)
      PROVE  dropped[u] \subseteq dropped'[u]
  BY <1>1 DEF Deliver, TypeOK
<1>2. ASSUME NEW t \in Topic, NEW o \in Offset, InsertOne(t, o) \/ CommitOne(t, o)
      PROVE  dropped[u] \subseteq dropped'[u]
  BY <1>2 DEF InsertOne, CommitOne, GiveUp, TypeOK
<1>3. \/ dropped' = dropped
      \/ \E t \in Topic : Deliver(t)
      \/ \E t \in Topic, o \in Offset : InsertOne(t, o) \/ CommitOne(t, o)
  BY DEF Next, LoaderStep, Environment, vars, Publish, Start, Connect, ReachLimit,
         IdleTimeout, PollError, InsertBatch, CommitBatch, CommitBatchOffsets,
         CommitOneOffset, FallbackDone, FlushReturned, Finally, Leave, Close, Unwind,
         Interrupt, Kill
<1>4. QED
  BY <1>1, <1>2, <1>3

LEMMA AccountedKept ==
    ASSUME TypeOK, [Next]_vars, NEW t \in Topic, NEW o \in Offset, Accounted(t, o)
    PROVE  Accounted(t, o)'
<1>1. rows'[t][o] = rows[t][o] \/ rows'[t][o] = rows[t][o] + tx[t][o]
  BY RowsStep, DurableGrows
<1>2. rows[t][o] \in Nat /\ tx[t][o] \in Nat
  BY DurableGrows
<1>3. rows[t][o] > 0 => rows'[t][o] > 0
  BY <1>1, <1>2
<1>4. QED
  BY <1>3, DroppedStep DEF Accounted

\* A buffer whose size is zero is empty.
LEMMA EmptyBuffer ==
    ASSUME NEW b \in [Topic -> SUBSET Offset], Buffered(b) = 0
    PROVE  \A t \in Topic : b[t] = {}
<1>1. \A t \in Topic : IsFiniteSet(b[t])
  <2>1. IsFiniteSet(Offset)
    BY LoaderAssumption, FS_Interval DEF Offset
  <2>2. QED
    BY <2>1, FS_Subset
<1>2. /\ b["processed"] \subseteq Offset
      /\ b["invalid"] \subseteq Offset
  BY DEF Topic
<1>3. /\ Cardinality(b["processed"]) \in Nat
      /\ Cardinality(b["invalid"]) \in Nat
  BY <1>2, BufferSize
<1>4. /\ Cardinality(b["processed"]) = 0
      /\ Cardinality(b["invalid"]) = 0
  BY <1>3 DEF Buffered
<1>5. QED
  BY <1>1, <1>4, FS_EmptySet DEF Topic

\* The fallback has one next entry.
LEMMA OneNext ==
    ASSUME TypeOK, NEW t \in Topic, NEW o \in Offset, NEW u \in Topic, NEW q \in Offset,
           IsNext(t, o), IsNext(u, q)
    PROVE  t = u /\ o = q
BY DEF IsNext, Topic, Offset

LEMMA LoadInvInit == Init => LoadInv
<1> SUFFICES ASSUME Init PROVE LoadInv
  OBVIOUS
<1>1. TypeOK
  BY TypeInit
<1>2. \A t \in Topic : committed[t] = 0 /\ todo[t] = {}
  BY DEF Init, Empty
<1>3. pc = "off"
  BY DEF Init
<1>4. QED
  BY <1>1, <1>2, <1>3
  DEF LoadInv, CommittedAccounted, PolledAccounted, BufferedPolled, FlushedAccounted,
      FallbackAccounted, BatchInserted, EntryInserted, IsNext

LEMMA LoadInvStep == LoadInv /\ [Next]_vars => LoadInv'
<1> SUFFICES ASSUME LoadInv, [Next]_vars
             PROVE  LoadInv'
  OBVIOUS
<1> USE DEF broker, postgres, buffers, counters, history, control
<1> TypeOK
  BY DEF LoadInv
<1> TypeOK'
  BY TypeStep
<1> DEFINE Acc == \A t \in Topic, o \in Offset : Accounted(t, o) => Accounted(t, o)'
<1>acc. Acc
  BY AccountedKept
<1>off1. Offset = 0..(MaxOffset - 1) /\ MaxOffset \in Nat
  BY LoaderAssumption DEF Offset
<1>rng. \A t \in Topic : /\ \A o \in 0..(committed[t] - 1) : o \in Offset
                         /\ \A o \in 0..(position[t] - 1) : o \in Offset
                         /\ batch[t] \subseteq Offset /\ todo[t] \subseteq Offset
                         /\ committed[t] \in Nat /\ position[t] \in Nat
  <2>1. \A t \in Topic : committed[t] \in 0..MaxOffset /\ position[t] \in 0..MaxOffset
    BY DEF TypeOK
  <2>2. \A t \in Topic : batch[t] \subseteq Offset /\ todo[t] \subseteq Offset
    BY DEF TypeOK
  <2>3. QED
    BY <2>1, <2>2, <1>off1
<1>same. ASSUME UNCHANGED <<committed, position, batch>>, pc # "off",
                pc' \notin {"offsets", "returned", "fallback", "one_commit",
                            "one_offset", "insert_invalid", "db_commit"}
         PROVE  LoadInv'
  <2>1. CommittedAccounted'
    BY <1>acc, <1>rng, <1>same DEF LoadInv, CommittedAccounted
  <2>2. PolledAccounted' /\ BufferedPolled'
    BY <1>acc, <1>rng, <1>same DEF LoadInv, PolledAccounted, BufferedPolled
  <2>3. FlushedAccounted' /\ FallbackAccounted' /\ BatchInserted' /\ EntryInserted'
    BY <1>same DEF FlushedAccounted, FallbackAccounted, BatchInserted, EntryInserted
  <2>4. QED
    BY <2>1, <2>2, <2>3 DEF LoadInv
<1>flush. ASSUME NEW c, CallFlush(c, batch, count), UNCHANGED <<committed, position, batch>>,
                 pc # "off"
          PROVE  LoadInv'
  <2>1. CASE pc' = "insert_processed"
    BY <2>1, <1>flush, <1>same
  <2>2. CASE Buffered(batch) = 0
    <3>1. \A t \in Topic : batch'[t] = {}
      BY <2>2, <1>flush, EmptyBuffer DEF TypeOK
    <3>2. CommittedAccounted'
      BY <1>acc, <1>rng, <1>flush DEF LoadInv, CommittedAccounted
    <3>3. PolledAccounted' /\ BufferedPolled'
      BY <1>acc, <1>rng, <1>flush DEF LoadInv, PolledAccounted, BufferedPolled
    <3>4. pc' = "returned"
      BY <2>2, <1>flush DEF CallFlush
    <3>5. FlushedAccounted' /\ FallbackAccounted' /\ BatchInserted' /\ EntryInserted'
      BY <3>1, <3>4 DEF FlushedAccounted, FallbackAccounted, BatchInserted, EntryInserted
    <3>6. QED
      BY <3>2, <3>3, <3>5 DEF LoadInv
  <2>3. QED
    BY <2>1, <2>2, <1>flush DEF CallFlush
<1>1. ASSUME NEW t \in Topic, NEW k \in Kind, Publish(t, k)
      PROVE  LoadInv'
  BY <1>1 DEF Publish, LoadInv, CommittedAccounted, PolledAccounted, BufferedPolled,
     FlushedAccounted, FallbackAccounted, BatchInserted, EntryInserted, IsNext, Accounted
<1>2. CASE Start
  <2>1. /\ position' = committed /\ batch' = Empty /\ todo' = Empty
        /\ pc' = "connect" /\ committed' = committed
    BY <1>2 DEF Start
  <2>2. CommittedAccounted' /\ PolledAccounted'
    BY <2>1, <1>acc, <1>rng DEF LoadInv, CommittedAccounted, PolledAccounted
  <2>3. BufferedPolled'
    BY <2>1 DEF BufferedPolled, Empty
  <2>4. FlushedAccounted' /\ FallbackAccounted' /\ BatchInserted' /\ EntryInserted'
    BY <2>1 DEF FlushedAccounted, FallbackAccounted, BatchInserted, EntryInserted
  <2>5. QED
    BY <2>2, <2>3, <2>4 DEF LoadInv
<1>3. CASE Connect
  BY <1>3, <1>same DEF Connect
<1>4. CASE ReachLimit
  BY <1>4, <1>flush DEF ReachLimit
<1>5. CASE IdleTimeout
  BY <1>5, <1>flush DEF IdleTimeout
<1>6. CASE PollError
  BY <1>6, <1>same DEF PollError
<1>fallback. ASSUME pc' = "fallback", UNCHANGED <<committed, position, batch>>, pc # "off",
                    \A t \in Topic :
                       /\ todo'[t] \subseteq batch[t]
                       /\ \A o \in batch[t] : Accounted(t, o)' \/ o \in todo'[t]
             PROVE  LoadInv'
  <2>1. CommittedAccounted' /\ PolledAccounted' /\ BufferedPolled'
    BY <1>fallback, <1>acc, <1>rng
    DEF LoadInv, CommittedAccounted, PolledAccounted, BufferedPolled
  <2>2. FallbackAccounted'
    BY <1>fallback DEF FallbackAccounted
  <2>3. FlushedAccounted' /\ BatchInserted' /\ EntryInserted'
    BY <1>fallback DEF FlushedAccounted, BatchInserted, EntryInserted
  <2>4. QED
    BY <2>1, <2>2, <2>3 DEF LoadInv
<1>giveup. ASSUME NEW t \in Topic, NEW o \in Offset, GiveUp(t, o),
                  pc \in {"fallback", "one_commit"},
                  UNCHANGED <<committed, position, batch>>
           PROVE  LoadInv'
  <2>1. pc' = "fallback" /\ todo' = [todo EXCEPT ![t] = @ \ {o}]
    BY <1>giveup DEF GiveUp, Handled
  <2>2. Accounted(t, o)'
    BY <1>giveup DEF GiveUp, Accounted, TypeOK
  <2>3. \A u \in Topic : todo'[u] \subseteq todo[u]
    BY <2>1 DEF TypeOK
  <2>4. \A u \in Topic : \A q \in todo[u] : q \in todo'[u] \/ (u = t /\ q = o)
    BY <2>1 DEF TypeOK
  <2>5. \A u \in Topic : /\ todo[u] \subseteq batch[u]
                         /\ \A q \in batch[u] : Accounted(u, q) \/ q \in todo[u]
    BY <1>giveup DEF LoadInv, FallbackAccounted
  <2>6. \A u \in Topic : \A q \in batch[u] : Accounted(u, q)' \/ q \in todo'[u]
    BY <2>2, <2>4, <2>5, <1>acc, <1>rng
  <2>7. QED
    BY <2>1, <2>3, <2>5, <2>6, <1>giveup, <1>fallback
<1>7. ASSUME NEW t \in Topic, Deliver(t)
      PROVE  LoadInv'
  <2>0. PICK p \in Offset : p = position[t]
    BY <1>7 DEF Deliver, TypeOK, Offset
  <2>1. /\ pc = "loop" /\ committed' = committed
        /\ position' = [position EXCEPT ![t] = p + 1]
    BY <1>7, <2>0 DEF Deliver
  <2>2. \/ batch' = [batch EXCEPT ![t] = @ \cup {p}]
        \/ /\ batch' = batch
           /\ dropped' = [dropped EXCEPT ![t] = @ \cup {p}]
    BY <1>7, <2>0 DEF Deliver
  <2>3. p \in batch'[t] \/ Accounted(t, p)'
    <3>1. CASE batch' = [batch EXCEPT ![t] = @ \cup {p}]
      BY <3>1 DEF TypeOK
    <3>2. CASE dropped' = [dropped EXCEPT ![t] = @ \cup {p}]
      BY <3>2 DEF Accounted, TypeOK
    <3>3. QED
      BY <2>2, <3>1, <3>2
  <2>4. \A u \in Topic : /\ batch[u] \subseteq batch'[u]
                         /\ \A o \in batch'[u] : o \in batch[u] \/ (u = t /\ o = p)
    <3>1. CASE batch' = [batch EXCEPT ![t] = @ \cup {p}]
      BY <3>1 DEF TypeOK
    <3>2. QED
      BY <2>2, <3>1
  <2>5. \A u \in Topic : position'[u] = IF u = t THEN p + 1 ELSE position[u]
    BY <2>1 DEF TypeOK
  <2>6. CommittedAccounted'
    BY <2>1, <1>acc, <1>rng DEF LoadInv, CommittedAccounted
  <2>7. PolledAccounted'
    <3> SUFFICES ASSUME NEW u \in Topic, NEW o \in 0..(position'[u] - 1)
                 PROVE  Accounted(u, o)' \/ o \in batch'[u]
      BY DEF PolledAccounted
    <3>1. CASE u = t /\ o = p
      BY <3>1, <2>3
    <3>2. CASE ~(u = t /\ o = p)
      <4>1. o \in 0..(position[u] - 1)
        <5>1. position[u] \in Nat /\ p \in Nat /\ p = position[t]
          BY <2>0, LoaderAssumption DEF TypeOK, Offset
        <5>2. CASE u = t
          BY <5>1, <5>2, <3>2, <2>5
        <5>3. CASE u # t
          BY <5>1, <5>3, <2>5
        <5>4. QED
          BY <5>2, <5>3
      <4>2. Accounted(u, o) \/ o \in batch[u]
        BY <4>1, <2>1 DEF LoadInv, PolledAccounted
      <4>3. QED
        BY <4>1, <4>2, <2>4, <1>acc, <1>rng
    <3>3. QED
      BY <3>1, <3>2
  <2>8. BufferedPolled'
    <3> SUFFICES ASSUME NEW u \in Topic, NEW o \in batch'[u]
                 PROVE  o < position'[u]
      BY DEF BufferedPolled
    <3>1. CASE u = t /\ o = p
      BY <3>1, <2>5 DEF Offset
    <3>2. CASE o \in batch[u]
      <4>1. o < position[u]
        BY <3>2, <2>1 DEF LoadInv, BufferedPolled
      <4>2. o \in Int /\ position[u] \in Nat /\ p \in Nat
        BY <3>2, <2>0, LoaderAssumption DEF TypeOK, Offset
      <4>3. CASE u = t
        BY <4>1, <4>2, <4>3, <2>5, <2>0
      <4>4. CASE u # t
        BY <4>1, <4>4, <2>5
      <4>5. QED
        BY <4>3, <4>4
    <3>3. QED
      BY <3>1, <3>2, <2>4
  <2>9. pc' \in {"loop", "insert_processed"}
    BY <1>7, LoaderAssumption DEF Deliver, CallFlush
  <2>10. FlushedAccounted' /\ FallbackAccounted' /\ BatchInserted' /\ EntryInserted'
    BY <2>9 DEF FlushedAccounted, FallbackAccounted, BatchInserted, EntryInserted
  <2>11. QED
    BY <2>6, <2>7, <2>8, <2>10 DEF LoadInv
<1>8. ASSUME NEW t \in Topic, InsertBatch(t)
      PROVE  LoadInv'
  <2>1. /\ UNCHANGED <<committed, position, batch>>
        /\ pc = IF t = "processed" THEN "insert_processed" ELSE "insert_invalid"
    BY <1>8 DEF InsertBatch
  <2>2. CASE /\ tx' = Insert(t, batch[t])
             /\ pc' = IF t = "processed" THEN "insert_invalid" ELSE "db_commit"
    <3>1. \A o \in batch[t] : tx'[t][o] > 0
      BY <2>2, <1>rng, Inserted
    <3>2. \A u \in Topic \ {t} : tx'[u] = tx[u]
      BY <2>2 DEF TypeOK, Insert
    <3>3. BatchInserted'
      BY <2>1, <2>2, <3>1, <3>2 DEF LoadInv, BatchInserted, Topic
    <3>4. CommittedAccounted' /\ PolledAccounted' /\ BufferedPolled'
      BY <2>1, <1>acc, <1>rng
      DEF LoadInv, CommittedAccounted, PolledAccounted, BufferedPolled
    <3>5. FlushedAccounted' /\ FallbackAccounted' /\ EntryInserted'
      BY <2>2 DEF FlushedAccounted, FallbackAccounted, EntryInserted
    <3>6. QED
      BY <3>3, <3>4, <3>5 DEF LoadInv
  <2>3. CASE pc' = "fallback" /\ todo' = batch
    BY <2>1, <2>3, <1>fallback
  <2>4. CASE Raise
    BY <2>1, <2>4, <1>same DEF Raise
  <2>5. QED
    BY <1>8, <2>2, <2>3, <2>4 DEF InsertBatch
<1>9. CASE CommitBatch
  <2>1. UNCHANGED <<committed, position, batch>> /\ pc = "db_commit"
    BY <1>9 DEF CommitBatch
  <2>2. CASE rows' = Durable /\ pc' = "offsets"
    <3>1. \A t \in Topic : \A o \in batch[t] : tx[t][o] > 0
      BY <2>1 DEF LoadInv, BatchInserted, Topic
    <3>2. \A t \in Topic : \A o \in batch[t] : Accounted(t, o)'
      BY <2>2, <3>1, <1>rng, DurableGrows DEF Accounted
    <3>3. CommittedAccounted' /\ PolledAccounted' /\ BufferedPolled'
      BY <2>1, <1>acc, <1>rng
      DEF LoadInv, CommittedAccounted, PolledAccounted, BufferedPolled
    <3>4. FlushedAccounted'
      BY <3>2, <2>1 DEF FlushedAccounted
    <3>5. FallbackAccounted' /\ BatchInserted' /\ EntryInserted'
      BY <2>2 DEF FallbackAccounted, BatchInserted, EntryInserted
    <3>6. QED
      BY <3>3, <3>4, <3>5 DEF LoadInv
  <2>3. CASE pc' = "fallback" /\ todo' = batch
    BY <2>1, <2>3, <1>fallback
  <2>4. CASE Raise
    BY <2>1, <2>4, <1>same DEF Raise
  <2>5. QED
    BY <1>9, <2>2, <2>3, <2>4 DEF CommitBatch
<1>10. CASE CommitBatchOffsets
  <2>1. /\ pc = "offsets" /\ pc' = "returned" /\ UNCHANGED <<position, batch>>
    BY <1>10 DEF CommitBatchOffsets
  <2>2. PICK n \in [Topic -> 0..MaxOffset] :
           /\ \A t \in Topic : OffsetAfter(batch[t], committed[t], n[t])
           /\ committed' \in {committed, n}
    BY <1>10 DEF CommitBatchOffsets
  <2>3. \A t \in Topic : \A o \in batch[t] : Accounted(t, o)
    BY <2>1 DEF LoadInv, FlushedAccounted
  <2>4. \A t \in Topic : n[t] = committed[t] \/ (n[t] - 1 \in batch[t] /\ n[t] \in Nat)
    BY <2>2, LoaderAssumption DEF OffsetAfter
  <2>5. \A t \in Topic : \A o \in 0..(n[t] - 1) : Accounted(t, o)
    <3> SUFFICES ASSUME NEW t \in Topic, NEW o \in 0..(n[t] - 1)
                 PROVE  Accounted(t, o)
      OBVIOUS
    <3>1. CASE n[t] = committed[t]
      BY <3>1 DEF LoadInv, CommittedAccounted
    <3>2. CASE n[t] - 1 \in batch[t] /\ n[t] \in Nat
      <4>1. n[t] - 1 < position[t]
        BY <3>2, <2>1 DEF LoadInv, BufferedPolled
      <4>2. o \in 0..(position[t] - 1)
        BY <4>1, <3>2, <1>rng
      <4>3. QED
        BY <4>2, <2>1, <2>3 DEF LoadInv, PolledAccounted
    <3>3. QED
      BY <3>1, <3>2, <2>4
  <2>6. CommittedAccounted'
    <3>1. CASE committed' = committed
      BY <3>1, <1>acc, <1>rng DEF LoadInv, CommittedAccounted
    <3>2. CASE committed' = n
      <4>1. \A t \in Topic : \A o \in 0..(n[t] - 1) : o \in Offset
        BY <2>2, LoaderAssumption DEF Offset
      <4>2. QED
        BY <3>2, <4>1, <2>5, <1>acc DEF CommittedAccounted
    <3>3. QED
      BY <2>2, <3>1, <3>2
  <2>7. PolledAccounted' /\ BufferedPolled' /\ FlushedAccounted'
    BY <2>1, <2>3, <1>acc, <1>rng
    DEF LoadInv, PolledAccounted, BufferedPolled, FlushedAccounted
  <2>8. FallbackAccounted' /\ BatchInserted' /\ EntryInserted'
    BY <2>1 DEF FallbackAccounted, BatchInserted, EntryInserted
  <2>9. QED
    BY <2>6, <2>7, <2>8 DEF LoadInv
<1>11. ASSUME NEW t \in Topic, NEW o \in Offset, InsertOne(t, o)
       PROVE  LoadInv'
  <2>1. UNCHANGED <<committed, position, batch>> /\ pc = "fallback" /\ IsNext(t, o)
    BY <1>11 DEF InsertOne
  <2>2. CASE tx' = Insert(t, {o}) /\ pc' = "one_commit" /\ todo' = todo
    <3>1. tx'[t][o] > 0
      BY <2>2, Inserted
    <3>2. EntryInserted'
      BY <2>1, <2>2, <3>1, OneNext DEF EntryInserted, IsNext
    <3>3. FallbackAccounted'
      BY <2>1, <2>2, <1>acc, <1>rng DEF LoadInv, FallbackAccounted
    <3>4. CommittedAccounted' /\ PolledAccounted' /\ BufferedPolled'
      BY <2>1, <1>acc, <1>rng
      DEF LoadInv, CommittedAccounted, PolledAccounted, BufferedPolled
    <3>5. FlushedAccounted' /\ BatchInserted'
      BY <2>2 DEF FlushedAccounted, BatchInserted
    <3>6. QED
      BY <3>2, <3>3, <3>4, <3>5 DEF LoadInv
  <2>3. CASE GiveUp(t, o)
    BY <2>1, <2>3, <1>giveup
  <2>4. CASE Raise
    BY <2>1, <2>4, <1>same DEF Raise
  <2>5. QED
    BY <1>11, <2>2, <2>3, <2>4 DEF InsertOne
<1>12. ASSUME NEW t \in Topic, NEW o \in Offset, CommitOne(t, o)
       PROVE  LoadInv'
  <2>1. UNCHANGED <<committed, position, batch>> /\ pc = "one_commit" /\ IsNext(t, o)
    BY <1>12 DEF CommitOne
  <2>2. CASE rows' = Durable /\ pc' = "one_offset" /\ todo' = todo
    <3>1. tx[t][o] > 0
      BY <2>1 DEF LoadInv, EntryInserted
    <3>2. Accounted(t, o)'
      BY <2>2, <3>1, DurableGrows DEF Accounted
    <3>3. EntryInserted'
      BY <2>1, <2>2, <3>2, OneNext DEF EntryInserted, IsNext
    <3>4. FallbackAccounted'
      BY <2>1, <2>2, <1>acc, <1>rng DEF LoadInv, FallbackAccounted
    <3>5. CommittedAccounted' /\ PolledAccounted' /\ BufferedPolled'
      BY <2>1, <1>acc, <1>rng
      DEF LoadInv, CommittedAccounted, PolledAccounted, BufferedPolled
    <3>6. FlushedAccounted' /\ BatchInserted'
      BY <2>2 DEF FlushedAccounted, BatchInserted
    <3>7. QED
      BY <3>3, <3>4, <3>5, <3>6 DEF LoadInv
  <2>3. CASE GiveUp(t, o)
    BY <2>1, <2>3, <1>giveup
  <2>4. CASE Raise
    BY <2>1, <2>4, <1>same DEF Raise
  <2>5. QED
    BY <1>12, <2>2, <2>3, <2>4 DEF CommitOne
<1>13. ASSUME NEW t \in Topic, NEW o \in Offset, CommitOneOffset(t, o)
       PROVE  LoadInv'
  <2>1. /\ pc = "one_offset" /\ pc' = "fallback" /\ IsNext(t, o)
        /\ UNCHANGED <<position, batch>>
        /\ todo' = [todo EXCEPT ![t] = @ \ {o}]
        /\ committed' \in {committed, [committed EXCEPT ![t] = o + 1]}
    BY <1>13 DEF CommitOneOffset, Handled
  <2>2. Accounted(t, o)
    BY <2>1 DEF LoadInv, EntryInserted
  <2>3. \A u \in Topic : /\ todo[u] \subseteq batch[u]
                         /\ \A q \in batch[u] : Accounted(u, q) \/ q \in todo[u]
    BY <2>1 DEF LoadInv, FallbackAccounted
  <2>4. o \in todo[t] /\ \A q \in todo[t] : o <= q
    BY <2>1 DEF IsNext
  <2>5. \A q \in 0..o : Accounted(t, q)
    <3> SUFFICES ASSUME NEW q \in 0..o
                 PROVE  Accounted(t, q)
      OBVIOUS
    <3>1. o < position[t]
      BY <2>1, <2>3, <2>4 DEF LoadInv, BufferedPolled
    <3>2. q \in 0..(position[t] - 1)
      BY <3>1, <1>rng DEF Offset
    <3>3. Accounted(t, q) \/ q \in todo[t]
      BY <3>2, <2>1, <2>3 DEF LoadInv, PolledAccounted
    <3>4. q \in todo[t] => q = o
      BY <2>4 DEF Offset
    <3>5. QED
      BY <3>3, <3>4, <2>2
  <2>6. CommittedAccounted'
    <3>1. CASE committed' = committed
      BY <3>1, <1>acc, <1>rng DEF LoadInv, CommittedAccounted
    <3>2. CASE committed' = [committed EXCEPT ![t] = o + 1]
      <4> SUFFICES ASSUME NEW u \in Topic, NEW q \in 0..(committed'[u] - 1)
                   PROVE  Accounted(u, q)'
        BY DEF CommittedAccounted
      <4>1. CASE u = t
        <5>1. committed'[u] = o + 1
          BY <3>2, <4>1 DEF TypeOK
        <5>2. q \in 0..o /\ q \in Offset
          BY <5>1, <1>off1
        <5>3. QED
          BY <4>1, <5>2, <2>5, <1>acc
      <4>2. CASE u # t
        <5>1. committed'[u] = committed[u]
          BY <3>2, <4>2 DEF TypeOK
        <5>2. QED
          BY <5>1, <1>acc, <1>rng DEF LoadInv, CommittedAccounted
      <4>3. QED
        BY <4>1, <4>2
    <3>3. QED
      BY <2>1, <3>1, <3>2
  <2>7. \A u \in Topic : \A q \in todo[u] : q \in todo'[u] \/ (u = t /\ q = o)
    BY <2>1 DEF TypeOK
  <2>8. \A u \in Topic : todo'[u] \subseteq todo[u]
    BY <2>1 DEF TypeOK
  <2>9. FallbackAccounted'
    <3>1. \A u \in Topic : \A q \in batch[u] : Accounted(u, q)' \/ q \in todo'[u]
      BY <2>2, <2>3, <2>7, <1>acc, <1>rng
    <3>2. QED
      BY <2>1, <2>3, <2>8, <3>1 DEF FallbackAccounted
  <2>10. PolledAccounted' /\ BufferedPolled'
    BY <2>1, <1>acc, <1>rng DEF LoadInv, PolledAccounted, BufferedPolled
  <2>11. FlushedAccounted' /\ BatchInserted' /\ EntryInserted'
    BY <2>1 DEF FlushedAccounted, BatchInserted, EntryInserted
  <2>12. QED
    BY <2>6, <2>9, <2>10, <2>11 DEF LoadInv
<1>14. CASE FallbackDone
  <2>1. /\ pc = "fallback" /\ pc' = "returned"
        /\ UNCHANGED <<committed, position, batch>>
        /\ \A t \in Topic : todo[t] = {}
    BY <1>14 DEF FallbackDone, Empty
  <2>2. \A t \in Topic : \A o \in batch[t] : Accounted(t, o)
    BY <2>1 DEF LoadInv, FallbackAccounted
  <2>3. FlushedAccounted'
    BY <2>1, <2>2, <1>acc, <1>rng DEF FlushedAccounted
  <2>4. CommittedAccounted' /\ PolledAccounted' /\ BufferedPolled'
    BY <2>1, <1>acc, <1>rng
    DEF LoadInv, CommittedAccounted, PolledAccounted, BufferedPolled
  <2>5. FallbackAccounted' /\ BatchInserted' /\ EntryInserted'
    BY <2>1 DEF FallbackAccounted, BatchInserted, EntryInserted
  <2>6. QED
    BY <2>3, <2>4, <2>5 DEF LoadInv
<1>15. CASE FlushReturned
  <2>1. /\ pc = "returned" /\ pc' \in {"loop", "finally", "close"}
        /\ UNCHANGED <<committed, position>> /\ batch' = Empty
    BY <1>15 DEF FlushReturned
  <2>2. \A t \in Topic : \A o \in 0..(position[t] - 1) : Accounted(t, o)
    BY <2>1 DEF LoadInv, FlushedAccounted, PolledAccounted
  <2>3. CommittedAccounted' /\ PolledAccounted' /\ BufferedPolled'
    BY <2>1, <2>2, <1>acc, <1>rng
    DEF LoadInv, CommittedAccounted, PolledAccounted, BufferedPolled, Empty
  <2>4. FlushedAccounted' /\ FallbackAccounted' /\ BatchInserted' /\ EntryInserted'
    BY <2>1 DEF FlushedAccounted, FallbackAccounted, BatchInserted, EntryInserted
  <2>5. QED
    BY <2>3, <2>4 DEF LoadInv
<1>16. CASE Finally
  <2>1. CASE Buffered(batch) = 0
    BY <2>1, <1>16, <1>same DEF Finally
  <2>2. CASE Buffered(batch) # 0
    BY <2>2, <1>16, <1>flush DEF Finally
  <2>3. QED
    BY <2>1, <2>2
<1>off. ASSUME pc' = "off", committed' = committed
        PROVE  LoadInv'
  BY <1>off, <1>acc, <1>rng
  DEF LoadInv, CommittedAccounted, PolledAccounted, BufferedPolled, FlushedAccounted,
      FallbackAccounted, BatchInserted, EntryInserted
<1>17. CASE Close
  BY <1>17, <1>off DEF Close, Leave
<1>18. CASE Unwind
  BY <1>18, <1>off DEF Unwind, Leave
<1>19. CASE Interrupt
  BY <1>19, <1>same DEF Interrupt
<1>20. CASE Kill
  BY <1>20, <1>off DEF Kill, Leave
<1>21. CASE UNCHANGED vars
  BY <1>21 DEF vars, LoadInv, CommittedAccounted, PolledAccounted, BufferedPolled,
     FlushedAccounted, FallbackAccounted, BatchInserted, EntryInserted, IsNext, Accounted
<1>22. QED
  BY <1>1, <1>2, <1>3, <1>4, <1>5, <1>6, <1>7, <1>8, <1>9, <1>10, <1>11, <1>12, <1>13,
     <1>14, <1>15, <1>16, <1>17, <1>18, <1>19,
     <1>20, <1>21
  DEF Next, LoaderStep, Environment

\* No message is lost silently, for every topic length, batch size and message
\* limit, and however often the loader fails and restarts: what lies below the
\* group's offset is in PostgreSQL or was counted as failed.
THEOREM NoSilentLoss == Spec => []CommittedAccounted
<1>1. LoadInv => CommittedAccounted
  BY DEF LoadInv
<1>2. QED
  BY <1>1, LoadInvInit, LoadInvStep, PTL DEF Spec
=============================================================================
