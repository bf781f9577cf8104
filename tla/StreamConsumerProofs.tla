------------------------- MODULE StreamConsumerProofs -------------------------
(***************************************************************************)
(* Proofs about the stream consumer, for every number of messages, runs    *)
(* and faults: type correctness, the group's offset never retreats, and a  *)
(* message has at most one copy more than there were faults.               *)
(*                                                                         *)
(* The last rests on a budget per message: its copies on the output topic, *)
(* one if the client still has it queued, and one if this run or a later   *)
(* one has still to produce it, never exceed one more than the faults.     *)
(***************************************************************************)
EXTENDS StreamConsumer, TLAPS

\* The message in hand is one that poll returned, and the group's offset
\* stands behind what the run has read.
Reading == /\ pc \in {"validate", "flush"} => position > 0
           /\ committed <= position

Queued(o) == IF o \in queue THEN 1 ELSE 0

\* Whether message o is still to be produced: by the run in progress, or, when
\* the consumer has closed, by the next one.
Due(o) == IF pc \in {"off", "drain"}
          THEN o >= committed
          ELSE o >= position \/ (pc = "validate" /\ o = Current)

Owed(o) == IF Due(o) THEN 1 ELSE 0

Budget == \A o \in Offset : published[o] + Queued(o) + Owed(o) <= 1 + faults

CopyInv == TypeOK /\ Reading /\ Budget

-----------------------------------------------------------------------------
(***************************************************************************)
(* Type correctness.                                                       *)
(***************************************************************************)

\* The inductive form of the type invariant.
ReadOK == TypeOK /\ Reading

LEMMA ReadInit == Init => ReadOK
<1> SUFFICES ASSUME Init
             PROVE  TypeOK /\ Reading
  BY DEF ReadOK
<1>1. raw \in Seq(Kind) /\ Len(raw) <= MaxOffset
  BY ConsumerAssumption DEF Init
<1>2. published \in [Offset -> Nat]
  BY DEF Init
<1>3. raising \in BOOLEAN
  BY DEF Init
<1>4. TypeOK
  BY <1>1, <1>2, <1>3, ConsumerAssumption DEF Init, TypeOK, ProgramPoint
<1>5. Reading
  BY DEF Init, Reading
<1>6. QED
  BY <1>4, <1>5

\* The message in hand is one of the raw topic's.
LEMMA CurrentOffset ==
  ASSUME ReadOK, pc \in {"validate", "flush"}
  PROVE  Current \in Offset
  BY ConsumerAssumption DEF ReadOK, TypeOK, Reading, Current, Offset

LEMMA ReadStep == ReadOK /\ [Next]_vars => ReadOK'
<1> SUFFICES ASSUME ReadOK, [Next]_vars
             PROVE  ReadOK'
  OBVIOUS
<1> USE ConsumerAssumption DEF kafka, counters, history, control, ReadOK, TypeOK,
        Reading, ProgramPoint, Leave, Fault, CountFailed, Copied, Resume
<1>1. ASSUME NEW k \in Kind, Publish(k)
      PROVE  ReadOK'
  BY <1>1 DEF Publish
<1>2. CASE Start
  <2>1. /\ pc' = "poll" /\ raising' = FALSE /\ exit' = "none"
        /\ consumed' = 0 /\ relayed' = 0 /\ failed' = 0
        /\ position' = committed /\ began' = committed
        /\ UNCHANGED <<raw, committed, published, queue, reported, expired, faults>>
    BY <1>2 DEF Start
  <2>2. runs' \in 0..MaxRuns
    BY <1>2 DEF Start
  <2>3. raising' \in BOOLEAN
    BY <2>1
  <2>4. TypeOK'
    BY <2>1, <2>2, <2>3
  <2>5. Reading'
    BY <2>1
  <2>6. QED
    BY <2>4, <2>5
<1>3. CASE PollError
  BY <1>3 DEF PollError
<1>4. CASE AutoCommit
  BY <1>4 DEF AutoCommit
<1>5. ASSUME NEW o \in Offset, Acked(o)
      PROVE  ReadOK'
  BY <1>5 DEF Acked
<1>6. ASSUME NEW o \in Offset, AckLost(o)
      PROVE  ReadOK'
  BY <1>6 DEF AckLost
<1>7. ASSUME NEW o \in Offset, Expire(o)
      PROVE  ReadOK'
  BY <1>7 DEF Expire
<1>8. CASE Interrupt
  <2>1. CASE pc \in {"close", "drain"}
    BY <1>8, <2>1 DEF Interrupt
  <2>2. CASE pc \notin {"close", "drain"}
    BY <1>8, <2>2 DEF Interrupt
  <2>3. QED
    BY <2>1, <2>2
<1>9. CASE Kill
  BY <1>9 DEF Kill
<1>10. CASE Stop
  BY <1>10 DEF Stop
<1>11. CASE Deliver
  BY <1>11 DEF Deliver
<1>12. CASE ValidatorRaises
  BY <1>12, CurrentOffset DEF ValidatorRaises
<1>13. CASE Produce
  BY <1>13, CurrentOffset DEF Produce
<1>14. CASE ProduceRaises
  BY <1>14, CurrentOffset DEF ProduceRaises
<1>15. CASE Flushed
  BY <1>15 DEF Flushed
<1>16. CASE FlushTimeout
  BY <1>16, CurrentOffset DEF FlushTimeout
<1>17. CASE CloseConsumer
  BY <1>17 DEF CloseConsumer
<1>18. CASE CloseProducer
  BY <1>18 DEF CloseProducer
<1>19. CASE UNCHANGED vars
  BY <1>19 DEF vars
<1>20. QED
  BY <1>1, <1>2, <1>3, <1>4, <1>5, <1>6, <1>7, <1>8, <1>9, <1>10, <1>11, <1>12,
     <1>13, <1>14, <1>15, <1>16, <1>17, <1>18, <1>19
  DEF Next, ConsumerStep, Environment

\* Every reachable state is well typed (the state of python-consumer/main.py).
THEOREM TypeInvariant == Spec => []TypeOK
<1>1. Spec => []ReadOK
  BY ReadInit, ReadStep, PTL DEF Spec
<1>2. ReadOK => TypeOK
  BY DEF ReadOK
<1>3. QED
  BY <1>1, <1>2, PTL

-----------------------------------------------------------------------------
(***************************************************************************)
(* The group's offset.                                                     *)
(***************************************************************************)

\* No step moves the group's offset back: the client only ever commits the
\* position, and a run's position starts at the group's offset.
LEMMA OffsetStep == ReadOK /\ [Next]_vars => [committed' >= committed]_committed
<1> SUFFICES ASSUME ReadOK, [Next]_vars
             PROVE  [committed' >= committed]_committed
  OBVIOUS
<1> USE DEF kafka, counters, history, control
<1>1. /\ committed \in Nat /\ position \in Nat
      /\ committed <= position
  BY ConsumerAssumption DEF ReadOK, TypeOK, Reading
<1>2. committed' \in {committed, position}
  BY DEF Next, ConsumerStep, Environment, vars, Publish, Start, PollError, AutoCommit,
         Acked, AckLost, Expire, Interrupt, Kill, Leave, Stop, Deliver, ValidatorRaises,
         Produce, ProduceRaises, Flushed, FlushTimeout, CloseConsumer, CloseProducer
<1>3. QED
  BY <1>1, <1>2

\* A message behind the group's offset is never read again, over any number of
\* restarts, commits in the background and final commits that fail.
THEOREM NeverRetreats == Spec => OffsetNeverRetreats
<1>1. Spec => []ReadOK
  BY ReadInit, ReadStep, PTL DEF Spec
<1>2. QED
  BY <1>1, OffsetStep, PTL DEF Spec, OffsetNeverRetreats

-----------------------------------------------------------------------------
(***************************************************************************)
(* Copies cost faults.                                                     *)
(***************************************************************************)

LEMMA CopyInit == Init => CopyInv
<1> SUFFICES ASSUME Init
             PROVE  CopyInv
  OBVIOUS
<1>1. TypeOK /\ Reading
  BY ReadInit DEF ReadOK
<1>2. Budget
  BY DEF Init, Budget, Queued, Owed, Offset
<1>3. QED
  BY <1>1, <1>2 DEF CopyInv

LEMMA BudgetStep ==
  ASSUME CopyInv, [Next]_vars
  PROVE  Budget'
<1> USE DEF kafka, counters, history, control, Leave, Fault
<1>0. ReadOK /\ ReadOK'
  BY ReadStep DEF CopyInv, ReadOK
<1> SUFFICES ASSUME NEW q \in Offset
             PROVE  (published[q] + Queued(q) + Owed(q) <= 1 + faults)'
  BY DEF Budget
<1>1. /\ published[q] \in Nat /\ q \in Int /\ faults \in Nat
      /\ committed \in Nat /\ position \in Nat /\ committed <= position
  <2>1. published \in [Offset -> Nat]
    BY <1>0, Zenon DEF ReadOK, TypeOK
  <2>2. faults \in 0..MaxFaults /\ committed \in 0..MaxOffset /\ position \in 0..MaxOffset
    BY <1>0, Zenon DEF ReadOK, TypeOK
  <2>3. committed <= position
    BY <1>0, Zenon DEF ReadOK, Reading
  <2>4. q \in Int
    BY ConsumerAssumption DEF Offset
  <2>5. QED
    BY <2>1, <2>2, <2>3, <2>4, ConsumerAssumption
<1>2. published[q] + Queued(q) + Owed(q) <= 1 + faults
  BY DEF CopyInv, Budget
<1>3. Queued(q) \in {0, 1} /\ Owed(q) \in {0, 1} /\ Queued(q)' \in {0, 1} /\ Owed(q)' \in {0, 1}
  BY DEF Queued, Owed
\* A step that copies nothing and owes nothing more.
<1>same. ASSUME published' = published, faults' = faults \/ faults' = faults + 1,
                Queued(q)' <= Queued(q), Owed(q)' <= Owed(q)
         PROVE  (published[q] + Queued(q) + Owed(q) <= 1 + faults)'
  BY <1>same, <1>1, <1>2, <1>3
\* A step that a fault pays for.
<1>paid. ASSUME published' = published, faults' = faults + 1, Queued(q)' <= Queued(q)
         PROVE  (published[q] + Queued(q) + Owed(q) <= 1 + faults)'
  BY <1>paid, <1>1, <1>2, <1>3
\* A step that leaves what the budget speaks of alone.
<1>alone. ASSUME UNCHANGED <<published, queue, position, committed, pc, faults>>
          PROVE  (published[q] + Queued(q) + Owed(q) <= 1 + faults)'
  <2>1. Queued(q)' = Queued(q) /\ Owed(q)' = Owed(q)
    BY <1>alone DEF Queued, Owed, Due, Current
  <2>2. QED
    BY <2>1, <1>alone, <1>same, <1>3
<1>4. ASSUME NEW k \in Kind, Publish(k)
      PROVE  (published[q] + Queued(q) + Owed(q) <= 1 + faults)'
  BY <1>4, <1>alone DEF Publish
<1>5. CASE Start
  <2>1. Queued(q)' = Queued(q) /\ Owed(q)' = Owed(q)
    BY <1>5, <1>1 DEF Start, Resume, Queued, Owed, Due
  <2>2. QED
    BY <1>5, <2>1, <1>same, <1>3 DEF Start
<1>6. ASSUME pc \in {"poll", "flush"}, pc' \in {"poll", "close"},
             UNCHANGED <<published, queue, position>>,
             faults' = faults \/ faults' = faults + 1
      PROVE  (published[q] + Queued(q) + Owed(q) <= 1 + faults)'
  <2>1. Queued(q)' = Queued(q) /\ Owed(q)' = Owed(q)
    BY <1>6 DEF Queued, Owed, Due
  <2>2. QED
    BY <1>6, <2>1, <1>same, <1>3
<1>7. CASE PollError
  BY <1>7, <1>6 DEF PollError
<1>8. CASE AutoCommit
  <2>1. Queued(q)' = Queued(q) /\ Owed(q)' = Owed(q)
    BY <1>8 DEF AutoCommit, Queued, Owed, Due, Current
  <2>2. QED
    BY <1>8, <2>1, <1>same, <1>3 DEF AutoCommit
<1>9. ASSUME NEW o \in Offset, Acked(o)
      PROVE  (published[q] + Queued(q) + Owed(q) <= 1 + faults)'
  <2>1. Owed(q)' = Owed(q) /\ faults' = faults
    BY <1>9 DEF Acked, Owed, Due, Current
  <2>2. CASE o = q
    <3>1. Queued(q) = 1 /\ Queued(q)' = 0
      BY <1>9, <2>2 DEF Acked, Queued
    <3>2. published'[q] = published[q] + 1
      BY <1>9, <2>2, <1>0 DEF Acked, Copied, ReadOK, TypeOK
    <3>3. QED
      BY <3>1, <3>2, <2>1, <1>1, <1>2, <1>3
  <2>3. CASE o # q
    <3>1. Queued(q)' = Queued(q)
      BY <1>9, <2>3 DEF Acked, Queued
    <3>2. published'[q] = published[q]
      BY <1>9, <2>3, <1>0 DEF Acked, Copied, ReadOK, TypeOK
    <3>3. QED
      BY <3>1, <3>2, <2>1, <1>1, <1>2, <1>3
  <2>4. QED
    BY <2>2, <2>3
<1>10. ASSUME NEW o \in Offset, AckLost(o)
       PROVE  (published[q] + Queued(q) + Owed(q) <= 1 + faults)'
  <2>1. Owed(q)' = Owed(q) /\ Queued(q)' = Queued(q) /\ faults' = faults + 1
    BY <1>10 DEF AckLost, Owed, Due, Current, Queued
  <2>2. published'[q] \in {published[q], published[q] + 1}
    BY <1>10, <1>0 DEF AckLost, Copied, ReadOK, TypeOK
  <2>3. QED
    BY <2>1, <2>2, <1>1, <1>2, <1>3
<1>11. ASSUME NEW o \in Offset, Expire(o)
       PROVE  (published[q] + Queued(q) + Owed(q) <= 1 + faults)'
  <2>1. Queued(q)' <= Queued(q) /\ faults' = faults + 1 /\ published' = published
    BY <1>11, <1>3 DEF Expire, Queued
  <2>2. QED
    BY <2>1, <1>paid
<1>12. CASE Interrupt
  <2>1. faults' = faults + 1 /\ published' = published /\ Queued(q)' <= Queued(q)
    BY <1>12, <1>3 DEF Interrupt, Queued
  <2>2. QED
    BY <2>1, <1>paid
<1>13. CASE Kill
  <2>1. faults' = faults + 1 /\ published' = published /\ Queued(q)' <= Queued(q)
    BY <1>13, <1>3 DEF Kill, Queued
  <2>2. QED
    BY <2>1, <1>paid
<1>14. CASE Stop
  BY <1>14, <1>6 DEF Stop
<1>15. CASE Deliver
  <2>1. pc = "poll" /\ pc' \in {"poll", "validate"} /\ position' = position + 1
    BY <1>15 DEF Deliver
  <2>2. Current' = position
    BY <2>1, <1>1 DEF Current
  <2>3. Owed(q)' <= Owed(q)
    BY <2>1, <2>2, <1>1 DEF Owed, Due
  <2>4. QED
    BY <1>15, <2>3, <1>same, <1>3 DEF Deliver, Queued
<1>16. CASE ValidatorRaises
  <2>1. Queued(q)' = Queued(q) /\ Owed(q)' <= Owed(q)
    BY <1>16 DEF ValidatorRaises, Queued, Owed, Due
  <2>2. QED
    BY <1>16, <2>1, <1>same, <1>3 DEF ValidatorRaises
<1>17. CASE Produce
  <2>1. /\ pc = "validate" /\ pc' = "flush" /\ queue' = queue \cup {Current}
        /\ UNCHANGED <<position, published, faults>>
    BY <1>17 DEF Produce
  <2>2. CASE q = Current
    <3>1. Owed(q) = 1
      BY <2>1, <2>2 DEF Owed, Due
    <3>2. Current < position
      BY <1>1 DEF Current
    <3>3. Owed(q)' = 0
      BY <2>1, <2>2, <3>2, <1>1 DEF Owed, Due
    <3>4. QED
      BY <3>1, <3>3, <2>1, <1>1, <1>2, <1>3
  <2>3. CASE q # Current
    <3>1. Queued(q)' = Queued(q) /\ Owed(q)' = Owed(q)
      BY <2>1, <2>3 DEF Queued, Owed, Due
    <3>2. QED
      BY <3>1, <2>1, <1>same, <1>3
  <2>4. QED
    BY <2>2, <2>3
<1>18. CASE ProduceRaises
  <2>1. Queued(q)' = Queued(q) /\ Owed(q)' <= Owed(q)
    BY <1>18 DEF ProduceRaises, Queued, Owed, Due
  <2>2. QED
    BY <1>18, <2>1, <1>same, <1>3 DEF ProduceRaises
<1>19. CASE Flushed
  BY <1>19, <1>6 DEF Flushed
<1>20. CASE FlushTimeout
  BY <1>20, <1>6 DEF FlushTimeout
<1>21. CASE CloseConsumer
  <2>1. Queued(q)' = Queued(q) /\ published' = published
    BY <1>21 DEF CloseConsumer, Queued
  <2>2. CASE committed' = position /\ faults' = faults
    <3>1. Owed(q)' = Owed(q)
      BY <1>21, <2>2 DEF CloseConsumer, Owed, Due
    <3>2. QED
      BY <3>1, <2>1, <2>2, <1>same, <1>3
  <2>3. CASE faults' = faults + 1
    BY <2>1, <2>3, <1>paid, <1>3
  <2>4. QED
    BY <1>21, <2>2, <2>3 DEF CloseConsumer
<1>22. CASE CloseProducer
  <2>1. Queued(q)' <= Queued(q) /\ Owed(q)' = Owed(q)
    BY <1>22, <1>3 DEF CloseProducer, Queued, Owed, Due
  <2>2. QED
    BY <1>22, <2>1, <1>same, <1>3 DEF CloseProducer
<1>23. CASE UNCHANGED vars
  BY <1>23, <1>alone DEF vars
<1>24. QED
  BY <1>4, <1>5, <1>7, <1>8, <1>9, <1>10, <1>11, <1>12, <1>13, <1>14, <1>15, <1>16,
     <1>17, <1>18, <1>19, <1>20, <1>21, <1>22, <1>23
  DEF Next, ConsumerStep, Environment

LEMMA CopyStep == CopyInv /\ [Next]_vars => CopyInv'
  BY ReadStep, BudgetStep DEF CopyInv, ReadOK

\* A message has at most one copy on the output topics more than there were
\* faults: the background commits, restarts and retries of python-consumer cost
\* no copy of their own.
THEOREM CopiesCostFaults == Spec => []CopiesBounded
<1>1. Spec => []CopyInv
  BY CopyInit, CopyStep, PTL DEF Spec
<1>2. CopyInv => CopiesBounded
  <2> SUFFICES ASSUME CopyInv, NEW o \in Offset
               PROVE  published[o] <= 1 + faults
    BY DEF CopiesBounded
  <2>1. published[o] \in Nat /\ faults \in Nat
    BY ConsumerAssumption DEF CopyInv, TypeOK
  <2>2. published[o] + Queued(o) + Owed(o) <= 1 + faults
    BY DEF CopyInv, Budget
  <2>3. Queued(o) \in {0, 1} /\ Owed(o) \in {0, 1}
    BY DEF Queued, Owed
  <2>4. QED
    BY <2>1, <2>2, <2>3
<1>3. QED
  BY <1>1, <1>2, PTL
=============================================================================
