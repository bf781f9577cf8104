------------------------- MODULE StreamConsumerSafety -------------------------
(***************************************************************************)
(* Proofs of what the stream consumer may lose, for every number of        *)
(* messages, runs and faults:                                              *)
(*   - without faults, every message that can be relayed is on its output  *)
(*     topic exactly once when the process is gone;                        *)
(*   - exit status zero means that every message of the run was counted as *)
(*     relayed and is published, unless the client gave it up;             *)
(*   - a fault costs at most one message that no run reported;             *)
(* and of what brings a run to its end.                                    *)
(*                                                                         *)
(* The three follow a message from the poll that returns it: it is carried *)
(* by the run (in the loop's hand, or in the client's queue), or it is     *)
(* published, or it was reported, or a fault was spent on it.              *)
(***************************************************************************)
EXTENDS StreamConsumerProofs, FiniteSetTheorems

\* Message o has left poll and has still to be produced or to be delivered.
Carried(o) == o \in queue \/ (pc = "validate" /\ o = Current)

\* A run reads on from where it began, and only what was published; a process
\* that is gone has no queue, and what stays queued after the loop went on was
\* counted as failed.
QueueOK ==
    /\ began <= position /\ position <= Len(raw)
    /\ pc = "off" => queue = {}
    /\ \A o \in queue : \/ o \in reported
                        \/ o = Current /\ pc \in {"flush", "close", "drain"}

FlowOK == ReadOK /\ QueueOK

LEMMA FlowInit == Init => FlowOK
<1> SUFFICES ASSUME Init
             PROVE  FlowOK
  OBVIOUS
<1>1. ReadOK
  BY ReadInit
<1>2. QED
  BY <1>1 DEF Init, FlowOK, QueueOK

LEMMA Ranges ==
    ASSUME ReadOK
    PROVE  /\ Offset = 0..(MaxOffset - 1) /\ MaxOffset \in Nat
           /\ raw \in Seq(Kind) /\ Len(raw) \in Nat /\ Len(raw) <= MaxOffset
           /\ committed \in Nat /\ position \in Nat /\ began \in Nat
           /\ committed <= position /\ position <= MaxOffset
           /\ published \in [Offset -> Nat]
           /\ queue \subseteq Offset /\ reported \subseteq Offset
           /\ consumed \in Nat /\ relayed \in Nat /\ failed \in Nat /\ faults \in Nat
           /\ pc \in {"validate", "flush"} => position > 0
<1>1. TypeOK /\ Reading
  BY DEF ReadOK
<1>2. /\ raw \in Seq(Kind) /\ Len(raw) <= MaxOffset
      /\ committed \in 0..MaxOffset /\ position \in 0..MaxOffset /\ began \in 0..MaxOffset
      /\ published \in [Offset -> Nat] /\ queue \subseteq Offset /\ reported \subseteq Offset
      /\ consumed \in Nat /\ relayed \in Nat /\ failed \in Nat /\ faults \in 0..MaxFaults
  BY <1>1, Zenon DEF TypeOK
<1>3. Len(raw) \in Nat
  BY <1>2
<1>4. QED
  BY <1>1, <1>2, <1>3, ConsumerAssumption DEF Reading, Offset

\* What a step does to the raw topic: the messages read so far stay.
LEMMA MessagesKept ==
    ASSUME FlowOK, [Next]_vars
    PROVE  /\ Len(raw) <= Len(raw')
           /\ \A o \in 0..(position - 1) : KindOf(o)' = KindOf(o)
<1> USE DEF kafka, counters, history, control
<1>1. raw' = raw \/ \E k \in Kind : raw' = Append(raw, k)
  BY DEF Next, ConsumerStep, Environment, vars, Publish, Start, PollError, AutoCommit,
         Acked, AckLost, Expire, Interrupt, Kill, Leave, Stop, Deliver, ValidatorRaises,
         Produce, ProduceRaises, Flushed, FlushTimeout, CloseConsumer, CloseProducer
<1>2. raw \in Seq(Kind) /\ Len(raw) \in Nat /\ position \in Nat /\ position <= Len(raw)
  BY Ranges DEF FlowOK, QueueOK
<1>3. CASE raw' = raw
  BY <1>2, <1>3 DEF KindOf
<1>4. ASSUME NEW k \in Kind, raw' = Append(raw, k)
      PROVE  /\ Len(raw) <= Len(raw')
             /\ \A o \in 0..(position - 1) : KindOf(o)' = KindOf(o)
  <2>1. Len(raw') = Len(raw) + 1 /\ \A i \in 1..Len(raw) : raw'[i] = raw[i]
    BY <1>2, <1>4
  <2>2. QED
    BY <1>2, <2>1 DEF KindOf
<1>5. QED
  BY <1>1, <1>3, <1>4

LEMMA QueueStep == FlowOK /\ [Next]_vars => QueueOK'
<1> SUFFICES ASSUME FlowOK, [Next]_vars
             PROVE  QueueOK'
  OBVIOUS
<1> USE DEF kafka, counters, history, control
<1>r. ReadOK /\ QueueOK
  BY DEF FlowOK
<1>1. began' <= position' /\ position' <= Len(raw')
  <2>1. Len(raw) <= Len(raw') /\ Len(raw') \in Nat
    BY MessagesKept, ReadStep, Ranges, <1>r
  <2>2. \/ position' = position /\ began' = began
        \/ position' = committed /\ began' = committed
        \/ position' = position + 1 /\ position < Len(raw) /\ raw' = raw /\ began' = began
    BY DEF Next, ConsumerStep, Environment, vars, Publish, Start, Resume, PollError,
           AutoCommit, Acked, AckLost, Expire, Interrupt, Kill, Leave, Stop, Deliver,
           ValidatorRaises, Produce, ProduceRaises, Flushed, FlushTimeout, CloseConsumer,
           CloseProducer
  <2>3. QED
    BY <2>1, <2>2, <1>r, Ranges DEF QueueOK
<1>2. pc' = "off" => queue' = {}
  BY <1>r DEF QueueOK, Next, ConsumerStep, Environment, vars, Publish, Start, PollError,
         AutoCommit, Acked, AckLost, Expire, Interrupt, Kill, Leave, Stop, Deliver,
         ValidatorRaises, Produce, ProduceRaises, Flushed, FlushTimeout, CloseConsumer,
         CloseProducer
<1>3. ASSUME NEW o \in queue'
      PROVE  (o \in reported \/ (o = Current /\ pc \in {"flush", "close", "drain"}))'
  <2>1. \/ queue' \subseteq queue /\ reported \subseteq reported' /\ position' = position
           /\ \/ pc \in {"flush", "close", "drain"} => pc' \in {"flush", "close", "drain"}
              \/ queue' = {}
        \/ Start \/ Deliver \/ Produce \/ FlushTimeout
    BY DEF Next, ConsumerStep, Environment, vars, Publish, PollError, AutoCommit,
           Acked, AckLost, Expire, Interrupt, Kill, Leave, Stop, ValidatorRaises,
           ProduceRaises, Flushed, CloseConsumer, CloseProducer, CountFailed, Drained
  <2>2. CASE queue' \subseteq queue /\ reported \subseteq reported' /\ position' = position
           /\ \/ pc \in {"flush", "close", "drain"} => pc' \in {"flush", "close", "drain"}
              \/ queue' = {}
    BY <2>2, <1>r, <1>3 DEF QueueOK, Current
  <2>3. CASE Start
    BY <2>3, <1>r, <1>3 DEF QueueOK, Start
  <2>4. CASE Deliver
    BY <2>4, <1>r, <1>3 DEF QueueOK, Deliver
  <2>5. CASE Produce
    BY <2>5, <1>r, <1>3 DEF QueueOK, Produce, Current
  <2>6. CASE FlushTimeout
    BY <2>6, <1>r, <1>3 DEF QueueOK, FlushTimeout, CountFailed, Current
  <2>7. QED
    BY <2>1, <2>2, <2>3, <2>4, <2>5, <2>6
<1>4. QED
  BY <1>1, <1>2, <1>3 DEF QueueOK

LEMMA FlowInvariant == Spec => []FlowOK
<1>1. FlowOK /\ [Next]_vars => FlowOK'
  BY ReadStep, QueueStep DEF FlowOK
<1>2. QED
  BY <1>1, FlowInit, PTL DEF Spec

-----------------------------------------------------------------------------
(***************************************************************************)
(* The steps of one message.                                               *)
(***************************************************************************)

\* Copies on the output topics are never taken back, and reports neither.
LEMMA PublishedKept ==
    ASSUME FlowOK, [Next]_vars
    PROVE  /\ \A o \in Offset : published'[o] >= published[o]
           /\ reported \subseteq reported' /\ expired \subseteq expired'
           /\ faults' \in {faults, faults + 1}
<1> USE DEF kafka, counters, history, control
<1>r. published \in [Offset -> Nat]
  BY Ranges DEF FlowOK
<1>1. published' = published \/ \E o \in Offset : published' = Copied(o)
  BY DEF Next, ConsumerStep, Environment, vars, Publish, Start, PollError, AutoCommit,
         Acked, AckLost, Expire, Interrupt, Kill, Leave, Stop, Deliver, ValidatorRaises,
         Produce, ProduceRaises, Flushed, FlushTimeout, CloseConsumer, CloseProducer
<1>2. \A o \in Offset : published'[o] >= published[o]
  BY <1>r, <1>1 DEF Copied
<1>3. /\ reported \subseteq reported' /\ expired \subseteq expired'
      /\ faults' \in {faults, faults + 1}
  BY DEF Next, ConsumerStep, Environment, vars, Publish, Start, PollError, AutoCommit,
         Acked, AckLost, Expire, Interrupt, Kill, Leave, Stop, Deliver, ValidatorRaises,
         Produce, ProduceRaises, Flushed, FlushTimeout, CloseConsumer, CloseProducer,
         CountFailed, Fault
<1>4. QED
  BY <1>2, <1>3

\* A run that raised nothing and counted no failure, in progress or ended.
CleanRun == IF pc = "off" THEN exit = "zero" ELSE ~raising /\ failed = 0

\* A message the run carries stays carried, or is published, or is given up by
\* the client, or is reported, or the run is cut short.
LEMMA CarriedStep ==
    ASSUME FlowOK, [Next]_vars, NEW o \in Offset, Carried(o)
    PROVE  \/ Carried(o)'
           \/ published'[o] > 0
           \/ Expire(o)
           \/ faults' = faults + 1 /\ ~CleanRun'
           \/ o \in reported' /\ ~CleanRun' /\ KindOf(o) \in {"fatal", "unsendable"}
<1> USE DEF kafka, counters, history, control, Leave, Fault
<1>r. /\ published \in [Offset -> Nat] /\ position \in Nat /\ failed \in Nat
      /\ pc = "off" => queue = {}
  BY Ranges DEF FlowOK, QueueOK
<1>c. UNCHANGED <<queue, pc, position>> => Carried(o)'
  BY DEF Carried, Current
<1>1. ASSUME NEW k \in Kind, Publish(k)
      PROVE  Carried(o)'
  BY <1>1, <1>c DEF Publish
<1>2. CASE Start
  BY <1>2, <1>r DEF Start, Carried
<1>3. CASE PollError
  BY <1>3 DEF PollError, Carried
<1>4. CASE AutoCommit
  BY <1>4, <1>c DEF AutoCommit
<1>5. ASSUME NEW q \in Offset, Acked(q)
      PROVE  Carried(o)' \/ published'[o] > 0
  <2>1. CASE q = o
    BY <1>5, <2>1, <1>r DEF Acked, Copied
  <2>2. CASE q # o
    BY <1>5, <2>2 DEF Acked, Carried, Current
  <2>3. QED
    BY <2>1, <2>2
<1>6. ASSUME NEW q \in Offset, AckLost(q)
      PROVE  Carried(o)'
  BY <1>6, <1>c DEF AckLost
<1>7. ASSUME NEW q \in Offset, Expire(q)
      PROVE  Carried(o)' \/ Expire(o)
  <2>1. CASE q = o
    BY <1>7, <2>1
  <2>2. CASE q # o
    BY <1>7, <2>2 DEF Expire, Carried, Current
  <2>3. QED
    BY <2>1, <2>2
<1>8. CASE Interrupt
  BY <1>8 DEF Interrupt, CleanRun
<1>9. CASE Kill
  BY <1>9 DEF Kill, CleanRun
<1>10. CASE Stop
  BY <1>10 DEF Stop, Carried
<1>11. CASE Deliver
  BY <1>11 DEF Deliver, Carried
<1>12. CASE ValidatorRaises
  BY <1>12 DEF ValidatorRaises, Carried, CleanRun
<1>13. CASE Produce
  BY <1>13 DEF Produce, Carried
<1>14. CASE ProduceRaises
  BY <1>14, <1>r DEF ProduceRaises, CountFailed, Carried, CleanRun
<1>15. CASE Flushed
  BY <1>15 DEF Flushed, Carried
<1>16. CASE FlushTimeout
  BY <1>16 DEF FlushTimeout, Carried
<1>17. CASE CloseConsumer
  BY <1>17 DEF CloseConsumer, Carried
<1>18. CASE CloseProducer
  BY <1>18 DEF CloseProducer, Carried, Drained
<1>19. CASE UNCHANGED vars
  BY <1>19, <1>c DEF vars
<1>20. QED
  BY <1>1, <1>2, <1>3, <1>4, <1>5, <1>6, <1>7, <1>8, <1>9, <1>10, <1>11, <1>12, <1>13,
     <1>14, <1>15, <1>16, <1>17, <1>18, <1>19
  DEF Next, ConsumerStep, Environment

\* poll hands on what it reads: a message the step has read is carried, unless
\* it is empty.
LEMMA ReadStepCarries ==
    ASSUME FlowOK, [Next]_vars, NEW o \in Nat, o < position'
    PROVE  \/ o \in 0..(position - 1)
           \/ Deliver /\ o = position /\ (KindOf(o) = "empty" \/ Carried(o)')
<1> USE DEF kafka, counters, history, control
<1>r. position \in Nat /\ committed \in Nat /\ committed <= position
  BY Ranges DEF FlowOK
<1>1. position' \in {position, committed} \/ Deliver
  BY DEF Next, ConsumerStep, Environment, vars, Publish, Start, Resume, PollError,
         AutoCommit, Acked, AckLost, Expire, Interrupt, Kill, Leave, Stop,
         ValidatorRaises, Produce, ProduceRaises, Flushed, FlushTimeout, CloseConsumer,
         CloseProducer
<1>2. CASE position' \in {position, committed}
  <2>1. position' \in Nat /\ position' <= position
    BY <1>2, <1>r
  <2>2. o \in 0..(position - 1)
    BY <2>1, <1>r
  <2>3. QED
    BY <2>2
<1>3. CASE Deliver
  <2>1. position' = position + 1
    BY <1>3 DEF Deliver
  <2>2. o \in 0..(position - 1) \/ o = position
    BY <2>1, <1>r
  <2>3. KindOf(position) # "empty" => pc' = "validate" /\ Current' = position
    BY <1>3, <2>1, <1>r DEF Deliver, Current
  <2>4. QED
    BY <1>3, <2>2, <2>3 DEF Carried
<1>4. QED
  BY <1>1, <1>2, <1>3

-----------------------------------------------------------------------------
(***************************************************************************)
(* Exactly once without faults.                                            *)
(***************************************************************************)

\* Until the first fault, every message that was read and can be relayed is
\* published or on its way.
NothingLost ==
    faults = 0 => \A o \in 0..(position - 1) :
        KindOf(o) \in {"valid", "invalid"} => published[o] > 0 \/ Carried(o)

LEMMA NothingLostStep == FlowOK /\ NothingLost /\ [Next]_vars => NothingLost'
<1> SUFFICES ASSUME FlowOK, NothingLost, [Next]_vars, faults' = 0,
                    NEW o \in 0..(position' - 1), KindOf(o)' \in {"valid", "invalid"}
             PROVE  published'[o] > 0 \/ Carried(o)'
  BY DEF NothingLost
<1>0. faults \in Nat /\ faults' = 0
  BY Ranges DEF FlowOK
<1>1. faults = 0
  BY <1>0, PublishedKept
<1>2. CASE o \in 0..(position - 1)
  <2>1. KindOf(o) \in {"valid", "invalid"}
    BY <1>2, MessagesKept
  <2>2. o \in Offset /\ published[o] \in Nat /\ published'[o] \in Nat
    <3>1. o \in Offset
      BY <1>2, Ranges DEF FlowOK
    <3>2. published \in [Offset -> Nat] /\ published' \in [Offset -> Nat]
      BY ReadStep DEF FlowOK, ReadOK, TypeOK
    <3>3. QED
      BY <3>1, <3>2
  <2>3. published[o] > 0 \/ Carried(o)
    BY <1>1, <1>2, <2>1 DEF NothingLost
  <2>4. CASE published[o] > 0
    BY <2>2, <2>4, PublishedKept
  <2>5. CASE Carried(o)
    BY <1>1, <2>1, <2>2, <2>5, CarriedStep, <1>0 DEF Expire, Fault
  <2>6. QED
    BY <2>3, <2>4, <2>5
<1>3. CASE o = position /\ Deliver /\ (KindOf(o) = "empty" \/ Carried(o)')
  <2>1. KindOf(o)' = KindOf(o)
    BY <1>3 DEF Deliver, kafka, KindOf
  <2>2. QED
    BY <1>3, <2>1
<1>4. o \in Nat /\ o < position'
  BY ReadStep, ConsumerAssumption DEF FlowOK, ReadOK, TypeOK
<1>5. QED
  BY <1>2, <1>3, <1>4, ReadStepCarries

\* Without faults the consumer relays exactly once, over any number of runs,
\* timeouts of flush and commits in the background.
THEOREM ExactlyOnceWithoutFaults == Spec => []FaultFreeExactlyOnce
<1>1. Init => NothingLost
  BY DEF Init, NothingLost
<1>2. FlowOK /\ NothingLost /\ CopiesBounded => FaultFreeExactlyOnce
  <2> SUFFICES ASSUME FlowOK, NothingLost, CopiesBounded, faults = 0, pc = "off",
                      NEW o \in 0..(position - 1), KindOf(o) \in {"valid", "invalid"}
               PROVE  published[o] = 1
    BY DEF FaultFreeExactlyOnce
  <2>1. o \in Offset /\ published[o] \in Nat
    BY Ranges DEF FlowOK
  <2>2. ~Carried(o)
    BY DEF FlowOK, QueueOK, Carried
  <2>3. published[o] > 0 /\ published[o] <= 1 + faults
    BY <2>1, <2>2 DEF NothingLost, CopiesBounded
  <2>4. QED
    BY <2>1, <2>3
<1>3. QED
  BY <1>1, <1>2, NothingLostStep, FlowInvariant, CopiesCostFaults, PTL DEF Spec

-----------------------------------------------------------------------------
(***************************************************************************)
(* What exit status zero means.                                            *)
(***************************************************************************)

\* The messages with a value that this run has read.
Mine == {o \in began..(position - 1) : KindOf(o) # "empty"}

InHand == IF pc \in {"validate", "flush"} THEN 1 ELSE 0

\* A clean run has counted exactly what it has read, and every message of it is
\* published, given up by the client, or on its way.
RunExact ==
    CleanRun => /\ consumed = Cardinality(Mine)
                /\ consumed = relayed + InHand
                /\ \A o \in Mine : published[o] > 0 \/ o \in expired \/ Carried(o)

\* A step of a run that reads nothing keeps the count of what is in hand.
LEMMA TallyStep ==
    ASSUME FlowOK, [Next]_vars, CleanRun', ~Start, ~Deliver
    PROVE  /\ CleanRun
           /\ UNCHANGED <<began, position, consumed>>
           /\ relayed' + InHand' = relayed + InHand
<1> USE DEF kafka, counters, history, control, Leave, Fault
<1>r. failed \in Nat /\ relayed \in Nat
  BY Ranges DEF FlowOK
<1>1. CleanRun
  BY <1>r DEF CleanRun, Next, ConsumerStep, Environment, vars, Publish, PollError,
         AutoCommit, Acked, AckLost, Expire, Interrupt, Kill, Stop, ValidatorRaises,
         Produce, ProduceRaises, Flushed, FlushTimeout, CloseConsumer, CloseProducer,
         CountFailed
<1>2. UNCHANGED <<began, position, consumed>>
  BY DEF Next, ConsumerStep, Environment, vars, Publish, PollError,
         AutoCommit, Acked, AckLost, Expire, Interrupt, Kill, Stop, ValidatorRaises,
         Produce, ProduceRaises, Flushed, FlushTimeout, CloseConsumer, CloseProducer
<1>3. \/ relayed' = relayed /\ (pc \in {"validate", "flush"} <=> pc' \in {"validate", "flush"})
      \/ Flushed
  BY <1>r DEF CleanRun, Next, ConsumerStep, Environment, vars, Publish, PollError,
         AutoCommit, Acked, AckLost, Expire, Interrupt, Kill, Stop, ValidatorRaises,
         Produce, ProduceRaises, FlushTimeout, CloseConsumer, CloseProducer, CountFailed
<1>4. relayed' + InHand' = relayed + InHand
  BY <1>r, <1>3 DEF InHand, Flushed
<1>5. QED
  BY <1>1, <1>2, <1>4

LEMMA RunExactStep == FlowOK /\ RunExact /\ [Next]_vars => RunExact'
<1> SUFFICES ASSUME FlowOK, RunExact, [Next]_vars, CleanRun'
             PROVE  /\ consumed' = Cardinality(Mine')
                    /\ consumed' = relayed' + InHand'
                    /\ \A o \in Mine' : published'[o] > 0 \/ o \in expired' \/ Carried(o)'
  BY DEF RunExact
<1>r. /\ position \in Nat /\ began \in Nat /\ position <= MaxOffset /\ MaxOffset \in Nat
      /\ Offset = 0..(MaxOffset - 1) /\ position <= Len(raw) /\ Len(raw) \in Nat
      /\ relayed \in Nat
  BY Ranges DEF FlowOK, QueueOK
<1>nat. \A o \in Offset : published[o] \in Nat /\ published'[o] \in Nat
  BY ReadStep DEF FlowOK, ReadOK, TypeOK
<1>1. CASE Start
  <2>1. pc' = "poll" /\ position' = began' /\ consumed' = 0 /\ relayed' = 0
    BY <1>1 DEF Start
  <2>2. began'..(began' - 1) = {}
    BY ReadStep, ConsumerAssumption DEF FlowOK, ReadOK, TypeOK
  <2>3. Mine' = {}
    BY <2>1, <2>2 DEF Mine
  <2>4. QED
    BY <2>1, <2>3, FS_EmptySet DEF InHand
<1>2. CASE Deliver
  <2>1. /\ pc = "poll" /\ raw' = raw /\ position < Len(raw) /\ position' = position + 1
        /\ UNCHANGED <<began, published, queue, expired, relayed, raising, failed>>
        /\ IF KindOf(position) = "empty"
           THEN UNCHANGED <<pc, consumed>>
           ELSE pc' = "validate" /\ consumed' = consumed + 1
    BY <1>2 DEF Deliver, kafka, history
  <2>2. CleanRun
    BY <2>1 DEF CleanRun
  <2>3. /\ consumed = Cardinality(Mine) /\ consumed = relayed
        /\ \A o \in Mine : published[o] > 0 \/ o \in expired \/ o \in queue
    BY <2>1, <2>2, <1>r DEF RunExact, InHand, Carried
  <2>4. Mine' = Mine \cup (IF KindOf(position) = "empty" \/ position < began THEN {} ELSE {position})
    BY <2>1, <1>r DEF Mine, KindOf
  <2>5. began <= position
    BY DEF FlowOK, QueueOK
  <2>6. IsFiniteSet(Mine) /\ position \notin Mine
    <3>1. began \in Int /\ position - 1 \in Int
      BY <1>r
    <3>2. IsFiniteSet(began..(position - 1))
      BY <3>1, FS_Interval, Zenon
    <3>3. Mine \subseteq began..(position - 1) /\ position \notin began..(position - 1)
      BY <1>r DEF Mine
    <3>4. QED
      BY <3>2, <3>3, FS_Subset
  <2>7. CASE KindOf(position) = "empty"
    <3>1. Mine' = Mine
      BY <2>4, <2>7
    <3>2. InHand = 0 /\ InHand' = 0
      BY <2>1, <2>7 DEF InHand
    <3>3. QED
      BY <3>1, <3>2, <2>1, <2>3, <2>7, <1>r DEF Carried
  <2>8. CASE KindOf(position) # "empty"
    <3>1. Mine' = Mine \cup {position}
      BY <2>4, <2>5, <2>8, <1>r
    <3>2. Cardinality(Mine') = Cardinality(Mine) + 1
      BY <3>1, <2>6, FS_AddElement
    <3>3. \A o \in {position} : Carried(o)'
      BY <2>1, <2>8, <1>r DEF Carried, Current
    <3>4. \A o \in Mine : published'[o] > 0 \/ o \in expired' \/ Carried(o)'
      BY <2>1, <2>3 DEF Carried
    <3>5. consumed' = relayed' + InHand'
      BY <2>1, <2>3, <2>8, <1>r DEF InHand
    <3>6. QED
      BY <3>1, <3>2, <3>3, <3>4, <3>5, <2>1, <2>3, <2>8
  <2>9. QED
    BY <2>7, <2>8
<1>3. CASE ~Start /\ ~Deliver
  <2>1. /\ CleanRun
        /\ UNCHANGED <<began, position, consumed>>
        /\ relayed' + InHand' = relayed + InHand
    BY <1>3, TallyStep
  <2>2. Mine' = Mine
    <3>1. \A o \in began..(position - 1) : KindOf(o)' = KindOf(o)
      BY <1>r, MessagesKept
    <3>2. QED
      BY <3>1, <2>1 DEF Mine
  <2>3. ASSUME NEW o \in Mine
        PROVE  published'[o] > 0 \/ o \in expired' \/ Carried(o)'
    <3>1. o \in Offset
      BY <1>r DEF Mine
    <3>2. published[o] > 0 \/ o \in expired \/ Carried(o)
      BY <2>1 DEF RunExact
    <3>3. CASE published[o] > 0
      BY <3>1, <3>3, <1>nat, PublishedKept
    <3>4. CASE o \in expired
      BY <3>4, PublishedKept
    <3>5. CASE Carried(o)
      BY <3>1, <3>5, CarriedStep DEF Expire
    <3>6. QED
      BY <3>2, <3>3, <3>4, <3>5
  <2>4. QED
    BY <2>1, <2>2, <2>3 DEF RunExact
<1>4. QED
  BY <1>1, <1>2, <1>3

\* Exit status zero can be trusted up to what the client gave up, for every
\* message limit and after any history of failed and killed runs.
THEOREM ExitZeroTrusted == Spec => []ExitZeroRelayed
<1>1. Init => RunExact
  BY DEF Init, RunExact, CleanRun
<1>2. FlowOK /\ RunExact => ExitZeroRelayed
  <2> SUFFICES ASSUME FlowOK, RunExact, pc = "off", exit = "zero"
               PROVE  /\ relayed = Cardinality(Mine) /\ consumed = relayed
                      /\ \A o \in Mine : published[o] > 0 \/ o \in expired
    BY DEF ExitZeroRelayed, Mine
  <2>1. relayed \in Nat /\ queue = {} /\ InHand = 0
    BY Ranges DEF FlowOK, QueueOK, InHand
  <2>2. QED
    BY <2>1 DEF RunExact, CleanRun, Carried
<1>3. QED
  BY <1>1, <1>2, RunExactStep, FlowInvariant, PTL DEF Spec

-----------------------------------------------------------------------------
(***************************************************************************)
(* What a fault may cost.                                                  *)
(***************************************************************************)

\* The messages that were read and are neither published nor carried nor
\* reported, whether or not the group's offset stands behind them yet.
Missing == {o \in 0..(position - 1) : /\ KindOf(o) # "empty"
                                      /\ published[o] = 0
                                      /\ ~Carried(o)
                                      /\ o \notin reported}

\* A message goes missing only together with a fault, and only one with each.
LEMMA MissingStep ==
    ASSUME FlowOK, [Next]_vars
    PROVE  \/ Missing' \subseteq Missing
           \/ faults' = faults + 1 /\ \E x \in Int : Missing' \subseteq Missing \cup {x}
<1>r. /\ position \in Nat /\ position <= MaxOffset /\ MaxOffset \in Nat
      /\ Offset = 0..(MaxOffset - 1) /\ faults \in Nat /\ Current \in Int
  BY Ranges DEF FlowOK, Current
<1>nat. \A o \in Offset : published[o] \in Nat /\ published'[o] \in Nat
  BY ReadStep DEF FlowOK, ReadOK, TypeOK
\* A message that is missing now was missing before or has just been dropped.
<1>1. ASSUME NEW o \in Missing'
      PROVE  /\ o \in Offset /\ o \notin reported'
             /\ \/ o \in Missing
                \/ Carried(o) /\ ~Carried(o)' /\ (Expire(o) \/ faults' = faults + 1)
  <2>1. /\ o \in 0..(position' - 1) /\ KindOf(o)' # "empty"
        /\ published'[o] = 0 /\ ~Carried(o)' /\ o \notin reported'
    BY <1>1 DEF Missing
  <2>2. o \in Nat /\ o < position'
    BY <2>1, ReadStep, ConsumerAssumption DEF FlowOK, ReadOK, TypeOK
  <2>3. o \in 0..(position - 1)
    <3>1. CASE Deliver /\ o = position /\ KindOf(o) = "empty"
      <4>1. KindOf(o)' = KindOf(o)
        BY <3>1 DEF Deliver, kafka, KindOf
      <4>2. QED
        BY <4>1, <3>1, <2>1
    <3>2. QED
      BY <2>1, <2>2, <3>1, ReadStepCarries
  <2>4. o \in Offset
    BY <2>3, <1>r
  <2>5. KindOf(o) # "empty" /\ o \notin reported
    BY <2>1, <2>3, MessagesKept, PublishedKept
  <2>6. published[o] = 0
    BY <2>1, <2>4, <1>nat, PublishedKept
  <2>7. CASE ~Carried(o)
    BY <2>1, <2>3, <2>4, <2>5, <2>6, <2>7 DEF Missing
  <2>8. CASE Carried(o)
    <3>1. ~(published'[o] > 0)
      BY <2>1
    <3>2. QED
      BY <3>1, <2>1, <2>4, <2>8, CarriedStep
  <2>9. QED
    BY <2>7, <2>8
<1>2. CASE \E q \in Int : Expire(q)
  <2>1. PICK q \in Int : Expire(q)
    BY <1>2
  <2>2. /\ faults' = faults + 1 /\ queue' = queue \ {q}
        /\ UNCHANGED <<pc, position>>
    BY <2>1 DEF Expire, Fault, control
  <2>3. \A o \in Missing' : o \in Missing \/ o = q
    BY <1>1, <2>2 DEF Carried, Current
  <2>4. QED
    BY <2>2, <2>3
<1>3. CASE ~\E q \in Int : Expire(q)
  <2>1. ASSUME NEW o \in Missing', o \notin Missing
        PROVE  o = Current /\ faults' = faults + 1
    <3>1. /\ Carried(o) /\ o \in Offset /\ o \notin reported'
          /\ Expire(o) \/ faults' = faults + 1
      BY <2>1, <1>1
    <3>2. o \notin reported
      BY <3>1, PublishedKept
    <3>3. o = Current
      BY <3>1, <3>2 DEF Carried, FlowOK, QueueOK
    <3>4. o \in Int
      BY <3>1, <1>r
    <3>5. QED
      BY <3>1, <3>3, <3>4, <1>3
  <2>2. QED
    BY <2>1, <1>r
<1>4. QED
  BY <1>2, <1>3

MissingPaid == Cardinality(Missing) <= faults

LEMMA MissingFinite == ASSUME FlowOK PROVE IsFiniteSet(Missing)
<1>1. 0 \in Int /\ position - 1 \in Int
  BY Ranges DEF FlowOK
<1>2. IsFiniteSet(0..(position - 1))
  BY <1>1, FS_Interval, Zenon
<1>3. QED
  BY <1>2, FS_Subset DEF Missing

LEMMA MissingPaidStep == FlowOK /\ MissingPaid /\ [Next]_vars => MissingPaid'
<1> SUFFICES ASSUME FlowOK, MissingPaid, [Next]_vars
             PROVE  Cardinality(Missing') <= faults'
  BY DEF MissingPaid
<1>1. IsFiniteSet(Missing) /\ Cardinality(Missing) \in Nat /\ faults \in Nat
  BY MissingFinite, FS_CardinalityType, Ranges DEF FlowOK
<1>2. Cardinality(Missing) <= faults
  BY DEF MissingPaid
<1>3. CASE Missing' \subseteq Missing
  <2>1. Cardinality(Missing') <= Cardinality(Missing) /\ Cardinality(Missing') \in Nat
    BY <1>1, <1>3, FS_Subset, FS_CardinalityType
  <2>2. faults' \in {faults, faults + 1}
    BY PublishedKept
  <2>3. QED
    BY <1>1, <1>2, <2>1, <2>2
<1>4. ASSUME faults' = faults + 1, NEW x \in Int, Missing' \subseteq Missing \cup {x}
      PROVE  Cardinality(Missing') <= faults'
  <2>1. /\ IsFiniteSet(Missing \cup {x})
        /\ Cardinality(Missing \cup {x}) \in {Cardinality(Missing), Cardinality(Missing) + 1}
    BY <1>1, FS_AddElement
  <2>2. Cardinality(Missing') <= Cardinality(Missing \cup {x}) /\ Cardinality(Missing') \in Nat
    BY <2>1, <1>4, FS_Subset, FS_CardinalityType
  <2>3. QED
    BY <1>1, <1>2, <1>4, <2>1, <2>2
<1>5. QED
  BY <1>3, <1>4, MissingStep

\* Commits in the background and before the final drain lose at most one
\* message with each kill, interrupt or delivery given up, and none otherwise.
THEOREM LossCostsFaults == Spec => []SilentLossBounded
<1>1. Init => MissingPaid
  <2> SUFFICES ASSUME Init
               PROVE  MissingPaid
    OBVIOUS
  <2>1. Missing = {}
    BY DEF Init, Missing
  <2>2. QED
    BY <2>1, FS_EmptySet DEF Init, MissingPaid
<1>2. FlowOK /\ MissingPaid => SilentLossBounded
  <2> SUFFICES ASSUME FlowOK, MissingPaid
               PROVE  Cardinality(LostSilently) <= faults
    BY DEF SilentLossBounded
  <2>1. committed \in Nat /\ position \in Nat /\ committed <= position /\ faults \in Nat
    BY Ranges DEF FlowOK
  <2>2. LostSilently \subseteq Missing
    BY <2>1 DEF LostSilently, Missing, InFlight, Carried
  <2>3. IsFiniteSet(Missing)
    BY MissingFinite
  <2>4. Cardinality(LostSilently) <= Cardinality(Missing)
    BY <2>2, <2>3, FS_Subset
  <2>5. Cardinality(LostSilently) \in Nat /\ Cardinality(Missing) \in Nat
    BY <2>2, <2>3, FS_Subset, FS_CardinalityType
  <2>6. QED
    BY <2>1, <2>4, <2>5 DEF MissingPaid
<1>3. QED
  BY <1>1, <1>2, MissingPaidStep, FlowInvariant, PTL DEF Spec

-----------------------------------------------------------------------------
(***************************************************************************)
(* The end of a run.  Beside the fairness, RunEnds rests on two facts: a   *)
(* run that has not ended has a step to take, if only the client's; and    *)
(* every step but those named below brings it nearer to its end.           *)
(***************************************************************************)

\* How far from its end a run is.
Stage == CASE pc = "off" -> 0 [] pc = "drain" -> 1 [] pc = "close" -> 2 [] OTHER -> 3

\* The messages that may still be published and read.
Unread == MaxOffset - position

\* What is left to do with the message in hand.
HandLeft == CASE pc = "validate" -> 2 [] pc = "flush" -> 1 [] OTHER -> 0

\* The run is nearer to its end: by stage, then by what it can still read, by
\* the message in hand, and by what the client has queued.
Nearer ==
    \/ Stage' < Stage
    \/ /\ Stage' = Stage
       /\ \/ Unread' < Unread
          \/ Unread' = Unread /\ HandLeft' < HandLeft
          \/ /\ Unread' = Unread /\ HandLeft' = HandLeft
             /\ queue' \subseteq queue /\ queue' # queue

\* Each step of a run, interrupts and kills included, brings it nearer to its
\* end.  A message that is published leaves it where it is, and so do a
\* background commit, of which there is one for each position, and a delivery
\* whose acknowledgement is lost, which costs one of the failures.
RunAdvances ==
    [][pc # "off" =>
          \/ Nearer
          \/ /\ UNCHANGED <<pc, position, queue>>
             /\ \/ \E k \in Kind : Publish(k)
                \/ AutoCommit
                \/ \E o \in Offset : AckLost(o)]_vars

\* The guards of ConsumerStep's actions, and of the client's.
ConsumerAble ==
    \/ pc \in {"poll", "flush", "close"}
    \/ pc = "validate" /\ KindOf(Current) \in Kind \ {"empty"}
    \/ pc = "drain" /\ Drained
ClientAble == \E o \in Offset : o \in queue

\* A run that has not ended has a step to take, or its client has one.
ConsumerNotStuck == pc # "off" => ConsumerAble \/ ClientAble

\* The message in hand has a value.
HandFilled == pc = "validate" => KindOf(Current) \in Kind \ {"empty"}

LEMMA AdvanceStep ==
    ASSUME ReadOK, [Next]_vars, pc # "off", ~UNCHANGED vars
    PROVE  \/ Nearer
           \/ /\ UNCHANGED <<pc, position, queue>>
              /\ \/ \E k \in Kind : Publish(k)
                 \/ AutoCommit
                 \/ \E o \in Offset : AckLost(o)
<1> USE DEF kafka, counters, history, control
<1>1. /\ position \in Nat /\ MaxOffset \in Nat /\ pc \in ProgramPoint
  BY Ranges DEF ReadOK, TypeOK
<1>2. CASE Stop \/ PollError \/ ValidatorRaises \/ CloseConsumer \/ CloseProducer
           \/ Interrupt \/ Kill
  <2>1. Stage' < Stage
    BY <1>1, <1>2 DEF Stop, PollError, ValidatorRaises, CloseConsumer, CloseProducer,
       Interrupt, Kill, Leave, Stage, ProgramPoint
  <2> QED
    BY <2>1 DEF Nearer
<1>3. CASE Deliver
  <2>1. Stage' = Stage /\ Unread' < Unread
    BY <1>1, <1>3 DEF Deliver, Stage, Unread
  <2> QED
    BY <2>1 DEF Nearer
<1>4. CASE Produce \/ ProduceRaises \/ Flushed \/ FlushTimeout
  <2>1. Stage' = Stage /\ Unread' = Unread /\ HandLeft' < HandLeft
    BY <1>4 DEF Produce, ProduceRaises, Flushed, FlushTimeout, Stage, Unread, HandLeft
  <2> QED
    BY <2>1 DEF Nearer
<1>5. ASSUME NEW o \in Offset, Acked(o) \/ Expire(o)
      PROVE  Nearer
  <2>1. Stage' = Stage /\ Unread' = Unread /\ HandLeft' = HandLeft
    BY <1>5 DEF Acked, Expire, Stage, Unread, HandLeft
  <2>2. queue' \subseteq queue /\ queue' # queue
    BY <1>5 DEF Acked, Expire
  <2> QED
    BY <2>1, <2>2 DEF Nearer
<1>6. CASE AutoCommit \/ (\E k \in Kind : Publish(k)) \/ \E o \in Offset : AckLost(o)
  BY <1>6 DEF AutoCommit, Publish, AckLost
<1>7. ~Start
  BY DEF Start
<1> QED
  BY <1>2, <1>3, <1>4, <1>5, <1>6, <1>7 DEF Next, ConsumerStep, Environment

\* No run goes on for ever: whatever fails and whenever the client delivers,
\* each step leaves the run nearer to its end.
THEOREM RunsAdvance == Spec => RunAdvances
<1>1. FlowOK /\ [Next]_vars
          => [pc # "off" =>
                 \/ Nearer
                 \/ /\ UNCHANGED <<pc, position, queue>>
                    /\ \/ \E k \in Kind : Publish(k)
                       \/ AutoCommit
                       \/ \E o \in Offset : AckLost(o)]_vars
  BY AdvanceStep DEF FlowOK
<1> QED
  BY <1>1, FlowInvariant, PTL DEF Spec, RunAdvances

\* poll hands over only messages with a value, and the topic keeps them.
LEMMA HandStep == FlowOK /\ HandFilled /\ [Next]_vars => HandFilled'
<1> SUFFICES ASSUME FlowOK, HandFilled, [Next]_vars, pc' = "validate"
             PROVE  (KindOf(Current) \in Kind \ {"empty"})'
  BY DEF HandFilled
<1> USE DEF kafka, counters, history, control
<1>1. CASE Deliver
  <2>1. raw \in Seq(Kind) /\ Len(raw) \in Nat /\ position \in Nat /\ position < Len(raw)
    BY <1>1, Ranges DEF FlowOK, Deliver
  <2>2. KindOf(position) \in Kind
    BY <2>1 DEF KindOf
  <2>3. Current' = position /\ raw' = raw
    BY <1>1, <2>1 DEF Deliver, Current
  <2>4. KindOf(position) # "empty"
    BY <1>1 DEF Deliver
  <2> QED
    BY <2>2, <2>3, <2>4 DEF KindOf
<1>2. CASE ~Deliver
  <2>1. pc = "validate" /\ position' = position
    BY <1>2 DEF Next, ConsumerStep, Environment, vars, Publish, Start, PollError, AutoCommit,
       Acked, AckLost, Expire, Interrupt, Kill, Leave, Stop, ValidatorRaises, Produce,
       ProduceRaises, Flushed, FlushTimeout, CloseConsumer, CloseProducer
  <2>2. Current \in 0..(position - 1) /\ Current' = Current
    BY <2>1, Ranges DEF FlowOK, Current
  <2>3. KindOf(Current)' = KindOf(Current)
    BY <2>2, MessagesKept DEF KindOf
  <2> QED
    BY <2>1, <2>3 DEF HandFilled
<1> QED
  BY <1>1, <1>2

\* The final flush without a time limit included, a run is never left without a
\* step: what it waits for, its client can deliver or give up.
THEOREM NeverStuck == Spec => []ConsumerNotStuck
<1>1. Init => HandFilled
  BY DEF Init, HandFilled
<1>2. FlowOK /\ HandFilled => ConsumerNotStuck
  <2> SUFFICES ASSUME FlowOK, HandFilled, pc # "off"
               PROVE  ConsumerAble \/ ClientAble
    BY DEF ConsumerNotStuck
  <2>1. pc \in ProgramPoint
    BY DEF FlowOK, ReadOK, TypeOK
  <2>2. queue \subseteq Offset
    BY Ranges DEF FlowOK
  <2>3. CASE pc = "drain"
    BY <2>2, <2>3 DEF ConsumerAble, ClientAble, Drained
  <2> QED
    BY <2>1, <2>3 DEF ProgramPoint, ConsumerAble, HandFilled
<1> QED
  BY <1>1, <1>2, HandStep, FlowInvariant, PTL DEF Spec
=============================================================================
