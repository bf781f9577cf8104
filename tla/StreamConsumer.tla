---------------------------- MODULE StreamConsumer ----------------------------
(***************************************************************************)
(* The stream consumer (python-consumer/main.py): one process that reads   *)
(* the raw topic, validates each message and republishes it to one of two  *)
(* output topics.  It never commits an offset itself: the Kafka client     *)
(* commits in the background whatever poll has returned, published or not. *)
(* A produced message waits in the client's queue; main waits ten seconds  *)
(* for the queue to drain, then counts the message as failed and goes on,  *)
(* and the message may still be delivered.                                 *)
(*                                                                         *)
(* The raw topic has one partition, as docker-compose.yml creates it.      *)
(***************************************************************************)
EXTENDS Integers, Sequences, FiniteSets

CONSTANTS MaxOffset,    \* bound: messages published to the raw topic
          MaxMessages,  \* CONSUMER_MAX_MESSAGES, zero means no limit
          MaxFaults,    \* bound: failures, interrupts and kills in a behaviour
          MaxRuns       \* bound: runs of the consumer in a behaviour

ASSUME ConsumerAssumption ==
    /\ MaxOffset \in Nat
    /\ MaxMessages \in Nat
    /\ MaxFaults \in Nat
    /\ MaxRuns \in Nat

Offset == 0..(MaxOffset - 1)

\* What validation and publishing make of a message: it passes or fails the
\* rules; it has no value at all; the validator itself raises on it (an
\* integer from an infinite float); its record cannot be handed to the client
\* (a key that is no UTF-8, a record too large).
Kind == {"valid", "invalid", "empty", "fatal", "unsendable"}

VARIABLES
    raw,        \* Kafka: what the raw topic holds
    committed,  \* Kafka: the group's committed offset
    published,  \* Kafka: how many copies of each message the output topics hold
    queue,      \* the producer client's queue of undelivered messages
    pc,         \* the consumer's program point, "off" when no process runs
    raising,    \* TRUE iff an exception is leaving main
    exit,       \* how the last run ended
    position,   \* the offset after the last message poll returned
    consumed,   \* consumed_count
    relayed,    \* processed_count + invalid_count
    failed,     \* failed_count
    reported,   \* history: messages counted as failed or named by a traceback
    expired,    \* history: messages the client gave up delivering
    began,      \* history: the position this run started from
    runs,       \* runs started so far
    faults      \* faults so far

kafka    == <<raw, committed, published>>
counters == <<consumed, relayed, failed>>
history  == <<reported, expired, began>>
control  == <<pc, raising, exit>>
vars == <<kafka, queue, control, position, counters, history, runs, faults>>

ProgramPoint == {"off", "poll", "validate", "flush", "close", "drain"}

TypeOK ==
    /\ raw \in Seq(Kind) /\ Len(raw) <= MaxOffset
    /\ committed \in 0..MaxOffset
    /\ published \in [Offset -> Nat]
    /\ queue \subseteq Offset
    /\ pc \in ProgramPoint
    /\ raising \in BOOLEAN
    /\ exit \in {"none", "zero", "nonzero", "killed"}
    /\ position \in 0..MaxOffset
    /\ consumed \in Nat /\ relayed \in Nat /\ failed \in Nat
    /\ reported \subseteq Offset
    /\ expired \subseteq Offset
    /\ began \in 0..MaxOffset
    /\ runs \in 0..MaxRuns
    /\ faults \in 0..MaxFaults

-----------------------------------------------------------------------------

KindOf(o) == raw[o + 1]

\* The message poll returned last.
Current == position - 1

Fault == faults < MaxFaults /\ faults' = faults + 1

\* Another copy of o is on its output topic.
Copied(o) == [published EXCEPT ![o] = @ + 1]

Init ==
    /\ raw = <<>>
    /\ committed = 0
    /\ published = [o \in Offset |-> 0]
    /\ queue = {}
    /\ pc = "off" /\ raising = FALSE /\ exit = "none"
    /\ position = 0
    /\ consumed = 0 /\ relayed = 0 /\ failed = 0
    /\ reported = {} /\ expired = {} /\ began = 0
    /\ runs = 0
    /\ faults = 0

\* The raw-log producer publishes to the raw topic.
Publish(k) ==
    /\ Len(raw) < MaxOffset
    /\ raw' = Append(raw, k)
    /\ UNCHANGED <<committed, published, queue, control, position, counters,
                   history, runs, faults>>

\* Faulty variant: a run reads the topic from its beginning.
Resume_Earliest == 0

\* Where a run resumes: at the group's offset, the earliest message without one.
Resume == committed

\* A run starts: main creates the consumer and the producer.
Start ==
    /\ pc = "off" /\ runs < MaxRuns
    /\ runs' = runs + 1
    /\ pc' = "poll" /\ raising' = FALSE /\ exit' = "none"
    /\ position' = Resume /\ began' = Resume
    /\ consumed' = 0 /\ relayed' = 0 /\ failed' = 0
    /\ UNCHANGED <<kafka, queue, reported, expired, faults>>

-----------------------------------------------------------------------------
(***************************************************************************)
(* The polling loop.                                                       *)
(***************************************************************************)

LimitReached == MaxMessages > 0 /\ consumed >= MaxMessages

\* The message limit, or no message for the idle timeout, ends the loop.
Stop ==
    /\ pc = "poll"
    /\ pc' = "close"
    /\ UNCHANGED <<kafka, queue, raising, exit, position, counters, history, runs,
                   faults>>

\* poll raises what it gets as an error event, and nothing in main catches it.
PollError ==
    /\ pc = "poll" /\ ~LimitReached
    /\ Fault
    /\ raising' = TRUE /\ pc' = "close"
    /\ UNCHANGED <<kafka, queue, exit, position, counters, history, runs>>

\* poll returns the next message's value; main takes an empty one for no
\* message at all.
Deliver ==
    /\ pc = "poll" /\ ~LimitReached
    /\ position < Len(raw)
    /\ position' = position + 1
    /\ IF KindOf(position) = "empty"
       THEN UNCHANGED <<pc, consumed>>
       ELSE pc' = "validate" /\ consumed' = consumed + 1
    /\ UNCHANGED <<kafka, queue, raising, exit, relayed, failed, history, runs, faults>>

\* validate_message raises outside main's try: the run ends with a traceback.
ValidatorRaises ==
    /\ pc = "validate" /\ KindOf(Current) = "fatal"
    /\ raising' = TRUE /\ pc' = "close"
    /\ reported' = reported \cup {Current}
    /\ UNCHANGED <<kafka, queue, exit, position, counters, expired, began, runs, faults>>

\* produce queues the normalized or the invalid record.
Produce ==
    /\ pc = "validate" /\ KindOf(Current) \in {"valid", "invalid"}
    /\ queue' = queue \cup {Current}
    /\ pc' = "flush"
    /\ UNCHANGED <<kafka, raising, exit, position, counters, history, runs, faults>>

\* Faulty variants: the failure is logged and not counted; it is subtracted.
CountFailed_Uncounted == failed' = failed /\ reported' = reported
CountFailed_Subtracted == failed' = failed - 1 /\ reported' = reported

\* failed_count += 1
CountFailed ==
    /\ failed' = failed + 1
    /\ reported' = reported \cup {Current}

\* produce raises, and the message is counted as failed.
ProduceRaises ==
    /\ pc = "validate" /\ KindOf(Current) = "unsendable"
    /\ CountFailed
    /\ pc' = "poll"
    /\ UNCHANGED <<kafka, queue, raising, exit, position, consumed, relayed, expired,
                   began, runs, faults>>

\* Faulty variants: main does not wait for the queue; it waits for a delivery
\* that the client has given up.
Drained_Always == TRUE
Drained_Confirmed == queue \cup expired = {}

\* flush leaves nothing in the client's queue, whatever became of it.
Drained == queue = {}

\* flush returns zero: the message counts as processed or invalid.
Flushed ==
    /\ pc = "flush" /\ Drained
    /\ relayed' = relayed + 1
    /\ pc' = "poll"
    /\ UNCHANGED <<kafka, queue, raising, exit, position, consumed, failed, history,
                   runs, faults>>

\* flush times out: the message counts as failed and stays in the queue.
FlushTimeout ==
    /\ pc = "flush" /\ queue # {}
    /\ CountFailed
    /\ pc' = "poll"
    /\ UNCHANGED <<kafka, queue, raising, exit, position, consumed, relayed, expired,
                   began, runs, faults>>

-----------------------------------------------------------------------------
(***************************************************************************)
(* The Kafka client's background threads.                                  *)
(***************************************************************************)

\* enable.auto.commit is on by default: every so often the client commits the
\* position, whether or not main is done with the last message.
AutoCommit ==
    /\ pc \notin {"off", "drain"} /\ committed # position
    /\ committed' = position
    /\ UNCHANGED <<raw, published, queue, control, position, counters, history, runs,
                   faults>>

\* A queued message is delivered and acknowledged.
Acked(o) ==
    /\ o \in queue
    /\ published' = Copied(o)
    /\ queue' = queue \ {o}
    /\ UNCHANGED <<raw, committed, control, position, counters, history, runs, faults>>

\* It is delivered, the acknowledgement is lost, and the client will retry.
AckLost(o) ==
    /\ o \in queue
    /\ Fault
    /\ published' = Copied(o)
    /\ UNCHANGED <<raw, committed, queue, control, position, counters, history, runs>>

\* The broker refuses it or its time is up.  The delivery report goes nowhere:
\* produce was given no callback.
Expire(o) ==
    /\ o \in queue
    /\ Fault
    /\ queue' = queue \ {o}
    /\ expired' = expired \cup {o}
    /\ UNCHANGED <<kafka, control, position, counters, reported, began, runs>>

-----------------------------------------------------------------------------
(***************************************************************************)
(* The end of a run.                                                       *)
(***************************************************************************)

\* consumer.close commits the position and leaves the group.
CloseConsumer ==
    /\ pc = "close"
    /\ \/ committed' = position /\ UNCHANGED faults
       \/ Fault /\ UNCHANGED committed
    /\ pc' = "drain"
    /\ UNCHANGED <<raw, published, queue, raising, exit, position, counters, history, runs>>

\* The process is gone, and its client's queue with it.
Leave(code) ==
    /\ pc' = "off" /\ exit' = code
    /\ queue' = {}
    /\ UNCHANGED <<kafka, raising, position, counters, history, runs>>

\* producer.close waits for the queue without a time limit; then main returns.
CloseProducer ==
    /\ pc = "drain" /\ Drained
    /\ Leave(IF raising \/ failed # 0 THEN "nonzero" ELSE "zero")
    /\ UNCHANGED faults

\* KeyboardInterrupt: out of the loop into the finally block, out of the
\* finally block out of the process.
Interrupt ==
    /\ pc # "off"
    /\ Fault
    /\ IF pc \in {"close", "drain"}
       THEN Leave("nonzero")
       ELSE /\ raising' = TRUE /\ pc' = "close"
            /\ UNCHANGED <<kafka, queue, exit, position, counters, history, runs>>

Kill == pc # "off" /\ Fault /\ Leave("killed")

-----------------------------------------------------------------------------

\* The steps the process takes by itself.
ConsumerStep ==
    \/ Stop
    \/ Deliver
    \/ ValidatorRaises
    \/ Produce
    \/ ProduceRaises
    \/ Flushed
    \/ FlushTimeout
    \/ CloseConsumer
    \/ CloseProducer

Environment ==
    \/ \E k \in Kind : Publish(k)
    \/ Start
    \/ PollError
    \/ AutoCommit
    \/ \E o \in Offset : Acked(o) \/ AckLost(o) \/ Expire(o)
    \/ Interrupt
    \/ Kill

Next == ConsumerStep \/ Environment

Spec == Init /\ [][Next]_vars

\* A process that runs keeps running, and the client resolves every message it
\* has queued: it delivers it or gives it up after message.timeout.ms.
FairSpec == /\ Spec
            /\ WF_vars(ConsumerStep)
            /\ WF_vars(\E o \in Offset : Acked(o) \/ Expire(o))

-----------------------------------------------------------------------------
(***************************************************************************)
(* What the consumer guarantees.                                           *)
(***************************************************************************)

InFlight(o) == o \in queue \/ (pc \in {"validate", "flush"} /\ o = Current)

\* The messages behind the group's offset that reached no output topic, are
\* not on their way to one, and that no run reported.
LostSilently ==
    {o \in 0..(committed - 1) : /\ KindOf(o) # "empty"
                                /\ published[o] = 0
                                /\ ~InFlight(o)
                                /\ o \notin reported}

\* The background commit races the publishing of the message in hand, and
\* consumer.close commits before producer.close drains the queue; still a
\* kill, an interrupt or a delivery the client gives up costs at most one
\* message that no run reported.
SilentLossBounded == Cardinality(LostSilently) <= faults

\* The output topics hold at most one copy more of a message than there were
\* faults: a copy costs a kill before the background commit, a final commit
\* that failed, or a lost acknowledgement.
CopiesBounded == \A o \in Offset : published[o] <= 1 + faults

\* Exit status zero: every message of the run with a value was counted as
\* relayed, and is on an output topic unless the client gave it up, which the
\* exit status does not tell.
ExitZeroRelayed ==
    pc = "off" /\ exit = "zero" =>
        LET mine == {o \in began..(position - 1) : KindOf(o) # "empty"}
        IN /\ relayed = Cardinality(mine) /\ consumed = relayed
           /\ \A o \in mine : published[o] > 0 \/ o \in expired

\* Without faults every message that can be relayed is on its output topic
\* exactly once when the process is gone, restarts included: the final drain
\* delivers even the messages that were counted as failed because flush timed
\* out, so failed_count may exceed what is missing and never the reverse.
FaultFreeExactlyOnce ==
    faults = 0 /\ pc = "off" =>
        \A o \in 0..(position - 1) :
            KindOf(o) \in {"valid", "invalid"} => published[o] = 1

\* The group's offset never retreats, over restarts included: no message is
\* read again once a later run may have skipped it.
OffsetNeverRetreats == [][committed' >= committed]_committed

\* Every run ends: the limit, the idle timeout, an exception or a kill, and
\* then a queue that drains.
RunEnds == pc # "off" ~> pc = "off"
=============================================================================
