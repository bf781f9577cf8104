--------------------------- MODULE ConcurrentRunner ---------------------------
(***************************************************************************)
(* The concurrent mode of scripts/run_local_e2e_smoke_test.py: one process *)
(* starts the consumer, the loader and the producer as docker compose run  *)
(* commands, polls them, terminates the others when one of them fails, and *)
(* compares the number of rows in the warehouse with the number of rows of *)
(* the data set.  What it polls and kills is the docker command; the       *)
(* container in which the work is done is another process.                 *)
(***************************************************************************)
EXTENDS Integers, Sequences, FiniteSets

CONSTANTS Rows,      \* expected_rows, the limit of each process as well
          MaxFaults  \* bound: failures in a behaviour

ASSUME RunnerAssumption == Rows \in Nat \ {0} /\ MaxFaults \in Nat

\* process_specs, in the order in which they are started.
Order == <<"consumer", "loader", "producer">>
Proc  == {Order[i] : i \in DOMAIN Order}

VARIABLES
    pc,         \* the runner's program point
    started,    \* how many processes are started
    scan,       \* the handle the polling loop looks at next
    seen,       \* completed_process_names
    marked,     \* the handles with terminated_by_orchestrator
    culprit,    \* the process failure_reason names
    startup,    \* TRUE iff a process could not be started
    verdict,    \* status of profile_pipeline_concurrent_runtime
    check,      \* status of profile_pipeline_verify_postgres_deltas
    client,     \* the docker command of each process
    container,  \* the container of each process
    raw,        \* the rows in the raw topic
    processed,  \* the rows in the processed topic
    done,       \* the messages or rows each container has handled
    stored,     \* the rows in the warehouse, in the order they were stored
    copies,     \* history: records published or stored a second time
    faults      \* history: failures so far

runner == <<pc, started, scan, seen, marked, culprit, startup, verdict, check>>
docker == <<client, container>>
data   == <<raw, processed, done, stored, copies>>
vars   == <<runner, docker, data, faults>>

Row == 1..Rows

\* Every variable has its type.
TypeOK ==
    /\ pc \in {"launch", "poll", "grace", "collect", "counts", "returned", "raised"}
    /\ started \in 0..Len(Order) /\ scan \in 1..Len(Order)
    /\ seen \subseteq Proc /\ marked \subseteq Proc
    /\ culprit \in Proc \cup {"none"} /\ startup \in BOOLEAN
    /\ verdict \in {"none", "passed", "failed", "raised"}
    /\ check \in {"none", "passed", "failed"}
    /\ client \in [Proc -> {"unstarted", "running", "zero", "nonzero"}]
    /\ container \in [Proc -> {"none", "up", "gone"}]
    /\ raw \in Seq(Row) /\ processed \in Seq(Row)
    /\ done \in [Proc -> 0..Rows] /\ stored \in Seq(Row)
    /\ copies \in Nat /\ faults \in 0..MaxFaults

Init ==
    /\ pc = "launch" /\ started = 0 /\ scan = 1
    /\ seen = {} /\ marked = {} /\ culprit = "none" /\ startup = FALSE
    /\ verdict = "none" /\ check = "none"
    /\ client = [p \in Proc |-> "unstarted"]
    /\ container = [p \in Proc |-> "none"]
    /\ raw = <<>> /\ processed = <<>>
    /\ done = [p \in Proc |-> 0] /\ stored = <<>>
    /\ copies = 0 /\ faults = 0

Fault == faults < MaxFaults /\ faults' = faults + 1

-----------------------------------------------------------------------------
(***************************************************************************)
(* run_concurrent_profile_pipeline.                                        *)
(***************************************************************************)

Handles == {Order[i] : i \in 1..started}
Running == {p \in Handles : client[p] = "running"}

\* Faulty variant: every handle is marked and terminated.
Marks_All == Handles

\* The handles terminate_concurrent_processes marks and sends SIGTERM to.
Marks == Running

\* terminate_concurrent_processes; with nothing running it returns at once.
Terminate ==
    /\ marked' = marked \cup Marks
    /\ pc' = "grace"

\* start_concurrent_process for the next process; only FileNotFoundError is
\* handled when it raises.
Launch ==
    /\ pc = "launch" /\ started < Len(Order)
    /\ \/ /\ client' = [client EXCEPT ![Order[started + 1]] = "running"]
          /\ container' = [container EXCEPT ![Order[started + 1]] = "up"]
          /\ started' = started + 1
          /\ UNCHANGED <<pc, marked, startup, verdict, faults>>
       \/ /\ Fault /\ Terminate
          /\ startup' = TRUE
          /\ UNCHANGED <<started, verdict, docker>>
       \/ /\ Fault
          /\ pc' = "raised" /\ verdict' = "raised"
          /\ UNCHANGED <<started, marked, startup, docker>>
    /\ UNCHANGED <<scan, seen, culprit, check, data>>

Launched ==
    /\ pc = "launch" /\ started = Len(Order)
    /\ pc' = "poll"
    /\ UNCHANGED <<started, scan, seen, marked, culprit, startup, verdict, check, docker,
                   data, faults>>

\* Faulty variant: a return code of None is taken for an end.
Ended_Started(p) == client[p] # "unstarted"

\* poll() gives the return code.
Ended(p) == client[p] \in {"zero", "nonzero"}

\* One turn of wait_for_concurrent_processes' inner loop.
Poll ==
    /\ pc = "poll" /\ Handles # {}
    /\ LET p == Order[scan] IN
       /\ seen' = IF Ended(p) THEN seen \cup {p} ELSE seen
       /\ scan' = IF scan < started THEN scan + 1 ELSE 1
       /\ IF p \notin seen /\ client[p] = "nonzero"
          THEN culprit' = p /\ Terminate
          ELSE /\ pc' = IF scan = started /\ seen' = Handles THEN "collect" ELSE "poll"
               /\ UNCHANGED <<culprit, marked>>
    /\ UNCHANGED <<started, startup, verdict, check, docker, data, faults>>

\* The time to terminate is up: a command that still runs is killed.  Its
\* container is not.
Kill(p) ==
    /\ pc = "grace" /\ p \in marked /\ client[p] = "running"
    /\ client' = [client EXCEPT ![p] = "nonzero"]
    /\ UNCHANGED <<runner, container, data, faults>>

\* The processes are terminated: after a startup failure the polling loop
\* still looks at what was started.
Terminated ==
    /\ pc = "grace" /\ Running = {}
    /\ pc' = IF startup /\ culprit = "none" /\ Handles # {} THEN "poll" ELSE "collect"
    /\ UNCHANGED <<started, scan, seen, marked, culprit, startup, verdict, check, docker,
                   data, faults>>

Passed == ~startup /\ \A p \in Handles : client[p] # "nonzero"

\* collect_concurrent_process_result waits for every process; the results are
\* summarized.  After a startup failure the function returns.
Collect ==
    /\ pc = "collect" /\ \A p \in Handles : Ended(p)
    /\ verdict' = IF Passed THEN "passed" ELSE "failed"
    /\ pc' = IF startup THEN "returned" ELSE "counts"
    /\ UNCHANGED <<started, scan, seen, marked, culprit, startup, check, docker, data,
                   faults>>

\* The rows that the tables hold more than before the flow.
Total == Len(stored)

\* Faulty variant: only a negative difference fails the check.
DeltaPasses_NotNegative == Total >= 0

\* total_delta == expected_rows.  The script also wants neither of the two tables
\* to have become smaller; here they only grow.
DeltaPasses == Total = Rows

\* The row counts are read and compared, whatever the processes' verdict is.
\* When they cannot be read the function returns without having compared them.
VerifyDeltas ==
    /\ pc = "counts"
    /\ \/ check' = (IF DeltaPasses THEN "passed" ELSE "failed") /\ UNCHANGED faults
       \/ Fault /\ UNCHANGED check
    /\ pc' = "returned"
    /\ UNCHANGED <<started, scan, seen, marked, culprit, startup, verdict, docker, data>>

Runner == \/ Launch \/ Launched \/ Poll \/ Terminated \/ Collect \/ VerifyDeltas
          \/ \E p \in Proc : Kill(p)

-----------------------------------------------------------------------------
(***************************************************************************)
(* The containers and their docker commands.                               *)
(***************************************************************************)

\* Faulty variant: one message more than the limit.
Handle_PastLimit(p) ==
    container[p] = "up" /\ done[p] <= Rows /\ done' = [done EXCEPT ![p] = @ + 1]

\* A container handles one row or message more, below its limit.
Handle(p) == container[p] = "up" /\ done[p] < Rows /\ done' = [done EXCEPT ![p] = @ + 1]

\* The producer publishes the next row, perhaps twice, perhaps not at all.
Publish ==
    /\ Handle("producer")
    /\ LET i == done["producer"] + 1 IN
       \/ raw' = Append(raw, i) /\ UNCHANGED <<copies, faults>>
       \/ Fault /\ raw' = raw \o <<i, i>> /\ copies' = copies + 1
       \/ Fault /\ UNCHANGED <<raw, copies>>
    /\ UNCHANGED <<runner, docker, processed, stored>>

\* The consumer relays the next message, perhaps twice, or loses it.
Relay ==
    /\ done["consumer"] < Len(raw) /\ Handle("consumer")
    /\ LET i == raw[done["consumer"] + 1] IN
       \/ processed' = Append(processed, i) /\ UNCHANGED <<copies, faults>>
       \/ Fault /\ processed' = processed \o <<i, i>> /\ copies' = copies + 1
       \/ Fault /\ UNCHANGED <<processed, copies>>
    /\ UNCHANGED <<runner, docker, raw, stored>>

\* The loader stores the next message's row, perhaps twice, or gives it up.
Store ==
    /\ done["loader"] < Len(processed) /\ Handle("loader")
    /\ LET i == processed[done["loader"] + 1] IN
       \/ stored' = Append(stored, i) /\ UNCHANGED <<copies, faults>>
       \/ Fault /\ stored' = stored \o <<i, i>> /\ copies' = copies + 1
       \/ Fault /\ UNCHANGED <<stored, copies>>
    /\ UNCHANGED <<runner, docker, raw, processed>>

\* Faulty variant: there is no idle timeout.
Exits_LimitOnly(p) == done[p] = Rows

\* The container is done: all rows, or none for the idle timeout, which may be
\* over before the producer has started.
Exits(p) ==
    \/ done[p] = Rows
    \/ p = "consumer" /\ done[p] >= Len(raw)
    \/ p = "loader" /\ done[p] >= Len(processed)

\* A container ends, and with it its command: with zero when it is done, or
\* with an error.
End(p) ==
    /\ container[p] = "up"
    /\ container' = [container EXCEPT ![p] = "gone"]
    /\ \/ Exits(p) /\ UNCHANGED faults
          /\ client' = [client EXCEPT ![p] = IF @ = "running" THEN "zero" ELSE @]
       \/ Fault
          /\ client' = [client EXCEPT ![p] = IF @ = "running" THEN "nonzero" ELSE @]
    /\ UNCHANGED <<runner, data>>

\* The command obeys SIGTERM, and its container may or may not.
Obey(p) ==
    /\ p \in marked /\ client[p] = "running"
    /\ client' = [client EXCEPT ![p] = "nonzero"]
    /\ container' \in {container, [container EXCEPT ![p] = "gone"]}
    /\ UNCHANGED <<runner, data, faults>>

Work == Publish \/ Relay \/ Store \/ \E p \in Proc : End(p) \/ Obey(p)

Returned == pc \in {"returned", "raised"} /\ UNCHANGED vars

Next == Runner \/ Work \/ Returned

Spec == Init /\ [][Next]_vars

\* The runner goes on, and so does each container: it handles what there is
\* and ends by its limit or its idle timeout.
FairSpec ==
    /\ Spec
    /\ WF_vars(Runner)
    /\ WF_vars(Publish) /\ WF_vars(Relay) /\ WF_vars(Store)
    /\ \A p \in Proc : WF_vars(End(p))

-----------------------------------------------------------------------------
(***************************************************************************)
(* Properties.                                                             *)
(***************************************************************************)

Supervised == INSTANCE SupervisedProcesses
              WITH Proc <- Proc, child <- client, verdict <- verdict

\* The runner implements a supervisor: it judges the flow once, when no
\* command runs any more, and passes it exactly when the three of them were
\* started and returned zero.
Supervision == Supervised!Spec

\* A flow that has a result has left no container behind that could still
\* publish or store but those whose command the runner terminated, and then the
\* flow has failed and its summary says whose they may be.  (A flow that ends
\* with an exception has no summary, and leaves whatever it has started.)
LeftoversAreMarked ==
    verdict \in {"passed", "failed"} =>
        \A p \in Proc : container[p] = "up" => p \in marked /\ verdict = "failed"

\* The process the termination is blamed on is not itself among those that the
\* summary says were terminated by the orchestrator, whatever ends while the
\* runner polls.
CulpritUnmarked ==
    culprit # "none" => client[culprit] = "nonzero" /\ (culprit \in marked => startup)

\* The row count compares a sum, in which a lost row and a row stored twice
\* cancel out.  When it passes, the rows that are missing are no more than the
\* records that were published or stored twice; and without such records every
\* row of the data set is in the warehouse exactly once: a consumer or a loader
\* that gave up too early, which returns zero, does not go unnoticed.
PassedMeansLoaded ==
    check = "passed" =>
        /\ Cardinality(Row \ {stored[k] : k \in DOMAIN stored}) <= copies
        /\ copies = 0 =>
               \A i \in Row : Cardinality({k \in DOMAIN stored : stored[k] = i}) = 1

\* run_concurrent_profile_pipeline ends, although its polling loop has no time
\* limit of its own.
RunnerReturns == <>(pc \in {"returned", "raised"})
=============================================================================
