----------------------------- MODULE PipelineDag -----------------------------
(***************************************************************************)
(* The Airflow DAG (airflow/dags/iot_local_pipeline_dag.py) and what its   *)
(* tasks share: the Kafka topics, the warehouse tables, the Spark output   *)
(* directory and the object store.  Each run of the DAG goes through its   *)
(* chain of tasks; an attempt of a task that fails or outlives its         *)
(* execution_timeout is retried once, with whatever the first attempt left *)
(* behind.  Nothing keeps two runs from overlapping: max_active_runs is    *)
(* not set and runs are started by hand.                                   *)
(*                                                                         *)
(* The producer, the consumer and the loader appear here as the DAG sees   *)
(* them: a process that handles messages one after the other and exits;    *)
(* StreamConsumer and WarehouseLoader have the details.  The rows of the   *)
(* data set pass the consumer's validation.                                *)
(***************************************************************************)
EXTENDS Integers, Sequences, FiniteSets

CONSTANTS Run,          \* bound: the runs of the DAG
          DataSets,     \* bound: the CSV files a run may be started for
          MaxRows,      \* bound: rows of a data set
          MaxMessages,  \* by group: CONSUMER_MAX_MESSAGES, WAREHOUSE_LOADER_MAX_MESSAGES
          MaxDisturbances  \* bound: failures, and one for runs that overlap

\* A row of a data set: one the contract rejects, one PostgreSQL refuses.
RowKind == {"ok", "bad", "unstorable"}

Group == {"consumer", "loader"}

ASSUME DagAssumption == /\ DataSets \subseteq UNION {[1..n -> RowKind] : n \in 1..MaxRows}
                        /\ MaxRows \in Nat /\ MaxDisturbances \in Nat
                        /\ MaxMessages \in [Group -> Nat \ {0}]
                        /\ "nobody" \notin Run

VARIABLES
    task,       \* the task each run is at, or how it stands
    attempt,    \* try_number of that task
    handled,    \* what this attempt has handled: rows or messages
    failed,     \* those of them it counted as failed
    dataset,    \* DATASET_PROFILE's file
    up,         \* TRUE iff the Kafka container runs
    raw,        \* the raw topic: the run and the row of each message
    processed,  \* the processed topic
    offset,     \* the offsets of the run's two consumer groups
    table,      \* processed_iot_logs: how many rows each record has
    scans,      \* iot_anomalies: how often the findings of a run were copied in
    output,     \* the Spark output directory: the run that wrote its parts
    bucket,     \* the objects under spark/device_features/latest/
    audit,      \* pipeline_run_audit: how many rows a run has
    alone,      \* history: no other run was active during this one
    empty,      \* history: the topics were empty when the run was triggered
    owner,      \* history: the run that truncated the tables last
    faults      \* history: the failures each run has met

kafka   == <<up, raw, processed, offset>>
lake    == <<output, bucket>>
history == <<alone, empty, owner>>
process == <<task, attempt, handled, failed>>
vars == <<process, dataset, kafka, table, scans, lake, audit, history, faults>>

\* Faulty variant: the contract is validated when the rows are loaded.
Chain_ContractLate ==
    <<"reset", "start", "truncate", "producer", "consumer", "loader", "contract",
      "anomalies", "spark", "upload", "writer", "validate">>

\* The chain of tasks: start, finish, dbt run, dbt test and the tasks that
\* only look at files are left out.
Chain ==
    <<"reset", "start", "truncate", "contract", "producer", "consumer", "loader",
      "anomalies", "spark", "upload", "writer", "validate">>

Task   == {Chain[i] : i \in DOMAIN Chain}
Active(r) == task[r] \in Task
Record == Run \X (1..MaxRows)
Part   == 1..2  \* the Parquet files Spark writes

\* Every variable has its type: the DAG's runs, topics, tables and objects.
TypeOK ==
    /\ task \in [Run -> Task \cup {"idle", "green", "failed"}]
    /\ attempt \in [Run -> 1..2]
    /\ handled \in [Run -> Nat] /\ failed \in [Run -> Nat]
    /\ dataset \in [Run -> DataSets]
    /\ up \in BOOLEAN
    /\ raw \in Seq(Record) /\ processed \in Seq(Record)
    /\ offset \in [Run -> [Group -> Nat]]
    /\ table \in [Record -> Nat]
    /\ scans \in [Run -> Nat] /\ audit \in [Run -> Nat]
    /\ output \in Run \cup {"nobody"} /\ bucket \subseteq (Run \cup {"nobody"}) \X Part
    /\ alone \in [Run -> BOOLEAN] /\ empty \in [Run -> BOOLEAN]
    /\ owner \in Run \cup {"nobody"} /\ faults \in [Run -> Nat]

Init ==
    /\ task = [r \in Run |-> "idle"] /\ attempt = [r \in Run |-> 1]
    /\ handled = [r \in Run |-> 0] /\ failed = [r \in Run |-> 0]
    /\ dataset \in [Run -> DataSets]
    /\ up = FALSE /\ raw = <<>> /\ processed = <<>>
    /\ offset = [r \in Run |-> [g \in Group |-> 0]]
    /\ table = [m \in Record |-> 0]
    /\ scans = [r \in Run |-> 0] /\ audit = [r \in Run |-> 0]
    /\ output = "nobody" /\ bucket = {}
    /\ alone = [r \in Run |-> TRUE] /\ empty = [r \in Run |-> TRUE]
    /\ owner = "nobody" /\ faults = [r \in Run |-> 0]

-----------------------------------------------------------------------------
(***************************************************************************)
(* Airflow's scheduler.                                                    *)
(***************************************************************************)

Overlapping == \E r \in Run : ~alone[r]

Disturbances ==
    LET Sum[S \in SUBSET Run] ==
            IF S = {} THEN 0 ELSE LET r == CHOOSE r \in S : TRUE IN faults[r] + Sum[S \ {r}]
    IN  Sum[Run] + IF Overlapping THEN 1 ELSE 0

\* One of the behaviour's failures happens in this step.
Fault(r) == Disturbances < MaxDisturbances /\ faults' = [faults EXCEPT ![r] = @ + 1]

\* A run is triggered by hand, perhaps while another one is active.
Trigger(r) ==
    LET others == {q \in Run : Active(q)}
    IN  /\ task[r] = "idle"
        /\ others = {} \/ Overlapping \/ Disturbances < MaxDisturbances
        /\ task' = [task EXCEPT ![r] = "reset"]
        /\ alone' = [q \in Run |-> alone[q] /\ (others = {} \/ q \notin others \cup {r})]
        /\ empty' = [empty EXCEPT ![r] = raw = <<>> /\ processed = <<>>]
        /\ UNCHANGED <<attempt, handled, failed, dataset, kafka, table, scans, lake,
                       audit, owner, faults>>

\* The task that follows t, and what a run is when there is none.
After(t) ==
    LET i == CHOOSE i \in DOMAIN Chain : Chain[i] = t
    IN  IF i = Len(Chain) THEN "green" ELSE Chain[i + 1]

\* A new attempt of task t begins.
Begin(r, t, n) ==
    /\ task' = [task EXCEPT ![r] = t]
    /\ attempt' = [attempt EXCEPT ![r] = n]
    /\ handled' = [handled EXCEPT ![r] = 0]
    /\ failed' = [failed EXCEPT ![r] = 0]

\* Faulty variant: a task that fails is retried until it succeeds.
Fail_Forever(r) == Begin(r, task[r], 2)

\* Faulty variant: the retries are counted from one.
Fail_OneMore(r) ==
    IF attempt[r] <= 2 THEN Begin(r, task[r], attempt[r] + 1) ELSE Begin(r, "failed", 1)

\* The attempt exits with zero, or not; there is one retry.
Succeed(r) == Begin(r, After(task[r]), 1)
Fail(r)    == IF attempt[r] = 1 THEN Begin(r, task[r], 2) ELSE Begin(r, "failed", 1)

Exit(r, ok) == IF ok THEN Succeed(r) ELSE Fail(r)

\* The attempt has handled one thing more.
Step(r, bad) ==
    /\ handled' = [handled EXCEPT ![r] = @ + 1]
    /\ failed' = [failed EXCEPT ![r] = @ + IF bad THEN 1 ELSE 0]
    /\ UNCHANGED <<task, attempt>>

\* The attempt fails before it has done anything more, or is killed at its
\* execution_timeout.
Break(r) ==
    /\ Active(r) /\ Fault(r) /\ Fail(r)
    /\ UNCHANGED <<dataset, kafka, table, scans, lake, audit, history>>

-----------------------------------------------------------------------------
(***************************************************************************)
(* The tasks before the data.                                              *)
(***************************************************************************)

\* docker compose stops Kafka.  The second line of the command, which is to
\* remove the container, is a command of its own to the shell: it deletes
\* files, if there are any of that name, and the topics stay.
Reset(r) ==
    /\ task[r] = "reset" /\ Succeed(r)
    /\ up' = FALSE
    /\ UNCHANGED <<dataset, raw, processed, offset, table, scans, lake, audit, history,
                   faults>>

\* docker compose up -d, and kafka-init, which creates missing topics only.
StartInfrastructure(r) ==
    /\ task[r] = "start" /\ Succeed(r)
    /\ up' = TRUE
    /\ UNCHANGED <<dataset, raw, processed, offset, table, scans, lake, audit, history,
                   faults>>

\* TRUNCATE TABLE processed_iot_logs, invalid_iot_logs.
Truncate(r) ==
    /\ task[r] = "truncate" /\ Succeed(r)
    /\ table' = [m \in Record |-> 0]
    /\ owner' = r
    /\ UNCHANGED <<dataset, kafka, scans, lake, audit, alone, empty, faults>>

Conforms(r) == \A i \in DOMAIN dataset[r] : dataset[r][i] # "bad"

\* The contract validator's exit code decides.
ValidateContract(r) ==
    /\ task[r] = "contract"
    /\ Exit(r, Conforms(r))
    /\ UNCHANGED <<dataset, kafka, table, scans, lake, audit, history, faults>>

-----------------------------------------------------------------------------
(***************************************************************************)
(* The producer, the consumer and the loader.  docker compose run starts   *)
(* Kafka, on which each of them depends, when it does not run.             *)
(***************************************************************************)

Compose(r) == up' = up \/ (handled[r] = 0 /\ up' = TRUE)

Rows(r)    == Len(dataset[r])
NextRow(r) == <<r, handled[r] + 1>>

\* The producer publishes the next row.  The writer may retry a batch whose
\* acknowledgement was lost, and may report a failure of one that was stored.
Publish(r) ==
    /\ task[r] = "producer" /\ handled[r] < Rows(r)
    /\ Compose(r)
    /\ \/ up' /\ raw' = Append(raw, NextRow(r)) /\ Step(r, FALSE) /\ UNCHANGED faults
       \/ ~up' /\ Step(r, TRUE) /\ UNCHANGED <<raw, faults>>
       \/ Fault(r) /\ raw' = raw \o <<NextRow(r), NextRow(r)>> /\ Step(r, FALSE)
       \/ Fault(r) /\ raw' \in {raw, Append(raw, NextRow(r))} /\ Step(r, TRUE)
    /\ UNCHANGED <<dataset, processed, offset, table, scans, lake, audit, history>>

\* The producer fails only when no record at all was published.
ProducerSucceeds(r) == failed[r] < handled[r]

ProducerExits(r) ==
    /\ task[r] = "producer" /\ handled[r] = Rows(r)
    /\ Exit(r, ProducerSucceeds(r))
    /\ UNCHANGED <<dataset, kafka, table, scans, lake, audit, history, faults>>

\* Faulty variant: the group id has the try number in it.
Position_PerTry(r, g) == IF attempt[r] = 2 THEN handled[r] ELSE offset[r][g]

\* Where the run's group g stands in its topic T: every run has groups of its
\* own, which start at the earliest message, and a retry keeps them.
Position(r, g)       == offset[r][g]
NextMessage(T, r, g) == T[Position(r, g) + 1]
Unread(T, r, g)      == Position(r, g) < Len(T)
Advanced(r, g)       == [offset EXCEPT ![r][g] = @ + 1]

\* Faulty variant: the limit is reached one message too early.
Finished_OneShort(T, r, g) == handled[r] >= MaxMessages[g] - 1 \/ ~Unread(T, r, g) \/ ~up'

\* The attempt reads no further: it has its maximum of messages, or there was
\* none for its idle timeout.
Finished(T, r, g) == handled[r] >= MaxMessages[g] \/ ~Unread(T, r, g) \/ ~up'

\* Neither the consumer nor the loader exits with zero when it has counted a
\* failure.
NoneFailed(r) == failed[r] = 0

\* The consumer relays a message, perhaps twice, for its client retries when an
\* acknowledgement is lost.  When it goes wrong the message may have been
\* relayed or not and the offset committed or not; the consumer fails, or
\* goes on with or without having noticed.
Relay(r) ==
    /\ task[r] = "consumer" /\ handled[r] < MaxMessages["consumer"]
    /\ Compose(r) /\ up' /\ Unread(raw, r, "consumer")
    /\ LET m == NextMessage(raw, r, "consumer")
           relayed == Append(processed, m)
       IN  \/ /\ \/ processed' = relayed /\ UNCHANGED faults
                 \/ Fault(r) /\ processed' = processed \o <<m, m>>
              /\ offset' = Advanced(r, "consumer") /\ Step(r, FALSE)
           \/ /\ Fault(r)
              /\ processed' \in {processed, relayed}
              /\ offset' \in {offset, Advanced(r, "consumer")}
              /\ Fail(r) \/ (offset' # offset /\ \E bad \in BOOLEAN : Step(r, bad))
    /\ UNCHANGED <<dataset, raw, table, scans, lake, audit, history>>

ConsumerExits(r) ==
    /\ task[r] = "consumer"
    /\ Compose(r)
    /\ \/ Finished(raw, r, "consumer") /\ UNCHANGED faults
       \/ Fault(r)
    /\ Exit(r, NoneFailed(r))
    /\ UNCHANGED <<dataset, raw, processed, offset, table, scans, lake, audit, history>>

\* The loader stores a message and commits its offset.  A row PostgreSQL
\* refuses is counted as failed, and its offset committed all the same.  When
\* it goes wrong, rows are stored without their offset being committed, or
\* the other way round; either way the loader counts a failure and goes on,
\* or ends at once, and does not exit with zero.
Load(r) ==
    /\ task[r] = "loader" /\ handled[r] < MaxMessages["loader"]
    /\ Compose(r) /\ up' /\ Unread(processed, r, "loader")
    /\ LET m == NextMessage(processed, r, "loader")
           poison == dataset[m[1]][m[2]] = "unstorable"
           stored == IF poison THEN table ELSE [table EXCEPT ![m] = @ + 1]
       IN  \/ /\ table' = stored /\ offset' = Advanced(r, "loader")
              /\ Step(r, poison) /\ UNCHANGED faults
           \/ /\ Fault(r)
              /\ table' \in {table, stored}
              /\ offset' \in {offset, Advanced(r, "loader")}
              /\ Fail(r) \/ (offset' # offset /\ Step(r, TRUE))
    /\ UNCHANGED <<dataset, raw, processed, scans, lake, audit, history>>

LoaderExits(r) ==
    /\ task[r] = "loader"
    /\ Compose(r)
    /\ \/ Finished(processed, r, "loader") /\ UNCHANGED faults
       \/ Fault(r)
    /\ Exit(r, NoneFailed(r))
    /\ UNCHANGED <<dataset, raw, processed, offset, table, scans, lake, audit, history>>

-----------------------------------------------------------------------------
(***************************************************************************)
(* The tasks after the data.                                               *)
(***************************************************************************)

\* fetch_recent_rows reads a row, and every row of the model has a finding.
AnyRow == \E m \in Record : table[m] > 0

\* The findings are copied into iot_anomalies in one statement, if there are
\* any; nothing of an earlier attempt is deleted.
Copied(r) == IF AnyRow THEN [scans EXCEPT ![r] = @ + 1] ELSE scans

\* run_anomaly_detection.py copies its findings and then writes its report,
\* which may fail.
DetectAnomalies(r) ==
    /\ task[r] = "anomalies"
    /\ scans' = Copied(r)
    /\ \/ Succeed(r) /\ UNCHANGED faults
       \/ Fault(r) /\ Fail(r)
    /\ UNCHANGED <<dataset, kafka, table, lake, audit, history>>

\* The Spark job overwrites its output directory with new parts.
RunSpark(r) ==
    /\ task[r] = "spark" /\ Succeed(r)
    /\ output' = r
    /\ UNCHANGED <<dataset, kafka, table, scans, bucket, audit, history, faults>>

\* The bucket once some of the output's files are put into it.
Put(files) == bucket \cup {<<output, p>> : p \in files}

\* upload_files puts the files one by one; nothing is deleted from the bucket.
\* The upload ends in the middle when it fails, or when another run's Spark
\* job is replacing the directory.
Upload(r) ==
    /\ task[r] = "upload"
    /\ \/ bucket' = Put(Part) /\ Succeed(r) /\ UNCHANGED faults
       \/ /\ \E files \in SUBSET Part : bucket' = Put(files)
          /\ Fail(r)
          /\ \/ Fault(r)
             \/ (\E q \in Run : task[q] = "spark") /\ UNCHANGED faults
    /\ UNCHANGED <<dataset, kafka, table, scans, output, audit, history>>

\* The observability writer commits its audit row, in the place of one that an
\* earlier attempt left, and then publishes alerts, which may fail.
WriteObservability(r) ==
    /\ task[r] = "writer"
    /\ audit' = [audit EXCEPT ![r] = 1]
    /\ \/ Succeed(r) /\ UNCHANGED faults
       \/ Fault(r) /\ Fail(r)
    /\ UNCHANGED <<dataset, kafka, table, scans, lake, history>>

\* Exactly one audit row for the run, whose id the retry has not changed.
ValidateObservability(r) ==
    /\ task[r] = "validate"
    /\ Exit(r, audit[r] = 1)
    /\ UNCHANGED <<dataset, kafka, table, scans, lake, audit, history, faults>>

-----------------------------------------------------------------------------

Progress(r) ==
    \/ Reset(r) \/ StartInfrastructure(r) \/ Truncate(r) \/ ValidateContract(r)
    \/ Publish(r) \/ ProducerExits(r)
    \/ Relay(r) \/ ConsumerExits(r)
    \/ Load(r) \/ LoaderExits(r)
    \/ DetectAnomalies(r) \/ RunSpark(r) \/ Upload(r)
    \/ WriteObservability(r) \/ ValidateObservability(r)

Next == \E r \in Run : Trigger(r) \/ Progress(r) \/ Break(r)

Spec == Init /\ [][Next]_vars

\* The scheduler keeps an active run going: every attempt ends, by itself or
\* at its execution_timeout.
FairSpec == Spec /\ \A r \in Run : WF_vars(Progress(r))

-----------------------------------------------------------------------------
(***************************************************************************)
(* Properties.                                                             *)
(***************************************************************************)

Loaded(r) == task[r] \in {"anomalies", "spark", "upload", "writer", "validate", "green"}

\* Nothing but run r itself has touched the topics and the tables.
Undisturbed(r) == alone[r] /\ empty[r] /\ owner = r

Least(m, n) == IF m < n THEN m ELSE n

\* The rows that get through the consumer's limit, those that the loader's first
\* attempt reads, and whether PostgreSQL refuses one of the first n rows.
Relayed(r)    == Least(Rows(r), MaxMessages["consumer"])
FirstRead(r)  == Least(Relayed(r), MaxMessages["loader"])
Refused(r, n) == \E i \in 1..n : dataset[r][i] = "unstorable"

\* The rows that the loader reads: a first attempt that met a row PostgreSQL
\* refuses exits with one, and the retry has the whole of the limit again.
Read(r) ==
    IF Refused(r, FirstRead(r)) THEN Least(Relayed(r), 2 * MaxMessages["loader"]) ELSE FirstRead(r)

\* A run of the DAG that nothing disturbs and nothing fails leaves one row in
\* the warehouse for every storable row of its data set that the message
\* limits let through, and no other: although the loader exits with one for a
\* row PostgreSQL refuses, its retry goes on after that row and the run is
\* green.
CleanRunExact ==
    \A r \in Run :
        Loaded(r) /\ Undisturbed(r) /\ faults[r] = 0 =>
            \A m \in Record :
                table[m] = IF m[1] = r /\ m[2] <= Read(r) /\ dataset[r][m[2]] = "ok"
                           THEN 1 ELSE 0

\* A retried task repeats what its first attempt had already done: rows of
\* the warehouse and findings come twice, but each repetition has cost a
\* failure.  Whatever is retried, a green run has exactly one audit row and, if
\* no other run replaced what its Spark job wrote, all its files in the bucket.
CopiesPaid ==
    \A r \in Run :
        /\ scans[r] <= 1 + faults[r]
        /\ task[r] = "green" =>
               audit[r] = 1 /\ (alone[r] => \A p \in Part : <<r, p>> \in bucket)
        /\ Undisturbed(r) => \A m \in Record : table[m] <= 1 + faults[r]

\* A data set that breaks the contract goes nowhere (docs/data-contracts.md):
\* the run publishes no row of it, and it is in no table.
ContractStopsRun ==
    \A r \in Run : ~Conforms(r) =>
        /\ \A i \in DOMAIN raw : raw[i][1] # r
        /\ \A m \in Record : m[1] = r => table[m] = 0
        /\ task[r] # "green" /\ scans[r] = 0

\* The reset leaves the next run an empty broker (airflow/README.md: "the next
\* run starts with fresh local Kafka state").
FreshKafka ==
    \A r \in Run : alone[r] /\ task[r] = "truncate" => raw = <<>> /\ processed = <<>>

\* Every run the scheduler works on ends, green or failed: each task is
\* attempted at most twice, and every attempt ends.
RunFinishes == \A r \in Run : Active(r) ~> task[r] \in {"green", "failed"}
=============================================================================
