# A TLA+ model of the IoT log intelligence pipeline

The specifications in this directory model the parts of the pipeline in which
state is kept and lost: the Kafka-to-PostgreSQL loader, the validating stream
consumer, the writer of the observability tables, the Airflow DAG and the
concurrent runner that put these programs to work, and the rules by which each
program judges one record.  Every definition is translated from the source;
`PROJECT.json` maps each one to its lines.

## 1. Inventory

The pipeline moves rows of a CSV file through two Kafka stages into PostgreSQL
and derives tables, alerts and features from there:

    CSV -> go-producer -> iot_raw_logs -> python-consumer
        -> iot_processed_logs / iot_invalid_logs -> warehouse-loader
        -> processed_iot_logs / invalid_iot_logs (PostgreSQL)
        -> anomaly detection, dbt marts, observability writer -> iot_pipeline_alerts
        -> Spark features -> object storage

The stages share no memory.  They interact through Kafka topics (one partition
each: `docker-compose.yml` sets `KAFKA_NUM_PARTITIONS` to 1), committed
consumer-group offsets, PostgreSQL rows and process exit codes, which the
Airflow DAG or the end-to-end script acts on.

| Component | State | Operations | What is hard | What makes it correct | Module |
|---|---|---|---|---|---|
| Warehouse loader, `warehouse-loader/` | group offsets, rows, open transaction, connection, two buffers, counters | poll, map, batch flush, per-message fallback, two commits, final flush, exit code | two commits that are not atomic, a failing rollback, an interrupt in every statement, the `finally` flush of a batch that may already be stored, restarts | no message silently lost, copies bounded by faults, exit code zero trustworthy, a poison message costs only itself, runs end | `WarehouseLoader`, `AtLeastOnceLoad` |
| Loader mapping and column limits, `mapper.py`, the SQL schema | none | record to row | what PostgreSQL refuses that the mapper accepts | every mapped row storable, or given up alone | `RecordRules`, `RecordJourney`; kinds of message in `WarehouseLoader` |
| Stream consumer, `python-consumer/main.py`, `consumer.py`, `producer.py` | group offset, client queue, counters | poll, validate, produce, flush with a timeout, close | background offset commits race the publishing; a delivery that fails after it was counted, or succeeds after it was counted as failed | loss and copies bounded by faults, exit code, runs end | `StreamConsumer` |
| Validation, `validator.py` | none | record to valid or invalid record, or an exception | numeric edges, an exception that is not a `ValueError` | what is accepted can be stored, what is rejected is kept | `RecordRules`, `RecordJourney`; kinds of message in `StreamConsumer` |
| Observability writer, `observability/` | audit, check and alert rows, Kafka alert topic | count, replace three tables in one transaction, publish, flag in another | overlapping attempts with one `run_id`, READ COMMITTED, delivery and flag not atomic | the tables tell of one attempt, every attempt ends, flags follow deliveries | `ObservabilityWriter` |
| Raw-log producer, `go-producer/` | sent/failed counters | read, send, retry | retries after a lost acknowledgement, an exit code that ignores failures | copies paid by faults, losses noticed by somebody | its reader in `RecordRules`, its publishing in `PipelineDag` and `ConcurrentRunner` |
| Process supervisor of `scripts/run_local_e2e_smoke_test.py` | child processes, results, deadlines | start, poll, terminate, kill, collect, verify row deltas | a child that ends while another is blamed, termination racing an exit, a container that outlives its command | failure reported iff one happened, what is left behind is reported, a row that is missing is noticed, the supervisor ends | `ConcurrentRunner`, `SupervisedProcesses` |
| Airflow DAG, `airflow/dags/` | task states, tries | chain of tasks, one retry each | a retry hides the first failure, Kafka state of an earlier run, runs that overlap | a green run means loaded data, repetitions paid by failures, a broken contract stops the run | `PipelineDag` |
| Anomaly detection, `scripts/run_anomaly_detection.py` | `iot_anomalies` | read, grade, copy, report | re-runs, a rule that cannot fire | findings repeated only after a failure | `RecordRules`, `PipelineDag` |
| Data contract, `scripts/validate_data_contract.py` | the summary of one validation | check paths, header and rows up to an error limit | the limit in the middle of a row; rules that differ from those of the other programs | exit code zero means a conforming file, the summary is exact | `RecordJourney`, `RecordRules` |
| Object storage upload, `object-storage/upload_spark_features.py` | uploaded objects | list, upload one by one, report | an upload that ends in the middle, files replaced meanwhile | the exit code tells | a step of `PipelineDag` |
| Spark feature job, `spark/jobs/` | its output directory | overwrite | another run's job | - | a step of `PipelineDag` |
| AWS validator and Step Functions | execution state | validate, branch, fail | error paths | every branch ends | not modelled |
| Benchmark and profile scripts, progress reporters, dbt, dashboard, terraform | none of their own, or that of an engine | batch computation, display | - | - | not modelled |

The hazards of these parts, each at its line with the property that covers it or
the reason that none does, are listed in `PROJECT.json`.

## 2. Modules

| Module | What it is |
|---|---|
| `AtLeastOnceLoad` | abstract: messages become rows or are given up; offsets stand only behind accounted messages |
| `WarehouseLoader` | the loader, its broker and its database; implements `AtLeastOnceLoad` |
| `WarehouseLoaderProofs` | theorems about it: types, and no message silently lost |
| `WarehouseLoaderSafety` | theorems about it: transactions, refinement, poison, offsets, exit status, copies |
| `StreamConsumer` | the stream consumer, its Kafka client and broker |
| `StreamConsumerProofs` | theorems about it: types, offsets, copies |
| `StreamConsumerSafety` | theorems about it: exactly once without faults, exit status, losses |
| `ObservabilityWriter` | several writers of one `run_id`, PostgreSQL's row locks, the alert topic |
| `ObservabilityWriterProofs` | theorems about it |
| `RecordRules` | pure: what the contract, the producer, the consumer, the loader, PostgreSQL and the anomaly rules make of one record |
| `RecordJourney` | the contract validator over a file, and one record's way through all of them |
| `RecordJourneyProofs` | theorems about it |
| `PipelineDag` | runs of the Airflow DAG over the topics, tables and objects they share |
| `PipelineDagProofs` | theorems about it |
| `SupervisedProcesses` | abstract: what a supervisor of processes promises |
| `ConcurrentRunner` | the concurrent mode of the end-to-end script; implements `SupervisedProcesses` |
| `ConcurrentRunnerProofs` | theorems about it |
| `MC*` | the instances TLC checks, with the `.cfg` files (`ConcurrentRunner` needs none) |

Each component is modelled at the level its properties need.  `WarehouseLoader`
and `StreamConsumer` have every statement of one program; `PipelineDag` and
`ConcurrentRunner` see these programs as processes that handle messages one by
one, may fail between any two effects, and exit; `RecordRules` looks only at
what is in a record, and never at its delivery.

Definitions named `X_Something` directly above a definition `X` are faulty
variants of `X`: each breaks the property it is paired with in
`PROJECT.json`, so that no property holds for want of anything to refute it.

### 2.1 WarehouseLoader

`pc` is the program point of `warehouse-loader/main.py`: `connect` and `loop`
are in `main`; `insert_processed`, `insert_invalid`, `db_commit` and `offsets`
are the batch path of `flush_batches`; `fallback`, `one_commit` and `one_offset`
its per-message path; `returned` the return to the call site `caller`;
`finally`, `close` and `unwind` the end of `main`.  The durable state is
`committed` (Kafka) and `rows` (PostgreSQL, a count per message, so that
duplicates show).  `tx` is the open transaction, again as counts, since the final
flush may insert a batch a second time into a transaction an interrupt left open.
`conn` tells a live connection from one whose transaction is aborted and one
that is lost: on a live connection `database.rollback()` in the handler works
and the fallback begins, on a lost one it raises and the exception leaves
`flush_batches` (`Raise`).

* A commit during which the connection breaks may or may not have been applied
  (`CommitBatch`, `CommitOne`); an offset commit that raises may or may not have
  reached the broker (`CommitBatchOffsets`, `CommitOneOffset`).
* No handler of the loader catches `KeyboardInterrupt`, so it leaves
  the loop with buffers and transaction as they are, and the `finally` block
  flushes what is buffered.  It strikes at every program point.  Between `poll`
  and the append it has the same durable effect as before `poll`.
* `Kill` ends the process at once and PostgreSQL discards its transaction.
* A message is one of three kinds: it maps and can be stored, the mapper rejects
  it, or PostgreSQL rejects the row.
* History variables: `dropped` (given up and counted as failed), `began`.

What the model leaves out: consumer-group rebalances (one loader per group, as
deployed) and the length of timeouts (the idle timeout may fire at every poll).
A lost connection is noticed, as in the code, by the next statement that fails.

### 2.2 StreamConsumer

`pc` is the program point of `python-consumer/main.py`.  The Kafka client's
background thread has actions of its own: `AutoCommit` (`consumer.py` does not
set `enable.auto.commit`, so the client commits what `poll` has returned),
`Acked`, `AckLost` and `Expire` for the producer's queue.  `FlushTimeout` is
`flush(10)` returning with something left: the message is counted as failed and
stays queued.  The order in which the output topics receive messages is not
modelled; no code depends on it.

### 2.3 ObservabilityWriter

Each writer passes through the statements of `write_pipeline_observability.py`
in order.  A statement that locks rows begins, when it sees the rows committed
so far (`seen`), and returns when it has locked those of them that still exist.
The `SELECT ... FOR UPDATE` and the `DELETE` on `pipeline_run_audit` lock row by
row (`LockRow`), because their order matters: the SELECT locks by id, but a
row inserted earlier and committed later is seen by the DELETE alone, which locks it
after rows with greater ids.  With three overlapping first attempts two rewrites
can therefore wait for each other; PostgreSQL then fails one of them
(`DeadlockVictim`).  The DELETEs on checks and alerts lock an attempt's rows
together, so the batch is named by the attempt, and all writers come to
these tables in one order.  Changes to rows appear at `Commit`.  `held` and
`cleared` are the row locks.  The checks are modelled exactly (`FailedChecks`): the
rate of invalid rows is rounded half up to a multiple of `1 / Scale` before it is compared with
`Threshold / Scale`, which without a division is `RateExceeded`; in the code `Scale`
is a million.  The loader may store rows between the two counts
(`CountProcessed`, `CountInvalid`).  Texts and metrics without a check are not modelled.

### 2.4 RecordRules and RecordJourney

`RecordRules` holds the rules of six programs side by side, over one set of
values: what a CSV cell or a JSON field can be (absent, null, text, a number in
the forms that Go and Python read differently, too large or too small, a fraction, NaN, infinity, a
timestamp).  A text is its word, stripped and in lower case, because that is
what every rule compares.  Nothing in it has state, so that its definitions can be
read against the code one by one; integers keep the width of Go's `int` and of
the INTEGER columns (`GoIntMax`, `IntegerMax`).

`RecordJourney` puts them in order.  `pc` is the program point of
`validate_data_contract.py`, whose rows are chosen as they are read; `summary`
is its `ValidationSummary`, with the limit of recorded errors.  Then `row`, one of
the rows read, goes from the file through `Produce`, `Consume` and `Load` or
`LoadInvalid`, and `at` says where it is; `PublishForeign` begins with a message
that somebody else put into the raw topic.  The end-to-end script starts the producer
without asking the contract, so the journey does not depend on the exit code.
`found` counts the errors there really are.

### 2.5 PipelineDag

`task[r]` is where each run of the DAG is; `Exit`, `Fail` and `Succeed` are
Airflow's handling of an attempt's exit code with `retries: 1`.  `Break` is an
attempt that fails, or is killed at its `execution_timeout`, before it has done
more; the other failures of a task are disjuncts of its own action, where they
leave something behind: a record published twice or reported as lost although
stored, a message relayed twice or relayed without its offset being committed, a failure
counted by a consumer or a loader that goes on, a row stored twice,
findings copied before the report failed, an upload that ends in the middle.
Consumer groups carry the run's id, so that a new run reads its topics
from the beginning and a retry goes on where the first attempt stopped.
`MaxMessages` gives the consumer and the loader a limit each, as the DAG's two
variables do.  Zero, which means no limit to both programs, is left out: a limit no data set
reaches is the same.  An attempt counts from zero, so that a retried loader reads up to
twice its limit.
`Compose` is `docker compose run`, which starts a Kafka that was stopped
meanwhile.  Runs are started by hand and may overlap, since `max_active_runs`
is not set; `alone`, `empty` and `owner` are history variables that say whether
anything else has touched what a run sees.

### 2.6 ConcurrentRunner

`pc` is the program point of `run_concurrent_profile_pipeline`, with the polling
loop handle by handle (`scan`, `seen`), so that a process can end between two
looks at it.  `client` is the state of each `docker compose run` command, which is
what the runner polls, terminates and kills; `container` is where the work is
done, and may survive its command (`Kill`, `Obey`).  `started` counts the handles:
an exception while a process is started ends the function at once, except
`FileNotFoundError`, which terminates the others.  The three containers publish,
relay and store rows, and may each lose one or hand it on
twice; the consumer and the loader may exit with zero because there was
nothing to read for their idle time.  `stored` is the sequence of rows in both
tables, in the order they arrived; `VerifyDeltas` compares the sum of the two
row-count differences with the number of rows.  That neither difference may be negative,
which the code tests too, is left out: the tables only grow while the runner works.

`SupervisedProcesses` is the promise: one judgement, after every process has
ended, and "passed" exactly when every process was started and returned zero.  It also
permits `Abandon`: an exception of the runner ends the flow without a judgement and
leaves the processes as they are, which is what the code does.

## 3. Runs

| Run | Question | Bounds |
|---|---|---|
| `loader_safety` | Does the loader lose, invent or misreport a message, retreat or leave a transaction open, and does it implement `AtLeastOnceLoad`? | 2 messages per topic, batch size 2, 2 faults, 2 runs |
| `loader_run_ends` | Does every run of the loader end? | 2 messages per topic, batch size 3, message limit 2, 1 fault, 2 runs |
| `consumer_safety` | Loss, copies, counters and offsets of the stream consumer; does every run end? | 3 messages, message limit 2, 2 faults, 2 runs |
| `observability_safety` | Do overlapping attempts leave tables that tell of one attempt, does an attempt miss an alert that is due when it has counted, and do flags follow deliveries? | 2 writers, 3 attempts, 1 fault, 1 row per table, rate rounded to whole units |
| `observability_settles` | Is a settled audit row kept, and does every attempt end? | 2 writers, 3 attempts, 1 fault |
| `observability_deadlock` | Can some writer always go on, also when rewrites lock the audit rows in opposite orders? | 3 writers that publish nothing (symmetric), 5 attempts, no fault, no row |
| `observability_audit_rows` | One audit row per `run_id`, as documented? Violated | 2 writers, 2 attempts, no fault |
| `observability_flags` | Flags only for what was published, as documented? Violated | 2 writers, 2 attempts, no fault |
| `record_journey` | Is the contract validator's verdict exact, and where do the six sets of rules disagree about a record? | files of 2 rows, error limit 0 to 2; rows and objects that differ from an ordinary one in at most 2 fields |
| `pipeline_dag` | What does a clean run leave, what do retries repeat, does a broken contract stop its run, does every run end? | 2 runs, 3 rows, message limits 3 (consumer) and 2 (loader), one disturbance: a failure anywhere, or runs that overlap |
| `dag_reset` | Does a run begin with empty topics, as documented? Violated | the same, no disturbance |
| `concurrent_runner` | Does the runner implement `SupervisedProcesses`, what has a flow with a result left behind, is blame right, is a missing row noticed, does the runner return? | 3 processes, 3 rows, 2 faults |

Why the bounds are enough.  Two messages on each of two topics make batches that
are full, partial, mixed, and split by a poison message with one good message
before or after it; a third offset adds no new relation between `committed`, `position` and
the entry in hand.  Two faults make every pair of a failure and a failure during
its handling (a rollback that raises, an interrupt of the final flush, a kill in
the fallback), and two runs make every restart.  For the consumer a third
message lets one be queued, one in hand and one committed.  Three attempts by
two writers let a retry overlap both an attempt that will commit and one that
will fail.  Three writers and five attempts are the least with which two rewrites
can deadlock: three first attempts that overlap, and two rewrites, of which one looks
for the rows before the first of them is committed and the other after.
`CHECK_DEADLOCK FALSE` appears because the bounded system really stops: no run
is left to start and no process runs.  The theorems of section 5 do not
depend on the bounds.

With at most one row in each table, every rate is 0, 1/2 or 1, so that the run with `Scale = 1`
and `Threshold = 0` has the one boundary that rounding makes: 1/2 is rounded up and
exceeds the threshold.  What the rounding does at other scales and thresholds is in the
proof of `DueAlarmsRaised`, which is about all of them.

`record_journey` has two rows because the error limit can then be reached in
the middle of a row, at its end, between rows and never.  A row of the file breaks rules
field by field, and so does a message; two fields are enough for one rule to
hide another (a missing field hides an invalid one, an exception hides both).
`IntegerMax` 20000 and `GoIntMax` 40000 stand for 2^31-1 and 2^63-1: all that
matters is their order and that the anomaly thresholds lie below them.

`pipeline_dag` has a data set of three rows, one more than the loader's limit and as many
as the consumer's, and one that breaks the contract.  PostgreSQL refuses the second row, so that
the loader's first attempt stores a row, fails, and leaves one to its retry.  With two runs
and one disturbance, a run meets every single failure at every point, as the
first or the second run, and every overlap of two runs.  Two failures in
different tasks of one behaviour are beyond this instance; the theorems about
`CopiesPaid` and `ContractStopsRun` cover them, as the one about `CleanRunExact` covers
every pair of limits and every data set.  Three processes and
two faults let `concurrent_runner` lose one row and store another twice, or have
one process fail while another does.

What the loader run shows beyond the invariants' text: the committed offset *can*
move backward.  An interrupt that arrives after the batch's offsets were committed
makes the `finally` block flush the same batch again; the rows go in a second
time and, if this second flush falls back to single messages, their offsets are
committed from the first one up.  `OffsetsRetreatOnlyInFinalFlush` says that this
is the only way.

What the three runs about the whole pipeline show:

* A row PostgreSQL refuses makes the loader exit with one, but its retry goes on after that row,
  exits with zero, and the run is green (`CleanRunExact`).  The retry has the loader's
  whole limit again, so that with a lower limit for the loader than for the consumer it is the
  run *with* the refused row that loads more; a run without one is green with rows unread.
  The same property says what a
  *disturbed* run cannot promise: a second run reads the first run's topics,
  and its message limit is used up by old rows, since the loader and the consumer stop after
  that many messages, whosever they are.
* A retry of anomaly detection copies its findings a second time under the same
  run id; the observability writer, which replaces its row, does not
  (`CopiesPaid`).  An upload that broke off is completed by its retry, unless
  another run's Spark job has replaced the directory meanwhile.
* The contract lets through rows that no later program keeps (`ContractGaps`).
  The producer leaves out a row whose last cell, the nullable `attack_type`, is
  missing, one with a quotation mark inside a cell, and a number with underscores.
  The consumer rejects protocols and event types the contract allows, and ends with an
  `OverflowError` on a timestamp that has no UTC equivalent.  PostgreSQL
  refuses a NUL and a number wider than its column.
* The anomaly rule for unexpected protocols cannot fire on a row that came
  through the consumer (`UnexpectedProtocolUnreachable`).
* A container may go on working when the flow has its result, because the runner
  terminates and kills the command and not the container; but only one whose
  command it has marked as terminated, and only of a flow it reports as failed
  (`LeftoversAreMarked`).  What a flow leaves behind that an exception ended is not limited.
* The verification of row counts compares a sum, in which one lost row and one
  that was stored twice cancel out.  It bounds the damage all the same
  (`PassedMeansLoaded`): no more rows are missing than messages were repeated on the way.

### Findings

* `FreshKafka` - `airflow/README.md:192` promises that the reset makes the next run
  start with fresh Kafka state.  Only the first line of the command is given to
  `docker compose`; the second, `rm -f kafka kafka-init kafka-ui || true`, is the
  shell's `rm`, so the stopped container keeps its topics and is started again.
* `OneAuditRow` - `docs/observability.md:106` promises one audit row per
  `run_id`.  `SELECT ... FOR UPDATE` locks nothing when there is no row and no
  constraint makes `run_id` unique, so two overlapping first writers both insert.
  A later rewrite repairs it (`AuditRowKept` says that it then stays repaired).
* `FlagMeansDelivered` - `docs/observability.md:109` promises that an alert stays
  unflagged unless it was published.  `mark_alerts_as_published` updates by
  `run_id` in a second transaction, so it also flags alerts that another writer
  stored in between and never published.  `FlaggedAfterDelivery` is what holds.

## 4. Fairness

* `WF_vars(LoaderStep)`: a running process keeps running and each of its calls
  returns, with a result or an error: `poll` has a timeout, PostgreSQL and the
  broker answer or the client raises.
* `WF_vars(ConsumerStep)` and weak fairness of `Acked \/ Expire`: the client
  delivers a queued message or gives it up after `message.timeout.ms`.  Without
  the latter `producer.close()`, a flush without time limit, need not return.
* `WF_vars(Step(w))` for each writer: the same, where a blocked statement is
  disabled until the locks it needs are released.
* `WF_vars(Progress(r))` for each run of the DAG: the scheduler keeps an active
  run going, and every attempt of a task ends, by itself or at its
  `execution_timeout`.
* `WF_vars(Runner)`: the concurrent runner polls, kills when the grace time is
  over, and collects; `WF_vars(Publish)`, `WF_vars(Relay)`, `WF_vars(Store)` and
  `WF_vars(End(p))`: each container handles what there is and ends at its
  limit or by its idle time.  This is what `RunnerReturns` rests on, for the
  polling loop has no time limit of its own.

`Trigger` and `Obey` are not fair: nobody need start a second run, and a command need
not obey SIGTERM.  Publishing alerts, starts, failures, interrupts and kills are never fair, and are
bounded.  One consequence is stated as a hazard: the loader's loop without a limit
ends only when the stream of messages and of error events does.

## 5. Theorems

All for every value of the constants under the modules' assumptions
(`LoaderAssumption`, `ConsumerAssumption`, `WriterAssumption`: the bounds are
naturals, the batch size is not zero; `WidthAssumption`: an INTEGER column
is narrower than Go's `int`; `JourneyAssumption`, `DagAssumption`,
`RunnerAssumption`: rows, objects and data sets are of the form described, the
bounds are naturals, and no run of the DAG is called `nobody`, which is the
value of `owner` before any run has truncated the tables).

* `WarehouseLoaderProofs!TypeInvariant`: `Spec => []TypeOK`.
* `WarehouseLoaderProofs!NoSilentLoss`: `Spec => []CommittedAccounted`.  Every
  message behind the group's offset has a durable row or was reported as failed.
  `CommittedAccounted` is not inductive: an offset commit moves past messages
  whose fate was decided steps earlier.  `LoadInv` follows each polled message
  until then: it is accounted for or still buffered (`PolledAccounted`), only polled
  messages are buffered (`BufferedPolled`), the fallback owes only the entries it
  has not come to (`FallbackAccounted`), and the transaction holds what its
  commit will count (`BatchInserted`, `EntryInserted`, `FlushedAccounted`).
* `WarehouseLoaderSafety!PollsOutsideTransactions`:
  `Spec => []NoOpenTransactionAtPoll`.  `FlowInv` ties `tx`, `conn`, `raising`
  and `caller` to `pc`: inside a flush an exception is leaving `main` exactly
  when the `finally` block called it, and without an exception the connection is
  good and a transaction is open only between an insert and its commit.
* `WarehouseLoaderSafety!LoaderImplementsAtLeastOnce`:
  `Spec => ImplementsAtLeastOnce`, the refinement of `AtLeastOnceLoad`: every
  step of the loader, the failures, the kill and the interrupt included, maps to
  a step of the abstract loader or to none.  `SourceInv` adds to `LoadInv` that
  offsets, buffers and failure reports are of published messages and that what
  is in `rows` or `tx` PostgreSQL can hold.
* `WarehouseLoaderSafety!PoisonCostsItself`: `Spec => []PoisonIsolated`.  Without
  a fault a message is given up only in the step that finds it unmappable or refused
  (`PoisonStep`); that it was published (`SourceInv`) makes its kind final.
* `WarehouseLoaderSafety!OffsetsRetreatOnlyWhenRaising`:
  `Spec => OffsetsRetreatOnlyInFinalFlush`.  `AheadInv`: while no exception is
  leaving `main`, the group's offset has not passed any message that is still
  buffered or owed by the fallback, so that a commit for one can only advance it.
* `WarehouseLoaderSafety!ExitZeroTrusted`: `Spec => []ExitZeroLoaded`.  In a run
  without an exception or a counted failure, `ExactInv` says that what is
  pending on a topic is the interval between the group's offset and the position,
  and that the counters are the length of the interval behind it, plus what was
  stored by the statement before the offsets are committed (`JustStored`).
* `WarehouseLoaderSafety!CopiesBoundedByFaults`: `Spec => []DuplicatesBounded`.
  `CopiesInv` is a potential: the rows of a message, its rows in the open
  transaction, and one if the loader may insert it again, never exceed one more
  than the faults so far.  It rests on the buffer having no holes but poison
  (`BatchSolid`) and on the fallback going through it in order (`TodoSolid`).
* `StreamConsumerProofs!TypeInvariant`: `Spec => []TypeOK`, with the invariant
  `Reading`: the group's offset is never past the position.
* `StreamConsumerProofs!NeverRetreats`: `Spec => OffsetNeverRetreats`, from the same.
* `StreamConsumerProofs!CopiesCostFaults`: `Spec => []CopiesBounded`.  The
  invariant `CopyInv` gives each message a budget: its copies on the output topic,
  one if it is queued in the client, and one if this run or a later one has still
  to produce it, never exceed one more than the faults so far.
* `StreamConsumerSafety!ExactlyOnceWithoutFaults`:
  `Spec => []FaultFreeExactlyOnce`.  `NothingLost`: until the first fault every
  message that was read is published, in the loop's hand, or in the client's
  queue.  That it is published at most once is `CopiesBounded`.
* `StreamConsumerSafety!ExitZeroTrusted`: `Spec => []ExitZeroRelayed`.  `RunExact`:
  a run that has counted no failure has counted exactly what it read, one
  message less while one is in hand.
* `StreamConsumerSafety!LossCostsFaults`: `Spec => []SilentLossBounded`.
  `LostSilently` looks at the group's offset only, which the background commit
  moves past a message in hand; `MissingPaid` counts instead everything that was
  read and is not published, carried or reported, and that set grows only by a
  fault, one message at a time.
* `ObservabilityWriterProofs!TypeInvariant`: `Spec => []TypeOK`, with the
  invariant that a running writer has an attempt and one that knows its audit row
  an id (`Numbered`).
* `ObservabilityWriterProofs!TablesTellOneAttempt`: `Spec => []TablesAgree`, for
  every number of writers, attempts and failures.  `WriterInv` says that each
  batch of checks or alerts belongs to an attempt that an audit row describes
  (`BatchesDescribed`), that audit rows are locked by one writer at a time
  (`LocksHeld`) and row ids are not used twice (`KeptOwned`), that an attempt has
  left no trace before its COMMIT (`AttemptsFresh`), and that the DELETEs of a
  writer find every batch that belongs to an audit row it has locked
  (`ChecksFound`, `AlertsFound`).  A COMMIT that leaves one audit row held all
  others, so no batch of another attempt is left.
* `ObservabilityWriterProofs!FlagsFollowDelivery`: `Spec => []FlaggedAfterDelivery`.
  `FlagInv`: an attempt decides once which alerts it raises, and reaches the
  UPDATE only when it has delivered all of them.
* `ObservabilityWriterProofs!DueAlarmsRaised`: `Spec => NoAlarmMissed`.  The two
  counts are two statements, so an attempt may compute a rate that never held, and
  raise an alert for it; but no attempt misses one that is due when it has counted.
  `CountsBehind`: what a writer has counted first has only grown since.
  `AlarmsOnlyWithdrawn` is the lemma about the rules: with the same invalid rows, more
  processed rows can only withdraw a failed check, however the rate is rounded.
  Counting the invalid rows first would not have this property.
* `ObservabilityWriterProofs!SettledRunKeepsRow`: `Spec => AuditRowKept`, for which
  `OneRow(i)` is preserved from any state in which it holds: whoever knows the
  audit row it will write has locked row `i`, and whoever waits in the SELECT has
  seen it, so nobody inserts another.  The temporal formula nests one `[]` in another.
* `ObservabilityWriterProofs!SomebodyGoesOn`: `Spec => []SomebodyReady`, for every number
  of writers.  Who waits for alerts waits for a writer at its COMMIT, who waits for
  checks for one that is past them (`WaitInv`).  So if everybody waited, all would wait for
  audit rows, each for one that another of them has locked (`LocksHeld`), which is a deadlock
  that PostgreSQL ends.
* `RecordJourneyProofs!SummaryIsExact`: `Spec => []SummaryExact`, and
  `ZeroMeansConforming`: `Spec => []ExitZeroConforms`, for every file and every
  error limit.  `SummaryInv` adds what the validator has counted at each program
  point; that a limit of zero never gets past `validate_paths` is the part without
  which exit code zero would mean nothing.
* `RecordJourneyProofs!AcceptedIsStored`, `RejectedIsKept`, `RuleIsDead`:
  `[]ValidStored`, `[]RejectedKept`, `[]UnexpectedProtocolUnreachable`, for every row and every
  object.  `JourneyInv` remembers, for a record that has been accepted, the
  valid message it is the normal form of.
* `RecordJourneyProofs!GapsAreThese`: `Spec => []ContractGaps`.  The list of what may
  go wrong after the contract is complete for every row and every width of the
  integers.  `ConformingInv` ties the message to the row of the file;
  `RowRefused` and its companions reason about the rules alone.  `TypeInvariant`,
  `Spec => []TypeOK`, follows from `SummaryInv` and `JourneyInv`.
* `PipelineDagProofs!TypeInvariant`: `Spec => []TypeOK`.
* `PipelineDagProofs!ContractStops`: `Spec => []ContractStopsRun`, for every number of runs,
  overlapping as they like, and of failures.  `StopInv` adds that such a run
  never gets past the contract task, whatever is retried; without this its
  topics could hold its rows later.
* `PipelineDagProofs!RetriesPaid`: `Spec => []CopiesPaid`, for every number of
  rows, runs and failures.  `FrameInv` says who may work while a run is alone,
  and what a task may take for granted of the shared topics and tables.  On it
  rest two potentials and `ShippedInv`, which says that the output directory is still the
  run's own when it is uploaded.  `ScanInv`: the copies of the findings, and one if
  the run has still to make one, never exceed one more than its failures.
  `RowsPaid`: a row's copies in the table, those the loader and the consumer have
  still to read, and one if the producer has still to publish it, never exceed
  one more than the failures of a run nobody disturbed.  One case is not obvious: the
  producer fails when every row was reported as lost, and its retry publishes
  all of them again; if they were stored all the same, each of these reports was a
  failure that paid for the copy.
* `PipelineDagProofs!CleanRunLoadsExactly`: `Spec => []CleanRunExact`.  `ExactInv`: in an
  undisturbed run without a failure both topics hold the first rows of the data set in
  order, and the table is what loading as many of them as the loader's offset says
  leaves (`TableOf`).  A loader that ends with exit code one for a refused row
  leaves its offset after that row; `LoaderExact` says that a second attempt began where the
  first one's limit was (`FirstRead`) and that the first one met such a row, which decides
  how far the run reads (`Read`).
* `ConcurrentRunnerProofs!TypeInvariant`, `LeftoversAreReported`, `BlameIsRight`:
  `[]TypeOK`, `[]LeftoversAreMarked`, `[]CulpritUnmarked`, for every number of rows
  and faults.  `RunnerInv` says what the runner has started and judged at each
  point (`Underway`), that a command which returned zero, or ended without being marked, took its
  container along (`Quiet`), and that nothing is marked before there is a reason (`Unmarked`).
* `ConcurrentRunnerProofs!PassedCountMeansLoaded`: `Spec => []PassedMeansLoaded`,
  for every number of rows.  `VerifyDeltas` compares a number, and what makes it mean
  something is a balance.  `Repeats(s)` is the length of a sequence less the number of its
  different rows.  `Flow`: what is relayed or stored is among what was handled of the topic
  before.  `RepeatsPaid`: the repetitions in both topics and the tables never exceed `copies`
  and the repetitions among the messages handled, so that those in the tables alone never
  exceed `copies`.  As many entries as there are rows, at most `copies` of which are
  repetitions, leave at most `copies` rows out.
* `ConcurrentRunnerProofs!Refinement`: `Spec => Supervision`, the refinement of
  `SupervisedProcesses`: every step of the runner and of the containers maps to a
  step of the abstract supervisor or to none.  `Collect` needs `Underway`, since the
  code passes the flow by looking at the handles, and the abstract supervisor
  at all processes.

What these programs do in the end is a temporal formula under fairness, which the prover
does not reach, but what makes it true is not temporal.  For each of the five
components whose liveness a run checks there are two theorems:

* It does not stand still: `NeverStuck` of `WarehouseLoaderSafety`,
  `StreamConsumerSafety`, `PipelineDagProofs` and `ConcurrentRunnerProofs`, and
  `ObservabilityWriterProofs!NobodyIsStuck`.  The prover has no ENABLED,
  so the guards of the fair actions are written out (`LoaderAble`, `ConsumerAble`
  and `ClientAble`, `RunAble`, `ContainerAble`, `Able`); on the instances of section 3
  each of them implies the ENABLED it stands for, which was evaluated with TLC, though no
  run of the list repeats it.  Not trivial are, for the loader, that no flush
  begins without a connection and no fallback is left without a next entry
  (`FlushReady`, `NextEntry`); for the consumer, that `poll` hands over only
  messages with a value and that a final flush without a time limit waits only for what the
  client has (`HandFilled`); for the DAG, that the producer never passes the
  end of its data set and that consumer and loader exit where they cannot read; for the
  runner, that whatever it polls, terminates or collects has ended, or runs beside a
  container that can go on, and that it has marked whatever it waits to kill (`Awaited`).
* Its steps lead to the end: `RunsAdvance` of `WarehouseLoaderSafety`,
  `StreamConsumerSafety` and `PipelineDagProofs`, `FlowsAdvance` of
  `ConcurrentRunnerProofs` and `ObservabilityWriterProofs!AttemptsGoForward`.
  Every step, failures, retries, interrupts and kills included, decreases a
  measure in a lexicographic order, well-founded because `TypeOK` bounds its parts: a stage of the program, then what
  can still be read or handled, then what is left of the statement in hand.  Each theorem
  names the steps that do not: a message that is newly published (bounded by the topic); for
  the loader an error of `poll`; for the consumer a background commit and a
  lost acknowledgement; for the runner the turns of its polling loop, which comes round only while
  there is an end it has not seen.  For the DAG and the writers it is also said that no
  *other* run or writer takes one back.

What is left to TLC is to put these together under the fairness of section 4.

Every safety invariant and action property that a run checks, and both
refinements, are thus theorems, with one exception.  Only model-checked are:

* the part of `NoStandstill` that says that who is ready can take a step, for this
  is what ENABLED means; that somebody is always ready is `SomebodyGoesOn`, and that
  somebody then meets the guard of an action, `NobodyIsStuck`;
* liveness: `RunEnds` of the loader and of the consumer, `AttemptEnds`,
  `RunFinishes` and `RunnerReturns`, from the theorems above and the fairness.

Fairness and ENABLED are out of the prover's reach.  The theorems that speak of history
variables are only as good as these: `dropped`, `reported`, `expired`, `alone`, `empty`,
`owner` and `copies` are assigned where the code gives up, reports, repeats or
shares something, and no guard reads them; `faults` is read only by its bound.

## 6. Not modelled

* The AWS metadata validator is a function of its input without state, and the
  Step Functions workflow one branch on its result: no second step could find
  anything wrong.
* The dashboard, the dbt models and the Spark aggregation are queries that an
  engine evaluates; the benchmark, profile and analysis scripts start other
  programs or describe files, one after the other; the progress reporters write to the
  terminal, and nothing depends on what they return; the infrastructure is declared.
* Reading the YAML text of the data contract: a contract that cannot be read is
  an exit code, one that can is the contract of the repository.
* The batching inside the Kafka clients.  The Go producer hands its writer one message at
  a time, so that a lost acknowledgement repeats one message.
* Consumer-group rebalances: each group has one member, as deployed.
* A container that outlives an Airflow timeout and works on while the retry
  runs (`ConcurrentRunner` has this for the end-to-end script).  Parquet parts of
  earlier runs that stay under `latest/` in the object store are in the state
  (`bucket`), but no document says what a reader of them may expect; `CopiesPaid`
  says only that a green run's own parts are there.
* Clocks: every timeout may fire at any time at which the code looks at it.

## 7. What could follow

In order of importance:

1. `StreamConsumer` and `WarehouseLoader` composed through the processed topic,
   with every statement of both: end-to-end loss and copies against the counters and the two
   exit codes.  `PipelineDag` composes them as processes without inner steps.
2. The liveness properties as theorems, when the prover has ENABLED: `RunsAdvance`
   and `NeverStuck` are the lemmas they need.
