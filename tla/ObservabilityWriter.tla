------------------------- MODULE ObservabilityWriter -------------------------
(***************************************************************************)
(* The observability writer (observability/write_pipeline_observability.py)*)
(* for one run_id: each attempt counts the warehouse's rows, derives       *)
(* quality checks and alerts, replaces what the three observability tables *)
(* hold for the run_id in one transaction, then publishes the alerts to    *)
(* Kafka and flags them as published in a second transaction.              *)
(*                                                                         *)
(* An attempt may fail at any point and be retried, and several writers    *)
(* may run with the same run_id: an Airflow task that is timed out leaves  *)
(* its container running while the retry starts another.  PostgreSQL runs  *)
(* the transactions at READ COMMITTED: a statement sees the rows committed *)
(* before it began, waits for a row another transaction has locked, and    *)
(* skips a row that was deleted meanwhile.  No constraint makes run_id     *)
(* unique.                                                                 *)
(***************************************************************************)
EXTENDS Integers, FiniteSets

CONSTANTS Writer,        \* the writers that use this run_id
          Publisher,     \* those started with --publish-alerts
          MinProcessed,  \* --min-processed-records
          Scale,         \* DECIMAL_SCALE: the units one is divided into
          Threshold,     \* --invalid-rate-threshold, in these units
          MaxRows,       \* bound: rows the loader stores in each table
          MaxAttempts,   \* bound: attempts of all writers together
          MaxFaults      \* bound: failures in a behaviour

ASSUME WriterAssumption ==
    /\ Publisher \subseteq Writer
    /\ MinProcessed \in Nat
    /\ Scale \in Nat \ {0} /\ Threshold \in Nat
    /\ MaxRows \in Nat /\ MaxAttempts \in Nat /\ MaxFaults \in Nat

Attempt == 1..MaxAttempts
Check   == {"processed_records_present", "invalid_rate_threshold"}
Table   == {"processed", "invalid"}

VARIABLES
    warehouse,  \* rows in processed_iot_logs and invalid_iot_logs
    audit,      \* pipeline_run_audit: rows [id, by], written by an attempt
    checks,     \* pipeline_quality_checks: the attempts whose two rows it holds
    alerts,     \* pipeline_alerts: the attempts whose alerts it holds
    flagged,    \* those with is_published_to_kafka
    nextId,     \* the audit table's id sequence
    published,  \* iot_pipeline_alerts: the alerts each attempt has delivered
    failing,    \* the checks each attempt found failed, its alerts
    attempts,   \* attempts started so far
    faults,     \* failures so far
    pc,         \* each writer's program point
    attempt,    \* its current attempt
    counted,    \* what it has counted in the warehouse
    seen,       \* the rows its current statement began with
    kept,       \* the audit row it updates or inserts, zero before it knows
    held,       \* the audit rows it has locked
    cleared     \* the check and alert batches it has deleted or updated

tables == <<audit, checks, alerts, flagged>>
locals == <<attempt, counted, seen, kept, held, cleared>>
vars == <<warehouse, tables, nextId, published, failing, attempts, faults, pc, locals>>

ProgramPoint == {"idle", "count_processed", "count_invalid", "select_audit",
                 "lock_audit", "delete_audit", "replace_checks", "await_checks",
                 "replace_alerts", "await_alerts", "commit", "publish", "mark",
                 "await_mark"}

Unlocked == [checks |-> {}, alerts |-> {}]

TypeOK ==
    /\ warehouse \in [Table -> 0..MaxRows]
    /\ audit \subseteq [id : Nat \ {0}, by : Attempt]
    /\ checks \subseteq Attempt /\ alerts \subseteq Attempt /\ flagged \subseteq alerts
    /\ nextId \in Nat \ {0}
    /\ published \in [Attempt -> SUBSET Check]
    /\ failing \in [Attempt -> SUBSET Check]
    /\ attempts \in 0..MaxAttempts
    /\ faults \in 0..MaxFaults
    /\ pc \in [Writer -> ProgramPoint]
    /\ attempt \in [Writer -> 0..MaxAttempts]
    /\ counted \in [Writer -> [Table -> 0..MaxRows]]
    /\ seen \in [Writer -> SUBSET Nat]
    /\ kept \in [Writer -> Nat]
    /\ held \in [Writer -> SUBSET (Nat \ {0})]
    /\ cleared \in [Writer -> [checks : SUBSET Attempt, alerts : SUBSET Attempt]]

-----------------------------------------------------------------------------

Ids == {row.id : row \in audit}

Least(S) == CHOOSE i \in S : \A j \in S : i <= j

Total(n) == n["processed"] + n["invalid"]

\* The share of invalid rows, rounded half up to whole units, is above the
\* threshold: it is at least half a unit above it.  Without rows it is zero.
RateExceeded(n) ==
    /\ Total(n) > 0
    /\ 2 * n["invalid"] * Scale >= (2 * Threshold + 1) * Total(n)

\* The checks that fail on these counts; each raises an alert.
FailedChecks(n) ==
    {c \in Check : CASE c = "processed_records_present" -> n["processed"] < MinProcessed
                     [] c = "invalid_rate_threshold" -> RateExceeded(n)}

\* Rows of S that another writer's transaction has locked block w.
Unblocked(w, S, locks) == \A v \in Writer \ {w} : S \cap locks[v] = {}

\* Faulty variant: the SELECT goes without its FOR UPDATE.
AuditLocks_None == [v \in Writer |-> {}]

AuditLocks == held
CheckLocks == [v \in Writer |-> cleared[v].checks]
AlertLocks == [v \in Writer |-> cleared[v].alerts]

At(w, here, there) == pc[w] = here /\ pc' = [pc EXCEPT ![w] = there]

\* The statement of w begins: it will act on the rows committed now.
Began(w, S) == seen' = [seen EXCEPT ![w] = S]

Init ==
    /\ warehouse = [t \in Table |-> 0]
    /\ audit = {} /\ checks = {} /\ alerts = {} /\ flagged = {}
    /\ nextId = 1
    /\ published = [a \in Attempt |-> {}]
    /\ failing = [a \in Attempt |-> {}]
    /\ attempts = 0 /\ faults = 0
    /\ pc = [w \in Writer |-> "idle"]
    /\ attempt = [w \in Writer |-> 0]
    /\ counted = [w \in Writer |-> [t \in Table |-> 0]]
    /\ seen = [w \in Writer |-> {}]
    /\ kept = [w \in Writer |-> 0]
    /\ held = [w \in Writer |-> {}]
    /\ cleared = [w \in Writer |-> Unlocked]

\* The warehouse loader stores a row.
LoaderInserts(t) ==
    /\ warehouse[t] < MaxRows
    /\ warehouse' = [warehouse EXCEPT ![t] = @ + 1]
    /\ UNCHANGED <<tables, nextId, published, failing, attempts, faults, pc, locals>>

-----------------------------------------------------------------------------
(***************************************************************************)
(* The first transaction.                                                  *)
(***************************************************************************)

\* A writer starts, or is started again; its transaction opens.
Start(w) ==
    /\ attempts < MaxAttempts
    /\ At(w, "idle", "count_processed")
    /\ attempts' = attempts + 1
    /\ attempt' = [attempt EXCEPT ![w] = attempts + 1]
    /\ UNCHANGED <<warehouse, tables, nextId, published, failing, faults, counted,
                   seen, kept, held, cleared>>

\* fetch_metrics counts the two tables one after the other.
CountProcessed(w) ==
    /\ At(w, "count_processed", "count_invalid")
    /\ counted' = [counted EXCEPT ![w]["processed"] = warehouse["processed"]]
    /\ UNCHANGED <<warehouse, tables, nextId, published, failing, attempts, faults,
                   attempt, seen, kept, held, cleared>>

\* Faulty variant: the checks are built before the invalid rows are counted.
CountInvalid_ChecksFirst(w) ==
    /\ At(w, "count_invalid", "select_audit")
    /\ counted' = [counted EXCEPT ![w]["invalid"] = warehouse["invalid"]]
    /\ failing' = [failing EXCEPT ![attempt[w]] = FailedChecks(counted[w])]
    /\ UNCHANGED <<warehouse, tables, nextId, published, attempts, faults, attempt,
                   seen, kept, held, cleared>>

CountInvalid(w) ==
    /\ At(w, "count_invalid", "select_audit")
    /\ LET n == [counted[w] EXCEPT !["invalid"] = warehouse["invalid"]]
       IN /\ counted' = [counted EXCEPT ![w] = n]
          /\ failing' = [failing EXCEPT ![attempt[w]] = FailedChecks(n)]
    /\ UNCHANGED <<warehouse, tables, nextId, published, attempts, faults, attempt,
                   seen, kept, held, cleared>>

\* SELECT id FROM pipeline_run_audit ... FOR UPDATE begins.
SelectAudit(w) ==
    /\ At(w, "select_audit", "lock_audit")
    /\ Began(w, Ids)
    /\ UNCHANGED <<warehouse, tables, nextId, published, failing, attempts, faults,
                   attempt, counted, kept, held, cleared>>

\* Faulty variant: the existing rows are ignored.
Existing_Ignored(w) == {}

\* The rows a statement finds: those it began with that are not deleted since.
Existing(w) == seen[w] \cap Ids

\* Those it has still to lock, one after the other.
Pending(w) == Existing(w) \ held[w]

\* The next of them: the SELECT locks in the order of the ids, the DELETE in
\* that of the table.
NextRows(w) == IF pc[w] = "lock_audit" /\ Pending(w) # {}
               THEN {Least(Pending(w))} ELSE Pending(w)

\* The SELECT ... FOR UPDATE, or the DELETE, locks a row, which stays locked
\* until the transaction ends.
LockRow(w) ==
    /\ pc[w] \in {"lock_audit", "delete_audit"}
    /\ \E i \in NextRows(w) : /\ Unblocked(w, {i}, AuditLocks)
                             /\ held' = [held EXCEPT ![w] = @ \cup {i}]
    /\ UNCHANGED <<warehouse, tables, nextId, published, failing, attempts, faults, pc,
                   attempt, counted, seen, kept, cleared>>

\* The SELECT returns.  The first row is updated, or a new one inserted.
LockAudit(w) ==
    /\ Pending(w) = {}
    /\ IF held[w] = {}
       THEN kept' = [kept EXCEPT ![w] = nextId] /\ nextId' = nextId + 1
       ELSE kept' = [kept EXCEPT ![w] = Least(held[w])] /\ UNCHANGED nextId
    /\ At(w, "lock_audit",
          IF Cardinality(held[w]) > 1 THEN "delete_audit" ELSE "replace_checks")
    /\ Began(w, Ids)
    /\ UNCHANGED <<warehouse, tables, published, failing, attempts, faults, attempt,
                   counted, held, cleared>>

\* DELETE FROM pipeline_run_audit returns: every other row of the run_id.
DeleteAudit(w) ==
    /\ At(w, "delete_audit", "replace_checks")
    /\ Pending(w) = {}
    /\ UNCHANGED <<warehouse, tables, nextId, published, failing, attempts, faults, locals>>

\* replace_quality_checks: the DELETE begins ...
ReplaceChecks(w) ==
    /\ At(w, "replace_checks", "await_checks")
    /\ Began(w, checks)
    /\ UNCHANGED <<warehouse, tables, nextId, published, failing, attempts, faults,
                   attempt, counted, kept, held, cleared>>

\* ... and has waited for its rows; the new ones are inserted.
ChecksReplaced(w) ==
    LET S == seen[w] \cap checks
    IN /\ At(w, "await_checks", "replace_alerts")
       /\ Unblocked(w, S, CheckLocks)
       /\ cleared' = [cleared EXCEPT ![w].checks = S]
       /\ UNCHANGED <<warehouse, tables, nextId, published, failing, attempts, faults,
                      attempt, counted, seen, kept, held>>

\* replace_alerts, in the same two steps.
ReplaceAlerts(w) ==
    /\ At(w, "replace_alerts", "await_alerts")
    /\ Began(w, alerts)
    /\ UNCHANGED <<warehouse, tables, nextId, published, failing, attempts, faults,
                   attempt, counted, kept, held, cleared>>

AlertsReplaced(w) ==
    LET S == seen[w] \cap alerts
    IN /\ At(w, "await_alerts", "commit")
       /\ Unblocked(w, S, AlertLocks)
       /\ cleared' = [cleared EXCEPT ![w].alerts = S]
       /\ UNCHANGED <<warehouse, tables, nextId, published, failing, attempts, faults,
                      attempt, counted, seen, kept, held>>

\* Faulty variant: the connection is neither committed, rolled back nor closed.
Release_Leaked(w) == UNCHANGED <<held, cleared, kept, seen>>

\* The transaction of w is over, and its locks with it.
Release(w) ==
    /\ held' = [held EXCEPT ![w] = {}]
    /\ cleared' = [cleared EXCEPT ![w] = Unlocked]
    /\ kept' = [kept EXCEPT ![w] = 0]
    /\ seen' = [seen EXCEPT ![w] = {}]

\* Faulty variant: new alerts take over the flags of those they replace.
StillFlagged_All(w) == flagged

\* The flags that survive the transaction: those of alerts it did not delete.
StillFlagged(w) == flagged \ cleared[w].alerts

\* COMMIT: the transaction's rows replace those it deleted.
Commit(w) ==
    LET a == attempt[w]
        raised == failing[a] # {}
    IN /\ At(w, "commit", IF w \in Publisher /\ raised THEN "publish" ELSE "idle")
       /\ audit' = {row \in audit : row.id \notin held[w]} \cup {[id |-> kept[w], by |-> a]}
       /\ checks' = (checks \ cleared[w].checks) \cup {a}
       /\ alerts' = (alerts \ cleared[w].alerts) \cup (IF raised THEN {a} ELSE {})
       /\ flagged' = StillFlagged(w)
       /\ Release(w)
       /\ UNCHANGED <<warehouse, nextId, published, failing, attempts, faults, attempt,
                      counted>>

-----------------------------------------------------------------------------
(***************************************************************************)
(* Publishing, and the second transaction.                                 *)
(***************************************************************************)

\* Faulty variant: the flush's remaining messages are not looked at.
FlushComplete_Unchecked(w) == published[attempt[w]] \subseteq failing[attempt[w]]

\* No delivery error, and flush left nothing in the queue.
FlushComplete(w) == published[attempt[w]] = failing[attempt[w]]

\* The client delivers one of the alerts.
DeliverAlert(w, c) ==
    LET a == attempt[w]
    IN /\ pc[w] = "publish"
       /\ c \in failing[a] \ published[a]
       /\ published' = [published EXCEPT ![a] = @ \cup {c}]
       /\ UNCHANGED <<warehouse, tables, nextId, failing, attempts, faults, pc, locals>>

\* publish_alerts_to_kafka returns.  (It raises through Fail.)
AlertsPublished(w) ==
    /\ At(w, "publish", "mark")
    /\ FlushComplete(w)
    /\ UNCHANGED <<warehouse, tables, nextId, published, failing, attempts, faults, locals>>

\* mark_alerts_as_published: UPDATE pipeline_alerts for the run_id begins ...
MarkAlerts(w) ==
    /\ At(w, "mark", "await_mark")
    /\ Began(w, alerts)
    /\ UNCHANGED <<warehouse, tables, nextId, published, failing, attempts, faults,
                   attempt, counted, kept, held, cleared>>

\* ... has waited for its rows, flags whichever are there, and commits.
AlertsMarked(w) ==
    LET S == seen[w] \cap alerts
    IN /\ At(w, "await_mark", "idle")
       /\ Unblocked(w, S, AlertLocks)
       /\ flagged' = flagged \cup S
       /\ Release(w)
       /\ UNCHANGED <<warehouse, audit, checks, alerts, nextId, published, failing,
                      attempts, faults, attempt, counted>>

\* w waits for a row that v has locked.
WaitsFor(w, v) ==
    /\ pc[w] \in {"lock_audit", "delete_audit"}
    /\ \A i \in NextRows(w) : ~Unblocked(w, {i}, AuditLocks)
    /\ NextRows(w) \cap held[v] # {}

\* Faulty variant: nobody looks for deadlocks.
Deadlocked_Never(w) == FALSE

\* w is one of a set of writers that wait for each other.
Deadlocked(w) ==
    \E S \in SUBSET Writer : /\ w \in S
                            /\ \A u \in S : \E v \in S \ {u} : WaitsFor(u, v)

\* PostgreSQL ends a deadlock by failing the statement of one of the writers.
DeadlockVictim(w) ==
    /\ Deadlocked(w)
    /\ pc' = [pc EXCEPT ![w] = "idle"]
    /\ Release(w)
    /\ UNCHANGED <<warehouse, tables, nextId, published, failing, attempts, faults,
                   attempt, counted>>

\* An exception, a Kafka failure or a kill: the open transaction is rolled
\* back, and the writer exits.
Fail(w) ==
    /\ pc[w] # "idle"
    /\ faults < MaxFaults /\ faults' = faults + 1
    /\ pc' = [pc EXCEPT ![w] = "idle"]
    /\ Release(w)
    /\ UNCHANGED <<warehouse, tables, nextId, published, failing, attempts, attempt, counted>>

-----------------------------------------------------------------------------

\* The steps a writer takes by itself.
Step(w) ==
    \/ CountProcessed(w)
    \/ CountInvalid(w)
    \/ SelectAudit(w)
    \/ LockRow(w)
    \/ LockAudit(w)
    \/ DeleteAudit(w)
    \/ ReplaceChecks(w)
    \/ ChecksReplaced(w)
    \/ ReplaceAlerts(w)
    \/ AlertsReplaced(w)
    \/ DeadlockVictim(w)
    \/ Commit(w)
    \/ \E c \in Check : DeliverAlert(w, c)
    \/ AlertsPublished(w)
    \/ MarkAlerts(w)
    \/ AlertsMarked(w)

Next ==
    \/ \E t \in Table : LoaderInserts(t)
    \/ \E w \in Writer : Start(w) \/ Step(w) \/ Fail(w)

Spec == Init /\ [][Next]_vars

\* Each writer that runs keeps running; a blocked statement resumes when the
\* locks it waits for are gone.
FairSpec == Spec /\ \A w \in Writer : WF_vars(Step(w))

-----------------------------------------------------------------------------
(***************************************************************************)
(* What the writer guarantees.                                             *)
(***************************************************************************)

\* The three tables tell of one attempt: while the run has one audit row, the
\* checks and alerts stored with it are those of the attempt it describes,
\* whatever writers overlap.  The audit row's lock, taken first, makes a
\* rewrite of the run atomic; nothing else does.
TablesAgree ==
    \A row \in audit : audit = {row} =>
        /\ checks = {row.by}
        /\ alerts = IF failing[row.by] = {} THEN {} ELSE {row.by}

\* Once the run has one audit row and no writer is between its SELECT and its
\* COMMIT, it keeps exactly one forever, however rewrites overlap, fail and are
\* retried.
Settled == /\ Cardinality(audit) = 1
           /\ \A w \in Writer : held[w] = {} /\ kept[w] = 0 /\ pc[w] # "lock_audit"
AuditRowKept == [](Settled => [](Cardinality(audit) = 1))

\* The two counts are of two moments, and rows stored between them can make an
\* attempt fail a check that never failed on the warehouse; yet no attempt
\* misses an alert that is due when it has counted: the table counted first
\* has only grown since, and more processed rows never make a check fail.
NoAlarmMissed ==
    [][\A w \in Writer :
          CountInvalid(w) => FailedChecks(warehouse) \subseteq failing'[attempt[w]]]_vars

\* No alert is flagged as published before some attempt at this run_id has
\* delivered every alert of its own to Kafka.
FlaggedAfterDelivery ==
    flagged # {} =>
        \E a \in Attempt : failing[a] # {} /\ published[a] = failing[a]

\* Every attempt ends: it is never overtaken forever, nor blocked.
AttemptEnds == \A w \in Writer : pc[w] # "idle" ~> pc[w] = "idle"

\* w waits for rows that others have locked.
Waiting(w) ==
    \/ /\ pc[w] \in {"lock_audit", "delete_audit"} /\ Pending(w) # {}
       /\ \A i \in NextRows(w) : ~Unblocked(w, {i}, AuditLocks)
    \/ /\ pc[w] = "await_checks"
       /\ ~Unblocked(w, seen[w] \cap checks, CheckLocks)
    \/ /\ pc[w] \in {"await_alerts", "await_mark"}
       /\ ~Unblocked(w, seen[w] \cap alerts, AlertLocks)

\* A running w waits for nobody, or PostgreSQL is about to end its wait; and
\* Kafka was given no alert that w did not raise.
Ready(w) ==
    /\ pc[w] # "idle"
    /\ Waiting(w) => Deadlocked(w)
    /\ pc[w] = "publish" => published[attempt[w]] \subseteq failing[attempt[w]]

SomebodyReady == (\E w \in Writer : pc[w] # "idle") => \E w \in Writer : Ready(w)

\* The writers never all wait for each other: while any of them runs, one is
\* ready, and who is ready can take a step.  That the SELECT locks in the
\* order of the ids is not enough: a row inserted earlier and committed later
\* is seen by the DELETE alone, whose transaction has locked later rows by then.
NoStandstill ==
    /\ SomebodyReady
    /\ \A w \in Writer : Ready(w) => ENABLED Step(w)

\* docs/observability.md: the writer "writes one pipeline_run_audit row per
\* run_id".
OneAuditRow == Cardinality(audit) <= 1

\* docs/observability.md: the writer "keeps is_published_to_kafka = false
\* unless Kafka publishing succeeds".
FlagMeansDelivered == \A a \in flagged : published[a] = failing[a]
=============================================================================
