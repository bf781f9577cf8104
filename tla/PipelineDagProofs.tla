--------------------------- MODULE PipelineDagProofs ---------------------------
(***************************************************************************)
(* Proofs about the DAG, for every number of runs, retries and failures:   *)
(* type correctness; a data set that breaks the contract stops its run     *)
(* before a row of it gets anywhere, whatever overlaps and is retried;     *)
(* what a retry repeats has cost a failure; a run that nothing disturbs    *)
(* and nothing fails loads its rows once; and what brings a run to its     *)
(* end.                                                                    *)
(***************************************************************************)
EXTENDS PipelineDag, TLAPS, FiniteSetTheorems

-----------------------------------------------------------------------------
(***************************************************************************)
(* The chain of tasks and the scheduler.                                   *)
(***************************************************************************)

\* What follows a task is a task, or the run is green.
LEMMA Successors ==
  /\ \A t \in Task : After(t) \in Task \cup {"green"}
  /\ After("reset") = "start" /\ After("start") = "truncate"
  /\ After("truncate") = "contract"
<1>1. Len(Chain) = 12 /\ DOMAIN Chain = 1..12
  BY DEF Chain
<1>2. \A i \in 1..12 : Chain[i] \in Task
  BY <1>1 DEF Task
<1>3. ASSUME NEW t \in Task
      PROVE  After(t) \in Task \cup {"green"}
  <2> DEFINE i == CHOOSE i \in DOMAIN Chain : Chain[i] = t
  <2>1. \E j \in DOMAIN Chain : Chain[j] = t
    BY DEF Task
  <2>2. i \in DOMAIN Chain
    BY <2>1
  <2>3. After(t) = IF i = Len(Chain) THEN "green" ELSE Chain[i + 1]
    BY DEF After
  <2> HIDE DEF i
  <2> QED
    BY <1>1, <1>2, <2>2, <2>3
<1>4. ASSUME NEW k \in 1..3
      PROVE  After(Chain[k]) = Chain[k + 1]
  <2> DEFINE i == CHOOSE i \in DOMAIN Chain : Chain[i] = Chain[k]
  <2>1. \A j \in DOMAIN Chain : Chain[j] = Chain[k] => j = k
    BY <1>1 DEF Chain
  <2>2. k \in DOMAIN Chain
    BY <1>1
  <2>3. i \in DOMAIN Chain /\ Chain[i] = Chain[k]
    BY <2>2
  <2>4. After(Chain[k]) = IF i = Len(Chain) THEN "green" ELSE Chain[i + 1]
    BY DEF After
  <2> HIDE DEF i
  <2> QED
    BY <1>1, <2>1, <2>3, <2>4
<1>5. /\ Chain[1] = "reset" /\ Chain[2] = "start"
      /\ Chain[3] = "truncate" /\ Chain[4] = "contract"
  BY DEF Chain
<1>6. After(Chain[1]) = Chain[2] /\ After(Chain[2]) = Chain[3] /\ After(Chain[3]) = Chain[4]
  BY <1>4
<1> QED
  BY <1>3, <1>5, <1>6

\* The types of the scheduler's variables.
ProcessOK ==
    /\ task \in [Run -> Task \cup {"idle", "green", "failed"}]
    /\ attempt \in [Run -> 1..2]
    /\ handled \in [Run -> Nat] /\ failed \in [Run -> Nat]

\* An attempt that ends, either way, or goes on.
LEMMA Attempts ==
  ASSUME NEW r \in Run, ProcessOK, task[r] \in Task
  PROVE  /\ Succeed(r) => ProcessOK' /\ task' = [task EXCEPT ![r] = After(task[r])]
         /\ Fail(r) => /\ ProcessOK'
                       /\ \/ task' = [task EXCEPT ![r] = task[r]]
                          \/ task' = [task EXCEPT ![r] = "failed"]
         /\ \A ok \in BOOLEAN : Exit(r, ok) => ProcessOK'
         /\ \A bad \in BOOLEAN : Step(r, bad) => ProcessOK' /\ task' = task
<1>1. ASSUME NEW t \in Task \cup {"green", "failed"}, NEW n \in 1..2, Begin(r, t, n)
      PROVE  ProcessOK' /\ task' = [task EXCEPT ![r] = t]
  BY <1>1 DEF ProcessOK, Begin
<1>2. ASSUME Succeed(r)
      PROVE  ProcessOK' /\ task' = [task EXCEPT ![r] = After(task[r])]
  BY <1>1, <1>2, Successors DEF Succeed
<1>3. ASSUME Fail(r)
      PROVE  /\ ProcessOK'
             /\ \/ task' = [task EXCEPT ![r] = task[r]]
                \/ task' = [task EXCEPT ![r] = "failed"]
  BY <1>1, <1>3 DEF Fail
<1>4. ASSUME NEW ok \in BOOLEAN, Exit(r, ok)
      PROVE  ProcessOK'
  BY <1>2, <1>3, <1>4 DEF Exit
<1>5. ASSUME NEW bad \in BOOLEAN, Step(r, bad)
      PROVE  ProcessOK' /\ task' = task
  BY <1>5 DEF ProcessOK, Step
<1> QED
  BY <1>2, <1>3, <1>4, <1>5

\* The rows of a data set are records.
LEMMA RowsOfRun ==
  ASSUME NEW r \in Run, dataset \in [Run -> DataSets]
  PROVE  /\ Rows(r) \in 1..MaxRows
         /\ \A i \in 1..Rows(r) : <<r, i>> \in Record
<1>1. PICK n \in 1..MaxRows : dataset[r] \in [1..n -> RowKind]
  BY DagAssumption
<1>2. Len(dataset[r]) = n
  BY <1>1, DagAssumption
<1> QED
  BY <1>2, DagAssumption DEF Rows, Record

-----------------------------------------------------------------------------
(***************************************************************************)
(* Type correctness.                                                       *)
(***************************************************************************)

\* The types of what the runs share.
DataOK ==
    /\ up \in BOOLEAN
    /\ raw \in Seq(Record) /\ processed \in Seq(Record)
    /\ offset \in [Run -> [Group -> Nat]]
    /\ table \in [Record -> Nat]
    /\ scans \in [Run -> Nat] /\ audit \in [Run -> Nat]
    /\ output \in Run \cup {"nobody"} /\ bucket \subseteq (Run \cup {"nobody"}) \X Part

\* The types of the inputs and of the history.
HistoryOK ==
    /\ dataset \in [Run -> DataSets]
    /\ alone \in [Run -> BOOLEAN] /\ empty \in [Run -> BOOLEAN]
    /\ owner \in Run \cup {"nobody"} /\ faults \in [Run -> Nat]

\* Type correctness, in three parts.
LEMMA TypeParts == TypeOK <=> ProcessOK /\ DataOK /\ HistoryOK
BY DEF TypeOK, ProcessOK, DataOK, HistoryOK

\* The variables have their types at the start.
LEMMA TypeInit == Init => TypeOK
<1> SUFFICES ASSUME Init
             PROVE  ProcessOK /\ DataOK /\ HistoryOK
  BY TypeParts
<1>1. ProcessOK
  BY DEF Init, ProcessOK
<1>2. DataOK
  <2>1. offset \in [Run -> [Group -> Nat]] /\ table \in [Record -> Nat]
    BY DEF Init
  <2>2. raw \in Seq(Record) /\ processed \in Seq(Record)
    BY DEF Init
  <2>3. scans \in [Run -> Nat] /\ audit \in [Run -> Nat]
    BY DEF Init
  <2>4. up \in BOOLEAN /\ output = "nobody" /\ bucket = {}
    BY DEF Init
  <2> QED
    BY <2>1, <2>2, <2>3, <2>4 DEF DataOK
<1>3. HistoryOK
  BY DEF Init, HistoryOK
<1> QED
  BY <1>1, <1>2, <1>3

\* A failure is counted.
LEMMA FaultCounted ==
  ASSUME NEW r \in Run, HistoryOK, Fault(r)
  PROVE  faults' \in [Run -> Nat]
BY DEF HistoryOK, Fault

\* Committing an offset leaves offsets.
LEMMA OffsetAdvances ==
  ASSUME NEW r \in Run, NEW g \in Group, DataOK
  PROVE  Advanced(r, g) \in [Run -> [Group -> Nat]]
<1>1. offset[r] \in [Group -> Nat] /\ offset \in [Run -> [Group -> Nat]]
  BY DEF DataOK
<1>2. [offset[r] EXCEPT ![g] = @ + 1] \in [Group -> Nat]
  BY <1>1
<1>3. Advanced(r, g) = [offset EXCEPT ![r] = [offset[r] EXCEPT ![g] = @ + 1]]
  BY <1>1 DEF Advanced
<1> HIDE DEF DataOK
<1> QED
  BY <1>1, <1>2, <1>3

\* A message that the consumer or the loader reads is one of its topic's.
LEMMA MessageRead ==
  ASSUME NEW r \in Run, NEW g \in Group, NEW T \in Seq(Record), DataOK, Unread(T, r, g)
  PROVE  /\ Position(r, g) + 1 \in 1..Len(T)
         /\ NextMessage(T, r, g) = T[Position(r, g) + 1]
         /\ NextMessage(T, r, g) \in Record
         /\ Append(T, NextMessage(T, r, g)) \in Seq(Record)
<1>1. Position(r, g) \in Nat
  BY DEF DataOK, Position
<1>2. Position(r, g) + 1 \in 1..Len(T)
  BY <1>1 DEF Unread
<1> QED
  BY <1>2 DEF NextMessage

\* The row the producer publishes is a record.
LEMMA NextRowIsRecord ==
  ASSUME NEW r \in Run, ProcessOK, HistoryOK, Publish(r)
  PROVE  NextRow(r) \in Record
<1>1. handled[r] \in Nat /\ handled[r] < Rows(r)
  BY DEF Publish, ProcessOK
<1>2. Rows(r) \in 1..MaxRows /\ \A i \in 1..Rows(r) : <<r, i>> \in Record
  BY RowsOfRun DEF HistoryOK
<1>3. handled[r] + 1 \in 1..Rows(r)
  BY <1>1, <1>2, DagAssumption
<1> QED
  BY <1>2, <1>3 DEF NextRow

\* Every step keeps every variable's type.
LEMMA TypeStep == TypeOK /\ [Next]_vars => TypeOK'
<1> SUFFICES ASSUME ProcessOK, DataOK, HistoryOK, [Next]_vars
             PROVE  ProcessOK' /\ DataOK' /\ HistoryOK'
  BY DEF TypeOK, ProcessOK, DataOK, HistoryOK
<1> USE DEF kafka, lake, history
<1>1. CASE UNCHANGED vars
  BY <1>1 DEF vars, process, ProcessOK, DataOK, HistoryOK
<1>2. ASSUME NEW r \in Run, Trigger(r)
      PROVE  ProcessOK' /\ DataOK' /\ HistoryOK'
  <2>1. "reset" \in Task
    BY DEF Task, Chain
  <2>2. ProcessOK'
    BY <1>2, <2>1 DEF Trigger, ProcessOK
  <2>3. DataOK'
    BY <1>2 DEF Trigger, DataOK
  <2>4. HistoryOK'
    BY <1>2 DEF Trigger, HistoryOK
  <2> QED
    BY <2>2, <2>3, <2>4
<1>3. ASSUME NEW r \in Run, Break(r)
      PROVE  ProcessOK' /\ DataOK' /\ HistoryOK'
  <2>1. ProcessOK'
    BY <1>3, Attempts DEF Break, Active
  <2>2. DataOK'
    BY <1>3 DEF Break, DataOK
  <2>3. HistoryOK'
    BY <1>3, FaultCounted DEF Break, HistoryOK
  <2> QED
    BY <2>1, <2>2, <2>3
<1>4. ASSUME NEW r \in Run,
             \/ Reset(r) \/ StartInfrastructure(r) \/ Truncate(r) \/ RunSpark(r)
             \/ ValidateContract(r) \/ ProducerExits(r) \/ ConsumerExits(r)
             \/ LoaderExits(r) \/ DetectAnomalies(r) \/ Upload(r)
             \/ WriteObservability(r) \/ ValidateObservability(r)
      PROVE  ProcessOK' /\ DataOK' /\ HistoryOK'
  <2>0. /\ task[r] \in Task
        /\ \/ Succeed(r) \/ Fail(r) \/ \E ok \in BOOLEAN : Exit(r, ok)
    <3>1. /\ "reset" \in Task /\ "start" \in Task /\ "truncate" \in Task
          /\ "contract" \in Task /\ "producer" \in Task /\ "consumer" \in Task
          /\ "loader" \in Task /\ "anomalies" \in Task /\ "spark" \in Task
          /\ "upload" \in Task /\ "writer" \in Task /\ "validate" \in Task
      BY DEF Task, Chain
    <3>2. CASE \/ Reset(r) \/ StartInfrastructure(r) \/ Truncate(r) \/ RunSpark(r)
               \/ DetectAnomalies(r) \/ Upload(r) \/ WriteObservability(r)
      BY <3>1, <3>2 DEF Reset, StartInfrastructure, Truncate, RunSpark, DetectAnomalies,
         Upload, WriteObservability
    <3>3. CASE ValidateContract(r)
      BY <3>1, <3>3 DEF ValidateContract, Conforms
    <3>4. CASE ProducerExits(r)
      <4>1. ProducerSucceeds(r) \in BOOLEAN
        BY DEF ProducerSucceeds
      <4> QED
        BY <3>1, <3>4, <4>1, Zenon DEF ProducerExits
    <3>5. CASE ConsumerExits(r) \/ LoaderExits(r)
      BY <3>1, <3>5 DEF ConsumerExits, LoaderExits, NoneFailed
    <3>6. CASE ValidateObservability(r)
      BY <3>1, <3>6 DEF ValidateObservability
    <3> QED
      BY <1>4, <3>2, <3>3, <3>4, <3>5, <3>6
  <2>1. ProcessOK'
    BY <2>0, Attempts
  <2>2. HistoryOK'
    BY <1>4, FaultCounted DEF Reset, StartInfrastructure, Truncate, RunSpark,
       ValidateContract, ProducerExits, ConsumerExits, LoaderExits, DetectAnomalies,
       Upload, WriteObservability, ValidateObservability, HistoryOK
  <2>3. DataOK'
    <3>1. CASE Reset(r) \/ StartInfrastructure(r) \/ ValidateContract(r) \/ ProducerExits(r)
               \/ ValidateObservability(r)
      BY <3>1 DEF Reset, StartInfrastructure, ValidateContract, ProducerExits,
         ValidateObservability, DataOK
    <3>2. CASE Truncate(r)
      BY <3>2 DEF Truncate, DataOK
    <3>3. CASE ConsumerExits(r) \/ LoaderExits(r)
      BY <3>3 DEF ConsumerExits, LoaderExits, Compose, DataOK
    <3>4. CASE DetectAnomalies(r) \/ WriteObservability(r) \/ RunSpark(r)
      <4>1. \A f \in [Run -> Nat] : [f EXCEPT ![r] = @ + 1] \in [Run -> Nat]
        OBVIOUS
      <4>2. audit \in [Run -> Nat] => [audit EXCEPT ![r] = 1] \in [Run -> Nat]
        OBVIOUS
      <4>3. scans' \in [Run -> Nat] /\ audit' \in [Run -> Nat]
        BY <3>4, <4>1, <4>2 DEF DetectAnomalies, Copied, WriteObservability, RunSpark, DataOK
      <4> QED
        BY <3>4, <4>3 DEF DetectAnomalies, Copied, WriteObservability, RunSpark, DataOK
    <3>5. CASE Upload(r)
      BY <3>5 DEF Upload, Put, DataOK
    <3> QED
      BY <1>4, <3>1, <3>2, <3>3, <3>4, <3>5
  <2> QED
    BY <2>1, <2>2, <2>3
<1>5. ASSUME NEW r \in Run, Publish(r)
      PROVE  ProcessOK' /\ DataOK' /\ HistoryOK'
  <2>1. task[r] \in Task
    BY <1>5 DEF Publish, Task, Chain
  <2>2. ProcessOK'
    BY <1>5, <2>1, Attempts DEF Publish
  <2>3. HistoryOK'
    BY <1>5, FaultCounted DEF Publish, HistoryOK
  <2>4. NextRow(r) \in Record
    BY <1>5, NextRowIsRecord
  <2>5. up' \in BOOLEAN
    BY <1>5 DEF Publish, Compose, DataOK
  <2>6. raw' \in Seq(Record)
    <3>1. /\ Append(raw, NextRow(r)) \in Seq(Record)
          /\ <<NextRow(r), NextRow(r)>> \in Seq(Record)
      BY <2>4 DEF DataOK
    <3>2. raw \o <<NextRow(r), NextRow(r)>> \in Seq(Record)
      BY <3>1 DEF DataOK
    <3> QED
      BY <1>5, <3>1, <3>2 DEF Publish, DataOK
  <2>7. DataOK'
    BY <1>5, <2>5, <2>6 DEF Publish, DataOK
  <2> QED
    BY <2>2, <2>3, <2>7
<1>6. ASSUME NEW r \in Run, Relay(r)
      PROVE  ProcessOK' /\ DataOK' /\ HistoryOK'
  <2>1. task[r] \in Task /\ "consumer" \in Group
    BY <1>6 DEF Relay, Task, Chain, Group
  <2>2. ProcessOK'
    BY <1>6, <2>1, Attempts DEF Relay
  <2>3. HistoryOK'
    BY <1>6, FaultCounted DEF Relay, HistoryOK
  <2> DEFINE m == NextMessage(raw, r, "consumer")
  <2>4. m \in Record
    BY <1>6, <2>1, MessageRead DEF Relay, DataOK
  <2>5. /\ processed' \in {processed, Append(processed, m), processed \o <<m, m>>}
        /\ offset' \in {offset, Advanced(r, "consumer")}
    BY <1>6 DEF Relay
  <2> HIDE DEF m
  <2>9. Append(processed, m) \in Seq(Record) /\ processed \o <<m, m>> \in Seq(Record)
    <3>1. <<m, m>> \in Seq(Record)
      BY <2>4
    <3> QED
      BY <2>4, <3>1 DEF DataOK
  <2>10. Advanced(r, "consumer") \in [Run -> [Group -> Nat]]
    BY <2>1, OffsetAdvances
  <2>6. processed' \in Seq(Record) /\ offset' \in [Run -> [Group -> Nat]]
    BY <2>5, <2>9, <2>10 DEF DataOK
  <2>8. up' \in BOOLEAN
    BY <1>6 DEF Relay, DataOK
  <2>7. DataOK'
    BY <1>6, <2>6, <2>8 DEF Relay, DataOK
  <2> QED
    BY <2>2, <2>3, <2>7
<1>7. ASSUME NEW r \in Run, Load(r)
      PROVE  ProcessOK' /\ DataOK' /\ HistoryOK'
  <2>1. task[r] \in Task /\ "loader" \in Group
    BY <1>7 DEF Load, Task, Chain, Group
  <2>2. ProcessOK'
    BY <1>7, <2>1, Attempts DEF Load
  <2>3. HistoryOK'
    BY <1>7, FaultCounted DEF Load, HistoryOK
  <2> DEFINE m == NextMessage(processed, r, "loader")
  <2>4. /\ table' \in {table, [table EXCEPT ![m] = @ + 1]}
        /\ offset' \in {offset, Advanced(r, "loader")}
    BY <1>7 DEF Load
  <2>9. m \in Record
    BY <1>7, <2>1, MessageRead DEF Load, DataOK
  <2> HIDE DEF m
  <2>5. [table EXCEPT ![m] = @ + 1] \in [Record -> Nat]
    BY <2>9 DEF DataOK
  <2>6. table' \in [Record -> Nat] /\ offset' \in [Run -> [Group -> Nat]]
    BY <2>1, <2>4, <2>5, OffsetAdvances DEF DataOK
  <2>8. up' \in BOOLEAN
    BY <1>7 DEF Load, DataOK
  <2>7. DataOK'
    BY <1>7, <2>6, <2>8 DEF Load, DataOK
  <2> QED
    BY <2>2, <2>3, <2>7
<1> QED
  BY <1>1, <1>2, <1>3, <1>4, <1>5, <1>6, <1>7 DEF Next, Progress

\* Every variable keeps its type: the DAG's runs, topics, tables and objects.
THEOREM TypeInvariant == Spec => []TypeOK
<1>1. Init => TypeOK
  BY TypeInit
<1>2. TypeOK /\ [Next]_vars => TypeOK'
  BY TypeStep
<1> QED
  BY <1>1, <1>2, PTL DEF Spec

-----------------------------------------------------------------------------
(***************************************************************************)
(* The contract stops the run.  That no row of a run got anywhere is not   *)
(* inductive as it stands: it rests on where the run can be in its chain.  *)
(***************************************************************************)

\* Where a run is whose data set breaks the contract.
Early == {"idle", "reset", "start", "truncate", "contract", "failed"}

\* Nothing in a topic is a row of run r.
NoRowIn(T, r) == \A i \in DOMAIN T : T[i][1] # r

\* Run r has left no row in the tables and no findings.
NoRowStored(r) == (\A m \in Record : m[1] = r => table[m] = 0) /\ scans[r] = 0

\* What such a run has left: nothing at all.
Stopped(r) == task[r] \in Early /\ NoRowIn(raw, r) /\ NoRowIn(processed, r) /\ NoRowStored(r)

StopInv == \A r \in Run : ~Conforms(r) => Stopped(r)

\* At the start no run has left anything.
LEMMA StopInit == Init => StopInv
<1> SUFFICES ASSUME Init, NEW r \in Run
             PROVE  Stopped(r)
  BY DEF StopInv
<1>1. task[r] \in Early /\ scans[r] = 0
  BY DEF Init, Early
<1>2. raw = <<>> /\ processed = <<>>
  BY DEF Init
<1>3. \A m \in Record : table[m] = 0
  BY DEF Init
<1> QED
  BY <1>1, <1>2, <1>3 DEF Stopped, NoRowIn, NoRowStored

\* A topic stays free of r's rows when rows of others are appended.
LEMMA AppendOther ==
  ASSUME NEW r \in Run, NEW T \in Seq(Record), NoRowIn(T, r), NEW m \in Record, m[1] # r
  PROVE  NoRowIn(Append(T, m), r) /\ NoRowIn(T \o <<m, m>>, r)
<1>1. \A i \in 1..Len(T) : T[i][1] # r
  BY DEF NoRowIn
<1>2. NoRowIn(Append(T, m), r)
  BY <1>1 DEF NoRowIn
<1>3. NoRowIn(T \o <<m, m>>, r)
  <2>1. DOMAIN (T \o <<m, m>>) = 1..(Len(T) + 2)
    OBVIOUS
  <2>2. \A i \in 1..(Len(T) + 2) :
            (T \o <<m, m>>)[i] = IF i <= Len(T) THEN T[i] ELSE m
    <3>1. TAKE i \in 1..(Len(T) + 2)
    <3>2. (T \o <<m, m>>)[i] = IF i <= Len(T) THEN T[i] ELSE <<m, m>>[i - Len(T)]
      OBVIOUS
    <3>3. i > Len(T) => i - Len(T) = 1 \/ i - Len(T) = 2
      OBVIOUS
    <3> QED
      BY <3>2, <3>3
  <2> QED
    BY <1>1, <2>1, <2>2 DEF NoRowIn
<1> QED
  BY <1>2, <1>3

\* Where the run's own next attempt is, when the contract does not hold.
LEMMA StaysEarly ==
  ASSUME TypeOK, NEW r \in Run, NEW q \in Run, ~Conforms(r), task[r] \in Early,
         Trigger(q) \/ Progress(q) \/ Break(q)
  PROVE  task'[r] \in Early /\ dataset' = dataset
<1> USE DEF kafka, lake, history
<1>1. ProcessOK
  BY TypeParts
<1>2. dataset' = dataset
  BY DEF Trigger, Break, Progress, Reset, StartInfrastructure, Truncate, ValidateContract,
     Publish, ProducerExits, Relay, ConsumerExits, Load, LoaderExits, DetectAnomalies,
     RunSpark, Upload, WriteObservability, ValidateObservability
<1>3. CASE q # r
  <2>1. \A t, n : Begin(q, t, n) => task'[r] = task[r]
    BY <1>1, <1>3 DEF Begin, ProcessOK
  <2>2. /\ Succeed(q) => task'[r] = task[r]
        /\ Fail(q) => task'[r] = task[r]
        /\ \A ok : Exit(q, ok) => task'[r] = task[r]
        /\ \A bad : Step(q, bad) => task'[r] = task[r]
    BY <2>1 DEF Succeed, Fail, Exit, Step
  <2>3. Trigger(q) => task'[r] = task[r]
    BY <1>1, <1>3 DEF Trigger, ProcessOK
  <2> QED
    BY <1>2, <2>2, <2>3 DEF Break, Progress, Reset, StartInfrastructure, Truncate,
       ValidateContract, Publish, ProducerExits, Relay, ConsumerExits, Load, LoaderExits,
       DetectAnomalies, RunSpark, Upload, WriteObservability, ValidateObservability
<1>4. CASE q = r
  <2>1. Active(r) => task[r] \in Task
    BY DEF Active
  <2>2. /\ "reset" \in Task /\ "start" \in Task /\ "truncate" \in Task /\ "contract" \in Task
    BY DEF Task, Chain
  <2>3. task[r] \in Task /\ Fail(r) => task'[r] \in Early
    BY <1>1, Attempts DEF ProcessOK, Early
  <2>4. CASE Trigger(r)
    BY <1>1, <1>2, <2>4 DEF Trigger, Early, ProcessOK
  <2>5. CASE Break(r)
    BY <1>2, <2>3, <2>5 DEF Break, Active
  <2>6. CASE ValidateContract(r)
    <3>1. Fail(r)
      BY <2>6 DEF ValidateContract, Exit
    <3> QED
      BY <1>2, <2>2, <2>3, <2>6, <3>1 DEF ValidateContract
  <2>7. CASE Reset(r) \/ StartInfrastructure(r) \/ Truncate(r)
    <3>1. task' = [task EXCEPT ![r] = After(task[r])]
          /\ task[r] \in {"reset", "start", "truncate"}
      BY <1>1, <2>2, <2>7, Attempts DEF Reset, StartInfrastructure, Truncate
    <3>2. task'[r] = After(task[r])
      BY <1>1, <3>1 DEF ProcessOK
    <3> QED
      BY <1>2, <3>1, <3>2, Successors DEF Early
  <2>8. ~ \/ Publish(r) \/ ProducerExits(r) \/ Relay(r) \/ ConsumerExits(r) \/ Load(r)
           \/ LoaderExits(r) \/ DetectAnomalies(r) \/ RunSpark(r) \/ Upload(r)
           \/ WriteObservability(r) \/ ValidateObservability(r)
    BY DEF Early, Publish, ProducerExits, Relay, ConsumerExits, Load, LoaderExits,
       DetectAnomalies, RunSpark, Upload, WriteObservability, ValidateObservability
  <2> QED
    BY <1>4, <2>4, <2>5, <2>6, <2>7, <2>8 DEF Progress
<1> QED
  BY <1>3, <1>4

\* No step of any run moves such a run on, or leaves a row of its.
LEMMA StopStep == TypeOK /\ StopInv /\ [Next]_vars => StopInv'
<1> SUFFICES ASSUME TypeOK, StopInv, [Next]_vars, NEW r \in Run, ~Conforms(r)'
             PROVE  Stopped(r)'
  BY DEF StopInv
<1> USE DEF kafka, lake, history
<1>1. CASE UNCHANGED vars
  BY <1>1 DEF vars, process, StopInv, Stopped, Conforms, NoRowIn, NoRowStored
<1>2. ASSUME NEW q \in Run, Trigger(q) \/ Progress(q) \/ Break(q)
      PROVE  Stopped(r)'
  <2>1. dataset' = dataset
    BY <1>2 DEF Trigger, Break, Progress, Reset, StartInfrastructure, Truncate,
       ValidateContract, Publish, ProducerExits, Relay, ConsumerExits, Load, LoaderExits,
       DetectAnomalies, RunSpark, Upload, WriteObservability, ValidateObservability
  <2>2. ~Conforms(r) /\ Stopped(r)
    BY <2>1 DEF StopInv, Conforms
  <2>3. task'[r] \in Early
    BY <1>2, <2>2, StaysEarly DEF Stopped
  <2>4. DataOK /\ ProcessOK /\ HistoryOK
    BY TypeParts
  <2>5. ASSUME raw' = raw, processed' = processed, table' = table, scans' = scans
        PROVE  Stopped(r)'
    BY <2>2, <2>3, <2>5 DEF Stopped, NoRowIn, NoRowStored
  <2>6. CASE Truncate(q)
    <3>1. raw' = raw /\ processed' = processed /\ scans' = scans
      BY <2>6 DEF Truncate
    <3>2. \A m \in Record : table'[m] = 0
      BY <2>6 DEF Truncate
    <3> QED
      BY <2>2, <2>3, <3>1, <3>2 DEF Stopped, NoRowIn, NoRowStored
  <2>7. CASE Publish(q)
    <3>1. q # r
      BY <2>2, <2>7 DEF Publish, Stopped, Early
    <3>2. NextRow(q) \in Record
      BY <2>4, <2>7, NextRowIsRecord
    <3>3. NextRow(q)[1] = q
      BY DEF NextRow
    <3>4. /\ raw' \in {raw, Append(raw, NextRow(q)), raw \o <<NextRow(q), NextRow(q)>>}
          /\ processed' = processed /\ table' = table /\ scans' = scans
      BY <2>7 DEF Publish
    <3>5. raw \in Seq(Record) /\ NoRowIn(raw, r)
      BY <2>2, <2>4 DEF DataOK, Stopped
    <3> DEFINE m == NextRow(q)
    <3>6. m \in Record /\ m[1] # r /\ raw' \in {raw, Append(raw, m), raw \o <<m, m>>}
      BY <3>1, <3>2, <3>3, <3>4
    <3> HIDE DEF m
    <3>7. NoRowIn(raw', r)
      BY <3>5, <3>6, AppendOther
    <3> QED
      BY <2>2, <2>3, <3>4, <3>7 DEF Stopped, NoRowIn, NoRowStored
  <2>8. CASE Relay(q)
    <3> DEFINE m == NextMessage(raw, q, "consumer")
    <3>1. /\ processed' \in {processed, Append(processed, m), processed \o <<m, m>>}
          /\ raw' = raw /\ table' = table /\ scans' = scans
          /\ Unread(raw, q, "consumer")
      BY <2>8 DEF Relay
    <3>2. raw \in Seq(Record) /\ processed \in Seq(Record) /\ "consumer" \in Group
      BY <2>4 DEF DataOK, Group
    <3>3. m \in Record /\ m[1] # r
      <4>1. /\ m \in Record /\ m = raw[Position(q, "consumer") + 1]
            /\ Position(q, "consumer") + 1 \in 1..Len(raw)
        BY <2>4, <3>1, <3>2, MessageRead
      <4> QED
        BY <2>2, <3>2, <4>1 DEF Stopped, NoRowIn
    <3> HIDE DEF m
    <3>4. NoRowIn(processed', r)
      <4>1. NoRowIn(processed, r)
        BY <2>2 DEF Stopped
      <4>2. NoRowIn(Append(processed, m), r) /\ NoRowIn(processed \o <<m, m>>, r)
        BY <3>2, <3>3, <4>1, AppendOther
      <4> QED
        BY <3>1, <4>1, <4>2
    <3> QED
      BY <2>2, <2>3, <3>1, <3>4 DEF Stopped, NoRowIn, NoRowStored
  <2>9. CASE Load(q)
    <3> DEFINE m == NextMessage(processed, q, "loader")
    <3>1. /\ table' \in {table, [table EXCEPT ![m] = @ + 1]}
          /\ raw' = raw /\ processed' = processed /\ scans' = scans
          /\ Unread(processed, q, "loader")
      BY <2>9 DEF Load
    <3>2. processed \in Seq(Record) /\ "loader" \in Group
      BY <2>4 DEF DataOK, Group
    <3>3. m \in Record /\ m[1] # r
      <4>1. /\ m \in Record /\ m = processed[Position(q, "loader") + 1]
            /\ Position(q, "loader") + 1 \in 1..Len(processed)
        BY <2>4, <3>1, <3>2, MessageRead
      <4> QED
        BY <2>2, <3>2, <4>1 DEF Stopped, NoRowIn
    <3> HIDE DEF m
    <3>4. \A k \in Record : k[1] = r => table'[k] = table[k]
      BY <2>4, <3>1, <3>3 DEF DataOK
    <3> QED
      BY <2>2, <2>3, <3>1, <3>4 DEF Stopped, NoRowIn, NoRowStored
  <2>10. CASE DetectAnomalies(q)
    <3>1. q # r
      BY <2>2, <2>10 DEF DetectAnomalies, Stopped, Early
    <3>2. scans' \in {scans, [scans EXCEPT ![q] = @ + 1]}
          /\ raw' = raw /\ processed' = processed /\ table' = table
      BY <2>10 DEF DetectAnomalies, Copied
    <3>3. scans'[r] = scans[r]
      BY <2>4, <3>1, <3>2 DEF DataOK
    <3> QED
      BY <2>2, <2>3, <3>2, <3>3 DEF Stopped, NoRowIn, NoRowStored
  <2>11. CASE \/ Trigger(q) \/ Break(q) \/ Reset(q) \/ StartInfrastructure(q)
              \/ ValidateContract(q) \/ ProducerExits(q) \/ ConsumerExits(q)
              \/ LoaderExits(q) \/ RunSpark(q) \/ Upload(q) \/ WriteObservability(q)
              \/ ValidateObservability(q)
    <3>1. raw' = raw /\ processed' = processed /\ table' = table /\ scans' = scans
      BY <2>11 DEF Trigger, Break, Reset, StartInfrastructure, ValidateContract,
         ProducerExits, ConsumerExits, LoaderExits, RunSpark, Upload, WriteObservability,
         ValidateObservability
    <3> QED
      BY <2>5, <3>1
  <2> QED
    BY <1>2, <2>6, <2>7, <2>8, <2>9, <2>10, <2>11 DEF Progress
<1> QED
  BY <1>1, <1>2 DEF Next

\* A data set that breaks the contract goes nowhere: the run publishes no row
\* of it, and no table has one, however runs overlap and tasks are retried.
THEOREM ContractStops == Spec => []ContractStopsRun
<1>1. Init => TypeOK /\ StopInv
  BY TypeInit, StopInit
<1>2. TypeOK /\ StopInv /\ [Next]_vars => (TypeOK /\ StopInv)'
  BY TypeStep, StopStep
<1>3. StopInv => ContractStopsRun
  BY DEF StopInv, Stopped, NoRowIn, NoRowStored, Early, ContractStopsRun
<1> QED
  BY <1>1, <1>2, <1>3, PTL DEF Spec

-----------------------------------------------------------------------------
(***************************************************************************)
(* What one run's step leaves alone.                                       *)
(***************************************************************************)

\* The tasks before the tables are truncated, those after the loading, and how
\* a run that was triggered may stand when it is over.
Before == {"idle", "reset", "start", "truncate"}
Later  == {"anomalies", "spark", "upload", "writer", "validate"}
Ended  == {"green", "failed"}

\* The whole chain.
LEMMA NextTask ==
  /\ Task = {"reset", "start", "truncate", "contract", "producer", "consumer", "loader"}
               \cup Later
  /\ After("reset") = "start" /\ After("start") = "truncate"
  /\ After("truncate") = "contract" /\ After("contract") = "producer"
  /\ After("producer") = "consumer" /\ After("consumer") = "loader"
  /\ After("loader") = "anomalies" /\ After("anomalies") = "spark"
  /\ After("spark") = "upload" /\ After("upload") = "writer"
  /\ After("writer") = "validate" /\ After("validate") = "green"
<1>1. Len(Chain) = 12 /\ DOMAIN Chain = 1..12
  BY DEF Chain
<1>2. /\ Chain[1] = "reset" /\ Chain[2] = "start" /\ Chain[3] = "truncate"
      /\ Chain[4] = "contract" /\ Chain[5] = "producer" /\ Chain[6] = "consumer"
      /\ Chain[7] = "loader" /\ Chain[8] = "anomalies" /\ Chain[9] = "spark"
      /\ Chain[10] = "upload" /\ Chain[11] = "writer" /\ Chain[12] = "validate"
  BY DEF Chain
<1>3. Task = {Chain[i] : i \in 1..12}
  BY <1>1 DEF Task
<1>4. Task = {"reset", "start", "truncate", "contract", "producer", "consumer", "loader"}
               \cup Later
  BY <1>2, <1>3 DEF Later
<1>5. \A j, k \in 1..12 : Chain[j] = Chain[k] => j = k
  BY <1>2
<1>6. ASSUME NEW k \in 1..12
      PROVE  After(Chain[k]) = IF k = 12 THEN "green" ELSE Chain[k + 1]
  <2> DEFINE i == CHOOSE i \in DOMAIN Chain : Chain[i] = Chain[k]
  <2>1. k \in DOMAIN Chain
    BY <1>1
  <2>2. i \in DOMAIN Chain /\ Chain[i] = Chain[k]
    BY <2>1
  <2>3. After(Chain[k]) = IF i = Len(Chain) THEN "green" ELSE Chain[i + 1]
    BY DEF After
  <2> HIDE DEF i
  <2>4. i = k
    BY <1>1, <1>5, <2>2
  <2> QED
    BY <1>1, <2>3, <2>4
<1>7. /\ After(Chain[1]) = Chain[2] /\ After(Chain[2]) = Chain[3] /\ After(Chain[3]) = Chain[4]
      /\ After(Chain[4]) = Chain[5] /\ After(Chain[5]) = Chain[6] /\ After(Chain[6]) = Chain[7]
      /\ After(Chain[7]) = Chain[8] /\ After(Chain[8]) = Chain[9] /\ After(Chain[9]) = Chain[10]
      /\ After(Chain[10]) = Chain[11] /\ After(Chain[11]) = Chain[12]
      /\ After(Chain[12]) = "green"
  BY <1>6
<1> QED
  BY <1>2, <1>4, <1>7

\* A run that works ends its attempt or handles one thing more.
LEMMA Outcome ==
  ASSUME NEW r \in Run, Progress(r) \/ Break(r)
  PROVE  /\ task[r] \in Task
         /\ \/ Succeed(r) \/ Fail(r)
            \/ (\E bad \in BOOLEAN : Step(r, bad)) /\ (Publish(r) \/ Relay(r) \/ Load(r))
<1>1. CASE Break(r)
  BY <1>1 DEF Break, Active
<1>2. CASE Publish(r) \/ Relay(r) \/ Load(r)
  <2>1. task[r] \in Task
    BY <1>2, NextTask DEF Publish, Relay, Load
  <2>2. CASE Publish(r)
    <3>1. Step(r, TRUE) \/ Step(r, FALSE)
      BY <2>2 DEF Publish
    <3> QED
      BY <2>1, <2>2, <3>1
  <2>3. CASE Relay(r)
    <3>1. Fail(r) \/ \E bad \in BOOLEAN : Step(r, bad)
      BY <2>3 DEF Relay
    <3> QED
      BY <2>1, <2>3, <3>1
  <2>4. CASE Load(r)
    <3> DEFINE m == NextMessage(processed, r, "loader")
               poison == dataset[m[1]][m[2]] = "unstorable"
    <3>1. Step(r, poison) \/ Fail(r) \/ Step(r, TRUE)
      BY <2>4 DEF Load
    <3>2. poison \in BOOLEAN
      OBVIOUS
    <3> HIDE DEF poison
    <3> QED
      BY <2>1, <2>4, <3>1, <3>2
  <2> QED
    BY <1>2, <2>2, <2>3, <2>4
<1>3. CASE \/ Reset(r) \/ StartInfrastructure(r) \/ Truncate(r) \/ ValidateContract(r)
           \/ ProducerExits(r) \/ ConsumerExits(r) \/ LoaderExits(r) \/ DetectAnomalies(r)
           \/ RunSpark(r) \/ Upload(r) \/ WriteObservability(r) \/ ValidateObservability(r)
  <2>1. task[r] \in Task
    BY <1>3, NextTask DEF Reset, StartInfrastructure, Truncate, ValidateContract, ProducerExits,
       ConsumerExits, LoaderExits, DetectAnomalies, RunSpark, Upload, WriteObservability,
       ValidateObservability, Later
  <2>2. \A ok : Exit(r, ok) => Succeed(r) \/ Fail(r)
    BY DEF Exit
  <2>3. Succeed(r) \/ Fail(r)
    BY <1>3, <2>2 DEF Reset, StartInfrastructure, Truncate, ValidateContract, ProducerExits,
       ConsumerExits, LoaderExits, DetectAnomalies, RunSpark, Upload, WriteObservability,
       ValidateObservability
  <2> QED
    BY <2>1, <2>3
<1> QED
  BY <1>1, <1>2, <1>3 DEF Progress

\* What belongs to run r stays as it is when another run works.
LEMMA OthersLeaveAlone ==
  ASSUME TypeOK, NEW r \in Run, NEW q \in Run, q # r, Trigger(q) \/ Progress(q) \/ Break(q)
  PROVE  /\ task'[r] = task[r] /\ attempt'[r] = attempt[r]
         /\ handled'[r] = handled[r] /\ failed'[r] = failed[r]
         /\ offset'[r] = offset[r] /\ scans'[r] = scans[r] /\ audit'[r] = audit[r]
         /\ faults'[r] = faults[r] /\ dataset' = dataset
<1> USE DEF kafka, lake, history
<1>1. ProcessOK /\ DataOK /\ HistoryOK
  BY TypeParts
<1>2. /\ task'[r] = task[r] /\ attempt'[r] = attempt[r]
      /\ handled'[r] = handled[r] /\ failed'[r] = failed[r]
  <2>1. \A t, n : Begin(q, t, n) =>
          /\ task'[r] = task[r] /\ attempt'[r] = attempt[r]
          /\ handled'[r] = handled[r] /\ failed'[r] = failed[r]
    BY <1>1 DEF Begin, ProcessOK
  <2>2. \A bad : Step(q, bad) =>
          /\ task'[r] = task[r] /\ attempt'[r] = attempt[r]
          /\ handled'[r] = handled[r] /\ failed'[r] = failed[r]
    BY <1>1 DEF Step, ProcessOK
  <2>3. CASE Trigger(q)
    BY <2>3, <1>1 DEF Trigger, ProcessOK
  <2>4. CASE Progress(q) \/ Break(q)
    BY <2>1, <2>2, <2>4, Outcome DEF Succeed, Fail
  <2> QED
    BY <2>3, <2>4
<1>3. dataset' = dataset
  BY DEF Trigger, Break, Progress, Reset, StartInfrastructure, Truncate, ValidateContract,
     Publish, ProducerExits, Relay, ConsumerExits, Load, LoaderExits, DetectAnomalies,
     RunSpark, Upload, WriteObservability, ValidateObservability
<1>4. faults'[r] = faults[r]
  <2>1. Fault(q) => faults'[r] = faults[r]
    BY <1>1 DEF Fault, HistoryOK
  <2>2. Fault(q) \/ faults' = faults
    BY DEF Trigger, Break, Progress, Reset, StartInfrastructure, Truncate, ValidateContract,
       Publish, ProducerExits, Relay, ConsumerExits, Load, LoaderExits, DetectAnomalies,
       RunSpark, Upload, WriteObservability, ValidateObservability
  <2> QED
    BY <2>1, <2>2
<1>5. offset'[r] = offset[r]
  <2>1. \A g \in Group : Advanced(q, g)[r] = offset[r]
    BY <1>1 DEF Advanced, DataOK
  <2>2. offset' = offset \/ \E g \in Group : offset' = Advanced(q, g)
    BY DEF Trigger, Break, Progress, Reset, StartInfrastructure, Truncate, ValidateContract,
       Publish, ProducerExits, Relay, ConsumerExits, Load, LoaderExits, DetectAnomalies,
       RunSpark, Upload, WriteObservability, ValidateObservability, Group
  <2> QED
    BY <2>1, <2>2
<1>6. scans'[r] = scans[r]
  <2>1. Copied(q)[r] = scans[r]
    BY <1>1 DEF Copied, DataOK
  <2>2. scans' = scans \/ scans' = Copied(q)
    BY DEF Trigger, Break, Progress, Reset, StartInfrastructure, Truncate, ValidateContract,
       Publish, ProducerExits, Relay, ConsumerExits, Load, LoaderExits, DetectAnomalies,
       RunSpark, Upload, WriteObservability, ValidateObservability
  <2> QED
    BY <2>1, <2>2
<1>7. audit'[r] = audit[r]
  <2>1. audit' = audit \/ audit' = [audit EXCEPT ![q] = 1]
    BY DEF Trigger, Break, Progress, Reset, StartInfrastructure, Truncate, ValidateContract,
       Publish, ProducerExits, Relay, ConsumerExits, Load, LoaderExits, DetectAnomalies,
       RunSpark, Upload, WriteObservability, ValidateObservability
  <2> QED
    BY <2>1, <1>1 DEF DataOK
<1> QED
  BY <1>2, <1>3, <1>4, <1>5, <1>6, <1>7

\* What a step of run r makes of r itself.
LEMMA OwnStep ==
  ASSUME TypeOK, NEW r \in Run, Progress(r) \/ Break(r)
  PROVE  /\ task[r] \in Task
         /\ \/ /\ Succeed(r) /\ task'[r] = After(task[r]) /\ attempt'[r] = 1
               /\ handled'[r] = 0 /\ failed'[r] = 0
            \/ /\ Fail(r) /\ task'[r] \in {task[r], "failed"}
               /\ task'[r] = task[r] => attempt[r] = 1 /\ attempt'[r] = 2
               /\ handled'[r] = 0 /\ failed'[r] = 0
            \/ /\ task'[r] = task[r] /\ attempt'[r] = attempt[r] /\ handled'[r] = handled[r] + 1
               /\ failed'[r] \in {failed[r], failed[r] + 1}
               /\ Publish(r) \/ Relay(r) \/ Load(r)
         /\ faults'[r] \in {faults[r], faults[r] + 1}
         /\ dataset' = dataset /\ alone' = alone /\ empty' = empty
<1> USE DEF kafka, lake, history
<1>1. ProcessOK /\ HistoryOK
  BY TypeParts
<1>2. \A t, n : Begin(r, t, n) =>
        task'[r] = t /\ attempt'[r] = n /\ handled'[r] = 0 /\ failed'[r] = 0
  BY <1>1 DEF Begin, ProcessOK
<1>3. \A bad \in BOOLEAN : Step(r, bad) =>
        /\ task'[r] = task[r] /\ attempt'[r] = attempt[r] /\ handled'[r] = handled[r] + 1
        /\ failed'[r] \in {failed[r], failed[r] + 1}
  BY <1>1 DEF Step, ProcessOK
<1>4. Fault(r) => faults'[r] = faults[r] + 1
  BY <1>1 DEF Fault, HistoryOK
<1>5. /\ Fault(r) \/ faults' = faults
      /\ dataset' = dataset /\ alone' = alone /\ empty' = empty
  BY DEF Break, Progress, Reset, StartInfrastructure, Truncate, ValidateContract,
     Publish, ProducerExits, Relay, ConsumerExits, Load, LoaderExits, DetectAnomalies,
     RunSpark, Upload, WriteObservability, ValidateObservability
<1>6. task[r] \in Task /\ "failed" \notin Task
  BY Outcome, NextTask DEF Later
<1>7. Succeed(r) => task'[r] = After(task[r]) /\ attempt'[r] = 1 /\ handled'[r] = 0 /\ failed'[r] = 0
  BY <1>2 DEF Succeed
<1>8. Fail(r) => /\ task'[r] \in {task[r], "failed"} /\ handled'[r] = 0 /\ failed'[r] = 0
                 /\ task'[r] = task[r] => attempt[r] = 1 /\ attempt'[r] = 2
  BY <1>2, <1>6 DEF Fail
<1> QED
  BY <1>3, <1>4, <1>5, <1>6, <1>7, <1>8, Outcome

\* What a step of run q makes of what the runs share.
LEMMA SharedStep ==
  ASSUME TypeOK, NEW q \in Run, Trigger(q) \/ Progress(q) \/ Break(q)
  PROVE  /\ \/ raw' = raw
            \/ /\ Publish(q)
               /\ raw' \in {Append(raw, NextRow(q)), raw \o <<NextRow(q), NextRow(q)>>}
         /\ \/ processed' = processed
            \/ /\ Relay(q)
               /\ LET m == NextMessage(raw, q, "consumer")
                  IN  processed' \in {Append(processed, m), processed \o <<m, m>>}
         /\ \/ offset' = offset
            \/ Relay(q) /\ offset' = Advanced(q, "consumer")
            \/ Load(q) /\ offset' = Advanced(q, "loader")
         /\ \/ table' = table
            \/ Truncate(q)
            \/ Load(q) /\ table' = [table EXCEPT ![NextMessage(processed, q, "loader")] = @ + 1]
         /\ up' = up \/ up' = TRUE \/ Reset(q)
         /\ owner' = owner \/ (Truncate(q) /\ owner' = q)
<1> USE DEF kafka, lake, history
<1>1. CASE \/ Trigger(q) \/ Break(q) \/ ValidateContract(q) \/ ProducerExits(q)
           \/ DetectAnomalies(q) \/ RunSpark(q) \/ Upload(q) \/ WriteObservability(q)
           \/ ValidateObservability(q)
  BY <1>1 DEF Trigger, Break, ValidateContract, ProducerExits, DetectAnomalies, RunSpark, Upload,
     WriteObservability, ValidateObservability
<1>2. CASE Reset(q) \/ StartInfrastructure(q) \/ Truncate(q)
  BY <1>2 DEF Reset, StartInfrastructure, Truncate
<1>3. CASE ConsumerExits(q) \/ LoaderExits(q)
  BY <1>3 DEF ConsumerExits, LoaderExits, Compose
<1>4. CASE Publish(q)
  BY <1>4 DEF Publish, Compose
<1>5. CASE Relay(q)
  BY <1>5 DEF Relay, Compose
<1>6. CASE Load(q)
  BY <1>6 DEF Load, Compose
<1> QED
  BY <1>1, <1>2, <1>3, <1>4, <1>5, <1>6 DEF Progress

\* The types after a step.
LEMMA StepTypes ==
  ASSUME TypeOK, NEW q \in Run, Trigger(q) \/ Progress(q) \/ Break(q)
  PROVE  /\ TypeOK'
         /\ raw' \in Seq(Record) /\ processed' \in Seq(Record)
         /\ offset' \in [Run -> [Group -> Nat]] /\ table' \in [Record -> Nat]
<1>1. TypeOK'
  BY TypeStep DEF Next
<1> QED
  BY <1>1 DEF TypeOK

\* Where an offset is after a commit.
LEMMA Commits ==
  ASSUME TypeOK, NEW r \in Run, NEW g \in Group, offset' = Advanced(r, g)
  PROVE  /\ offset'[r][g] = offset[r][g] + 1
         /\ \A h \in Group \ {g} : offset'[r][h] = offset[r][h]
         /\ \A q \in Run \ {r} : offset'[q] = offset[q]
<1>1. offset \in [Run -> [Group -> Nat]] /\ offset[r] \in [Group -> Nat]
  BY DEF TypeOK
<1>2. offset' = [offset EXCEPT ![r] = [offset[r] EXCEPT ![g] = @ + 1]]
  BY <1>1 DEF Advanced
<1>3. offset'[r] = [offset[r] EXCEPT ![g] = @ + 1]
  BY <1>1, <1>2
<1> QED
  BY <1>1, <1>2, <1>3

-----------------------------------------------------------------------------
(***************************************************************************)
(* Where the runs are while one of them is alone.                          *)
(***************************************************************************)

\* Nobody else works while a run that is alone does; once it has truncated the
\* tables, nobody else gets beyond the truncation without taking them over.
Exclusive(r) ==
    /\ alone[r] /\ Active(r) => \A q \in Run \ {r} : ~Active(q)
    /\ alone[r] /\ owner = r => \A q \in Run \ {r} : task[q] \in Before \cup Ended

\* What the task of a run says of the shared state.
Placed(r) ==
    /\ owner = r => task[r] \notin Before
    /\ task[r] = "idle" => alone[r]
    /\ alone[r] /\ Active(r) /\ task[r] \notin {"reset", "start"} => up
    /\ alone[r] /\ empty[r] /\ Active(r) /\ task[r] \in Before => raw = <<>> /\ processed = <<>>
    /\ alone[r] /\ Active(r) /\ task[r] \notin Before => owner = r
    /\ task[r] \in Before \cup {"contract", "producer"} => offset[r]["consumer"] = 0
    /\ task[r] \in Before \cup {"contract", "producer", "consumer"} => offset[r]["loader"] = 0
    /\ offset[r]["consumer"] <= Len(raw) /\ offset[r]["loader"] <= Len(processed)
    /\ task[r] = "producer" => failed[r] <= handled[r] /\ handled[r] <= Rows(r)

FrameInv == \A r \in Run : Exclusive(r) /\ Placed(r)

\* A run that is alone and works after a step of another run was not.
LEMMA NobodyElse ==
  ASSUME TypeOK, FrameInv, NEW r \in Run, NEW q \in Run, q # r,
         Trigger(q) \/ Progress(q) \/ Break(q), alone'[r], Active(r)'
  PROVE  FALSE
<1>1. task'[r] = task[r] /\ task[r] \in Task /\ Active(r)
  BY OthersLeaveAlone DEF Active
<1>2. CASE Trigger(q)
  <2>1. r \in {p \in Run : Active(p)}
    BY <1>1
  <2> QED
    BY <1>2, <2>1 DEF Trigger
<1>3. CASE Progress(q) \/ Break(q)
  <2>1. Active(q)
    BY <1>3, OwnStep DEF Active
  <2>2. alone[r]
    BY <1>3, OwnStep
  <2> QED
    BY <1>1, <2>1, <2>2 DEF FrameInv, Exclusive
<1> QED
  BY <1>2, <1>3

\* A run leaves its tables to nobody before they are truncated.
LEMMA Truncates ==
  ASSUME TypeOK, NEW q \in Run, Progress(q) \/ Break(q), task[q] \in Before
  PROVE  \/ task'[q] \in Before \cup {"failed"} /\ owner' = owner
         \/ Truncate(q) /\ task'[q] = "contract" /\ owner' = q
<1>1. task[q] \in {"reset", "start", "truncate"} /\ ~Publish(q) /\ ~Relay(q) /\ ~Load(q)
  BY OwnStep, NextTask DEF Before, Publish, Relay, Load, Later
<1>2. task'[q] \in {task[q], "failed"} \/ (Succeed(q) /\ task'[q] = After(task[q]))
  BY <1>1, OwnStep
<1>3. CASE Truncate(q)
  <2>1. owner' = q /\ task[q] = "truncate" /\ Succeed(q)
    BY <1>3 DEF Truncate
  <2>2. task'[q] = "contract"
    BY <2>1, NextTask, TypeParts DEF Succeed, Begin, ProcessOK
  <2> QED
    BY <1>3, <2>1, <2>2
<1>4. CASE ~Truncate(q)
  <2>1. owner' = owner
    BY <1>4, SharedStep
  <2>2. task'[q] # "contract"
    <3>1. CASE task[q] = "truncate"
      <4>1. Break(q)
        BY <1>4, <3>1 DEF Progress, Reset, StartInfrastructure, ValidateContract, Publish,
           ProducerExits, Relay, ConsumerExits, Load, LoaderExits, DetectAnomalies, RunSpark,
           Upload, WriteObservability, ValidateObservability
      <4>2. Fail(q)
        BY <4>1 DEF Break
      <4> QED
        BY <3>1, <4>2, TypeParts DEF Fail, Begin, ProcessOK
    <3>2. CASE task[q] # "truncate"
      BY <1>1, <1>2, <3>2, NextTask
    <3> QED
      BY <3>1, <3>2
  <2> QED
    BY <1>1, <1>2, <2>1, <2>2, NextTask DEF Before
<1> QED
  BY <1>3, <1>4

\* No step lets another run work beside one that is alone.
LEMMA ExclusiveStep ==
  ASSUME TypeOK, FrameInv, NEW r \in Run, NEW q \in Run, Trigger(q) \/ Progress(q) \/ Break(q)
  PROVE  Exclusive(r)'
<1>1. ProcessOK /\ HistoryOK
  BY TypeParts
<1>2. Exclusive(r) /\ Placed(r)
  BY DEF FrameInv
<1>3. \A p \in Run \ {q} : task'[p] = task[p]
  BY OthersLeaveAlone
<1>4. ASSUME alone'[r], Active(r)', NEW p \in Run \ {r}
      PROVE  ~Active(p)'
  <2>1. q = r
    BY <1>4, NobodyElse
  <2>2. task'[p] = task[p]
    BY <1>3, <2>1
  <2>3. ~Active(p)
    <3>1. CASE Trigger(r)
      <4>1. {x \in Run : Active(x)} = {}
        BY <1>1, <1>4, <3>1 DEF Trigger, HistoryOK
      <4> QED
        BY <4>1
    <3>2. CASE Progress(r) \/ Break(r)
      BY <1>2, <1>4, <3>2, OwnStep DEF Exclusive, Active
    <3> QED
      BY <2>1, <3>1, <3>2
  <2> QED
    BY <2>2, <2>3 DEF Active
<1>5. ASSUME alone'[r], owner' = r, NEW p \in Run \ {r}
      PROVE  task'[p] \in Before \cup Ended
  <2>1. alone[r]
    <3>1. CASE Trigger(q)
      BY <1>1, <1>5, <3>1 DEF Trigger, HistoryOK
    <3>2. CASE Progress(q) \/ Break(q)
      BY <1>5, <3>2, OwnStep
    <3> QED
      BY <3>1, <3>2
  <2>2. CASE owner = r
    <3>1. task[p] \in Before \cup Ended
      BY <1>2, <2>1, <2>2 DEF Exclusive
    <3>2. CASE p # q
      BY <1>3, <3>1, <3>2
    <3>3. CASE p = q /\ Trigger(q)
      BY <1>1, <3>3 DEF Trigger, ProcessOK, Before
    <3>4. CASE p = q /\ (Progress(q) \/ Break(q))
      <4>1. task[q] \in Task
        BY <3>4, OwnStep
      <4>2. task[q] \in Before
        BY <3>1, <3>4, <4>1, NextTask DEF Ended, Before, Later
      <4> QED
        BY <1>5, <3>4, <4>2, Truncates DEF Ended
    <3> QED
      BY <3>2, <3>3, <3>4
  <2>3. CASE owner # r
    <3>1. q = r /\ Truncate(r)
      BY <1>5, <2>3, SharedStep
    <3>2. Active(r)
      BY <3>1, NextTask DEF Truncate, Active
    <3>3. ~Active(p) /\ task'[p] = task[p]
      BY <1>2, <1>3, <2>1, <3>1, <3>2 DEF Exclusive
    <3> QED
      BY <1>1, <3>3 DEF Active, ProcessOK, Before, Ended
  <2> QED
    BY <2>2, <2>3
<1> QED
  BY <1>4, <1>5 DEF Exclusive

\* A step of run r itself keeps what its task says, but for the offsets.
LEMMA PlacedOwn ==
  ASSUME TypeOK, FrameInv, NEW r \in Run, Progress(r) \/ Break(r)
  PROVE  /\ owner' = r => task'[r] \notin Before
         /\ task'[r] # "idle"
         /\ alone'[r] /\ Active(r)' /\ task'[r] \notin {"reset", "start"} => up'
         /\ alone'[r] /\ empty'[r] /\ Active(r)' /\ task'[r] \in Before =>
                raw' = <<>> /\ processed' = <<>>
         /\ alone'[r] /\ Active(r)' /\ task'[r] \notin Before => owner' = r
<1>1. Placed(r) /\ Active(r) /\ task[r] \in Task /\ alone' = alone /\ empty' = empty
  BY OwnStep DEF FrameInv, Active
<1>2. /\ task'[r] \in {task[r], "failed", After(task[r])}
  BY OwnStep
<1>3. task[r] \notin Before => task'[r] \notin Before
  BY <1>1, <1>2, NextTask DEF Before, Later
<1>4. owner' = r => task'[r] \notin Before
  <2>1. CASE task[r] \in Before
    BY <1>1, <2>1, Truncates DEF Before, Placed
  <2>2. CASE task[r] \notin Before
    BY <1>3, <2>2
  <2> QED
    BY <2>1, <2>2
<1>5. task'[r] # "idle"
  BY <1>1, <1>2, NextTask DEF Later
<1>6. alone'[r] /\ Active(r)' /\ task'[r] \notin {"reset", "start"} => up'
  <2>1. CASE task[r] \in {"reset", "start"}
    <3>1. CASE task'[r] \in {task[r], "failed"}
      BY <2>1, <3>1, NextTask DEF Active, Later
    <3>2. CASE task'[r] = After(task[r]) /\ task'[r] \notin {task[r], "failed"}
      <4>1. ~Fail(r)
        BY <3>2, TypeParts DEF Fail, Begin, ProcessOK
      <4>2. Reset(r) \/ StartInfrastructure(r)
        BY <2>1, <4>1 DEF Break, Progress, Truncate, ValidateContract, Publish,
           ProducerExits, Relay, ConsumerExits, Load, LoaderExits, DetectAnomalies, RunSpark,
           Upload, WriteObservability, ValidateObservability
      <4>3. CASE Reset(r)
        BY <3>2, <4>3, NextTask DEF Reset
      <4>4. CASE StartInfrastructure(r)
        BY <4>4 DEF StartInfrastructure
      <4> QED
        BY <4>2, <4>3, <4>4
    <3> QED
      BY <1>2, <3>1, <3>2
  <2>2. CASE task[r] \notin {"reset", "start"}
    BY <1>1, <2>2, SharedStep DEF Reset, Placed
  <2> QED
    BY <2>1, <2>2
<1>7. alone'[r] /\ empty'[r] /\ Active(r)' /\ task'[r] \in Before =>
          raw' = <<>> /\ processed' = <<>>
  <2>1. task[r] \in Before => ~Publish(r) /\ ~Relay(r) /\ ~Trigger(r)
    BY <1>1, NextTask DEF Publish, Relay, Before, Trigger, Later
  <2> QED
    BY <1>1, <1>3, <2>1, SharedStep DEF Placed
<1>8. alone'[r] /\ Active(r)' /\ task'[r] \notin Before => owner' = r
  <2>1. CASE task[r] \in Before
    BY <2>1, Truncates, NextTask DEF Active, Later
  <2>2. CASE task[r] \notin Before
    BY <1>1, <2>2, SharedStep DEF Placed
  <2> QED
    BY <2>1, <2>2
<1> QED
  BY <1>4, <1>5, <1>6, <1>7, <1>8

\* The offsets of run r: zero until its consumer, or its loader, begins.
LEMMA PlacedOffsets ==
  ASSUME TypeOK, FrameInv, NEW r \in Run, NEW q \in Run, Trigger(q) \/ Progress(q) \/ Break(q)
  PROVE  /\ task'[r] \in Before \cup {"contract", "producer"} => offset'[r]["consumer"] = 0
         /\ task'[r] \in Before \cup {"contract", "producer", "consumer"} =>
                offset'[r]["loader"] = 0
         /\ offset'[r]["consumer"] <= Len(raw') /\ offset'[r]["loader"] <= Len(processed')
<1>1. ProcessOK /\ DataOK /\ Placed(r)
  BY TypeParts DEF FrameInv
<1>2. "consumer" \in Group /\ "loader" \in Group
  BY DEF Group
<1>3. Len(raw) <= Len(raw') /\ Len(processed) <= Len(processed')
  <2>1. \A T \in Seq(Record), m \in Record :
            Len(T) <= Len(Append(T, m)) /\ Len(T) <= Len(T \o <<m, m>>)
    OBVIOUS
  <2>2. raw' = raw \/ (NextRow(q) \in Record
                       /\ raw' \in {Append(raw, NextRow(q)), raw \o <<NextRow(q), NextRow(q)>>})
    BY SharedStep, NextRowIsRecord, TypeParts
  <2>3. Len(raw) <= Len(raw')
    <3> DEFINE m == NextRow(q)
    <3>1. raw' = raw \/ (m \in Record /\ raw' \in {Append(raw, m), raw \o <<m, m>>})
      BY <2>2
    <3> HIDE DEF m
    <3> QED
      BY <1>1, <2>1, <3>1 DEF DataOK
  <2> DEFINE m == NextMessage(raw, q, "consumer")
  <2>4. processed' = processed
           \/ (Relay(q) /\ processed' \in {Append(processed, m), processed \o <<m, m>>})
    BY SharedStep
  <2>5. Relay(q) => m \in Record
    BY <1>1, <1>2, MessageRead DEF Relay, DataOK
  <2> HIDE DEF m
  <2> QED
    BY <1>1, <2>1, <2>3, <2>4, <2>5 DEF DataOK
<1>4. CASE offset'[r] = offset[r]
  <2>1. /\ task'[r] \in Before \cup {"contract", "producer"} =>
               task[r] \in Before \cup {"contract", "producer"}
        /\ task'[r] \in Before \cup {"contract", "producer", "consumer"} =>
               task[r] \in Before \cup {"contract", "producer", "consumer"}
    <3>1. CASE q # r
      BY <3>1, OthersLeaveAlone
    <3>2. CASE q = r /\ Trigger(r)
      BY <3>2 DEF Trigger, Before
    <3>3. CASE q = r /\ (Progress(r) \/ Break(r))
      <4>1. task[r] \in Task /\ task'[r] \in {task[r], "failed", After(task[r])}
        BY <3>3, OwnStep
      <4> QED
        BY <4>1, NextTask DEF Before, Later
    <3> QED
      BY <3>1, <3>2, <3>3
  <2>2. /\ offset[r]["consumer"] \in Nat /\ offset[r]["loader"] \in Nat
        /\ Len(raw) \in Nat /\ Len(raw') \in Nat
        /\ Len(processed) \in Nat /\ Len(processed') \in Nat
    <3>1. raw' \in Seq(Record) /\ processed' \in Seq(Record)
      BY StepTypes
    <3>2. raw \in Seq(Record) /\ processed \in Seq(Record) /\ offset[r] \in [Group -> Nat]
      BY <1>1 DEF DataOK
    <3>3. offset[r]["consumer"] \in Nat /\ offset[r]["loader"] \in Nat
      BY <1>2, <3>2
    <3> QED
      BY <3>1, <3>2, <3>3
  <2> QED
    BY <1>1, <1>3, <1>4, <2>1, <2>2 DEF Placed
<1>5. CASE Relay(r) /\ offset' = Advanced(r, "consumer")
  <2>1. task[r] = "consumer" /\ offset[r]["consumer"] < Len(raw) /\ raw' = raw
    BY <1>5 DEF Relay, Unread, Position
  <2>2. task'[r] \notin Before \cup {"contract", "producer"}
    <3>1. task'[r] \in {task[r], "failed", After(task[r])}
      BY <1>5, OwnStep DEF Progress
    <3> QED
      BY <2>1, <3>1, NextTask DEF Before
  <2>3. offset'[r]["consumer"] = offset[r]["consumer"] + 1 /\ offset'[r]["loader"] = offset[r]["loader"]
    BY <1>2, <1>5, Commits
  <2>4. offset[r]["consumer"] \in Nat /\ offset[r]["loader"] \in Nat /\ Len(raw) \in Nat
        /\ Len(processed) \in Nat /\ Len(processed') \in Nat
    <3>1. raw' \in Seq(Record) /\ processed' \in Seq(Record)
      BY StepTypes
    <3>2. raw \in Seq(Record) /\ processed \in Seq(Record) /\ offset[r] \in [Group -> Nat]
      BY <1>1 DEF DataOK
    <3>3. offset[r]["consumer"] \in Nat /\ offset[r]["loader"] \in Nat
      BY <1>2, <3>2
    <3> QED
      BY <3>1, <3>2, <3>3
  <2> QED
    BY <1>1, <1>3, <2>1, <2>2, <2>3, <2>4 DEF Placed
<1>6. CASE Load(r) /\ offset' = Advanced(r, "loader")
  <2>1. /\ task[r] = "loader" /\ offset[r]["loader"] < Len(processed)
        /\ processed' = processed /\ raw' = raw
    BY <1>6 DEF Load, Unread, Position
  <2>2. task'[r] \notin Before \cup {"contract", "producer", "consumer"}
    <3>1. task'[r] \in {task[r], "failed", After(task[r])}
      BY <1>6, OwnStep DEF Progress
    <3> QED
      BY <2>1, <3>1, NextTask DEF Before
  <2>3. offset'[r]["loader"] = offset[r]["loader"] + 1 /\ offset'[r]["consumer"] = offset[r]["consumer"]
    BY <1>2, <1>6, Commits
  <2>4. offset[r]["consumer"] \in Nat /\ offset[r]["loader"] \in Nat /\ Len(raw) \in Nat
        /\ Len(processed) \in Nat
    BY <1>1, <1>2 DEF DataOK
  <2> QED
    BY <1>1, <2>1, <2>2, <2>3, <2>4 DEF Placed
<1>7. \/ offset'[r] = offset[r]
      \/ Relay(r) /\ offset' = Advanced(r, "consumer")
      \/ Load(r) /\ offset' = Advanced(r, "loader")
  <2>1. CASE q = r
    BY <2>1, SharedStep
  <2>2. CASE q # r
    BY <2>2, OthersLeaveAlone
  <2> QED
    BY <2>1, <2>2
<1> QED
  BY <1>4, <1>5, <1>6, <1>7

\* The rows a producer counts as failed are among those it has handled, and
\* those among the rows of its data set.
LEMMA PlacedProducer ==
  ASSUME TypeOK, FrameInv, NEW r \in Run, NEW q \in Run, Trigger(q) \/ Progress(q) \/ Break(q),
         task'[r] = "producer"
  PROVE  failed'[r] <= handled'[r] /\ handled'[r] <= Rows(r)'
<1>1. ProcessOK /\ HistoryOK /\ Placed(r)
  BY TypeParts DEF FrameInv
<1>2. Rows(r) \in Nat \ {0} /\ handled[r] \in Nat /\ failed[r] \in Nat
  BY <1>1, RowsOfRun, DagAssumption DEF ProcessOK, HistoryOK
<1>3. CASE q # r
  BY <1>1, <1>3, OthersLeaveAlone DEF Placed, Rows
<1>4. CASE q = r /\ Trigger(r)
  BY <1>1, <1>4 DEF Trigger, ProcessOK
<1>5. CASE q = r /\ (Progress(r) \/ Break(r))
  <2>1. Rows(r)' = Rows(r)
    BY <1>5, OwnStep DEF Rows
  <2>2. CASE handled'[r] = 0 /\ failed'[r] = 0
    BY <1>2, <2>1, <2>2
  <2>3. CASE /\ task'[r] = task[r] /\ handled'[r] = handled[r] + 1
             /\ failed'[r] \in {failed[r], failed[r] + 1} /\ (Publish(r) \/ Relay(r) \/ Load(r))
    <3>1. task[r] = "producer" /\ handled[r] < Rows(r)
      BY <2>3 DEF Publish, Relay, Load
    <3> QED
      BY <1>1, <1>2, <2>1, <2>3, <3>1 DEF Placed
  <2> QED
    BY <1>5, <2>2, <2>3, OwnStep
<1> QED
  BY <1>3, <1>4, <1>5

\* What the runs' tasks say of the shared state holds in every state.
LEMMA FrameStep == TypeOK /\ FrameInv /\ [Next]_vars => FrameInv'
<1> SUFFICES ASSUME TypeOK, FrameInv, [Next]_vars, NEW r \in Run
             PROVE  Exclusive(r)' /\ Placed(r)'
  BY DEF FrameInv
<1>1. CASE UNCHANGED vars
  BY <1>1 DEF vars, process, kafka, lake, history, FrameInv, Exclusive, Placed, Active, Rows
<1>2. ASSUME NEW q \in Run, Trigger(q) \/ Progress(q) \/ Break(q)
      PROVE  Exclusive(r)' /\ Placed(r)'
  <2>1. Exclusive(r)'
    BY <1>2, ExclusiveStep
  <2>2. /\ owner' = r => task'[r] \notin Before
        /\ task'[r] = "idle" => alone'[r]
        /\ alone'[r] /\ Active(r)' /\ task'[r] \notin {"reset", "start"} => up'
        /\ alone'[r] /\ empty'[r] /\ Active(r)' /\ task'[r] \in Before =>
               raw' = <<>> /\ processed' = <<>>
        /\ alone'[r] /\ Active(r)' /\ task'[r] \notin Before => owner' = r
    <3>1. CASE q = r /\ (Progress(r) \/ Break(r))
      BY <3>1, PlacedOwn
    <3>2. CASE q = r /\ Trigger(r)
      <4>1. task[r] = "idle" /\ task'[r] = "reset" /\ owner' = owner
            /\ raw' = raw /\ processed' = processed
            /\ empty'[r] = (raw = <<>> /\ processed = <<>>)
        BY <3>2 DEF Trigger, TypeOK, kafka
      <4>2. owner # r
        BY <4>1 DEF FrameInv, Placed, Before
      <4> QED
        BY <4>1, <4>2 DEF Before
    <3>3. CASE q # r
      <4>1. ~(alone'[r] /\ Active(r)')
        BY <1>2, <3>3, NobodyElse
      <4>2. task'[r] = task[r] /\ (owner' = r => owner = r)
        BY <1>2, <3>3, OthersLeaveAlone, SharedStep
      <4>3. task[r] = "idle" => alone'[r]
        <5>1. task[r] = "idle" => alone[r]
          BY DEF FrameInv, Placed
        <5>2. task[r] = "idle" => ~Active(r)
          BY NextTask DEF Active, Later
        <5>3. CASE Trigger(q)
          BY <3>3, <5>1, <5>2, <5>3 DEF Trigger
        <5>4. CASE Progress(q) \/ Break(q)
          BY <5>1, <5>4, OwnStep
        <5> QED
          BY <1>2, <5>3, <5>4
      <4>4. owner = r => task[r] \notin Before
        BY DEF FrameInv, Placed
      <4> QED
        BY <4>1, <4>2, <4>3, <4>4
    <3> QED
      BY <1>2, <3>1, <3>2, <3>3
  <2>3. Placed(r)'
    BY <1>2, <2>2, PlacedOffsets, PlacedProducer DEF Placed
  <2> QED
    BY <2>1, <2>3
<1> QED
  BY <1>1, <1>2 DEF Next

\* Nobody works at the start.
LEMMA FrameInit == Init => FrameInv
<1> SUFFICES ASSUME Init, NEW r \in Run
             PROVE  Exclusive(r) /\ Placed(r)
  BY DEF FrameInv
<1>1. \A q \in Run : task[q] = "idle" /\ ~Active(q)
  BY NextTask DEF Init, Active, Later
<1>2. raw = <<>> /\ processed = <<>> /\ owner # r /\ \A q \in Run : alone[q]
  BY DagAssumption DEF Init
<1>3. offset[r]["consumer"] = 0 /\ offset[r]["loader"] = 0
  BY DEF Init, Group
<1> QED
  BY <1>1, <1>2, <1>3 DEF Exclusive, Placed, Before

-----------------------------------------------------------------------------
(***************************************************************************)
(* Findings and audit rows.  That the findings of a run are copied at most *)
(* once more than it has failed is not inductive: a run that has yet to    *)
(* copy them must have paid for its copies already.                        *)
(***************************************************************************)

\* Where a run is that has got past the detection of anomalies.
Scanned == {"spark", "upload", "writer", "validate", "green", "failed"}

ScanPaid(r) ==
    /\ scans[r] + (IF task[r] \in Scanned THEN 0 ELSE 1) <= 1 + faults[r]
    /\ task[r] \in {"validate", "green"} => audit[r] = 1

ScanInv == \A r \in Run : ScanPaid(r)

\* At the start nothing was copied.
LEMMA ScanInit == Init => ScanInv
BY DEF Init, ScanInv, ScanPaid, Scanned

\* A copy is the one a run has to make, or it is paid for with a failure.
LEMMA ScanStep == TypeOK /\ ScanInv /\ [Next]_vars => ScanInv'
<1> SUFFICES ASSUME TypeOK, ScanInv, [Next]_vars, NEW r \in Run
             PROVE  ScanPaid(r)'
  BY DEF ScanInv
<1>1. ScanPaid(r) /\ scans[r] \in Nat /\ faults[r] \in Nat
  BY DEF ScanInv, TypeOK
<1>2. CASE UNCHANGED vars
  BY <1>1, <1>2 DEF vars, process, history, ScanPaid
<1>3. ASSUME NEW q \in Run, q # r, Trigger(q) \/ Progress(q) \/ Break(q)
      PROVE  ScanPaid(r)'
  BY <1>1, <1>3, OthersLeaveAlone DEF ScanPaid
<1>4. CASE Trigger(r)
  <2>1. task[r] = "idle" /\ task'[r] = "reset" /\ scans' = scans /\ faults' = faults
    BY <1>4 DEF Trigger, TypeOK
  <2> QED
    BY <1>1, <2>1 DEF ScanPaid, Scanned
<1>5. CASE Progress(r) \/ Break(r)
  <2>1. /\ task[r] \in Task /\ task'[r] \in {task[r], "failed", After(task[r])}
        /\ faults'[r] \in {faults[r], faults[r] + 1}
    BY <1>5, OwnStep
  <2>2. task[r] \in Scanned => task'[r] \in Scanned
    BY <2>1, NextTask DEF Scanned, Later
  <2>3. scans'[r] + (IF task'[r] \in Scanned THEN 0 ELSE 1) <= 1 + faults'[r]
    <3>1. CASE DetectAnomalies(r)
      <4>1. task[r] = "anomalies" /\ scans'[r] \in {scans[r], scans[r] + 1}
        BY <3>1 DEF DetectAnomalies, Copied, TypeOK
      <4>2. scans[r] <= faults[r]
        BY <1>1, <4>1 DEF ScanPaid, Scanned
      <4>3. CASE Succeed(r)
        <5>1. task'[r] = "spark"
          BY <4>1, <4>3, NextTask DEF Succeed, Begin, TypeOK
        <5> QED
          BY <1>1, <2>1, <4>1, <4>2, <5>1 DEF Scanned
      <4>4. CASE Fault(r)
        <5>1. faults'[r] = faults[r] + 1
          BY <4>4 DEF Fault, TypeOK
        <5> QED
          BY <1>1, <4>1, <4>2, <5>1
      <4> QED
        BY <3>1, <4>3, <4>4 DEF DetectAnomalies
    <3>2. CASE ~DetectAnomalies(r)
      <4>1. scans' = scans
        BY <1>5, <3>2 DEF Break, Progress, Reset, StartInfrastructure, Truncate, ValidateContract,
           Publish, ProducerExits, Relay, ConsumerExits, Load, LoaderExits,
           RunSpark, Upload, WriteObservability, ValidateObservability
      <4> QED
        BY <1>1, <2>1, <2>2, <4>1 DEF ScanPaid
    <3> QED
      BY <3>1, <3>2
  <2>4. task'[r] \in {"validate", "green"} => audit'[r] = 1
    <3> SUFFICES ASSUME task'[r] \in {"validate", "green"}
                 PROVE  audit'[r] = 1
      OBVIOUS
    <3>1. task[r] \in {"writer", "validate"}
      BY <2>1, NextTask DEF Later
    <3>2. CASE WriteObservability(r)
      BY <3>2 DEF WriteObservability, TypeOK
    <3>3. CASE ~WriteObservability(r)
      <4>1. audit' = audit
        BY <1>5, <3>3 DEF Break, Progress, Reset, StartInfrastructure, Truncate, ValidateContract,
           Publish, ProducerExits, Relay, ConsumerExits, Load, LoaderExits, DetectAnomalies,
           RunSpark, Upload, ValidateObservability
      <4>2. task[r] = "validate"
        <5>1. CASE task[r] = "writer"
          <6>1. Break(r)
            BY <1>5, <3>3, <5>1 DEF Progress, Reset, StartInfrastructure, Truncate,
               ValidateContract, Publish, ProducerExits, Relay, ConsumerExits, Load,
               LoaderExits, DetectAnomalies, RunSpark, Upload, ValidateObservability
          <6>2. task'[r] \in {"writer", "failed"}
            BY <5>1, <6>1 DEF Break, Fail, Begin, TypeOK
          <6> QED
            BY <6>2
        <5> QED
          BY <3>1, <5>1
      <4> QED
        BY <1>1, <4>1, <4>2 DEF ScanPaid
    <3> QED
      BY <3>2, <3>3
  <2> QED
    BY <2>3, <2>4 DEF ScanPaid
<1> QED
  BY <1>2, <1>3, <1>4, <1>5 DEF Next

-----------------------------------------------------------------------------
(***************************************************************************)
(* How often a row is in what is unread of a topic.                        *)
(***************************************************************************)

\* Where message m is in topic T after its first n messages.
Places(T, n, m) == {k \in (n + 1)..Len(T) : T[k] = m}
Count(T, n, m)  == Cardinality(Places(T, n, m))

\* A count is a number.
LEMMA CountType ==
  ASSUME NEW T \in Seq(Record), NEW n \in Nat, NEW m
  PROVE  /\ IsFiniteSet(Places(T, n, m)) /\ Places(T, n, m) \subseteq 1..Len(T)
         /\ Count(T, n, m) \in Nat
<1>1. Len(T) \in Int /\ n + 1 \in Int /\ n \in Nat
  OBVIOUS
<1>2. IsFiniteSet((n + 1)..Len(T))
  BY <1>1, FS_Interval, Zenon
<1>3. Places(T, n, m) \subseteq (n + 1)..Len(T)
  BY DEF Places
<1>4. IsFiniteSet(Places(T, n, m))
  BY <1>2, <1>3, FS_Subset
<1>5. Count(T, n, m) \in Nat
  BY <1>4, FS_CardinalityType DEF Count
<1>6. Places(T, n, m) \subseteq 1..Len(T)
  BY <1>1 DEF Places
<1> QED
  BY <1>4, <1>5, <1>6

\* Nothing is in an empty topic.
LEMMA CountEmpty ==
  ASSUME NEW n \in Nat, NEW m
  PROVE  Count(<<>>, n, m) = 0
<1>1. Places(<<>>, n, m) = {}
  BY DEF Places
<1> QED
  BY <1>1, FS_EmptySet DEF Count

\* An appended message counts once.
LEMMA CountAppend ==
  ASSUME NEW T \in Seq(Record), NEW x \in Record, NEW n \in Nat, n <= Len(T), NEW m
  PROVE  Count(Append(T, x), n, m) = Count(T, n, m) + IF x = m THEN 1 ELSE 0
<1> DEFINE U == Append(T, x)
           l == Len(T) + 1
<1>1. /\ Len(U) = l /\ l \in Nat /\ n < l /\ U[l] = x
      /\ \A k \in 1..Len(T) : U[k] = T[k]
  OBVIOUS
<1>2. /\ Places(U, n, m) \subseteq 1..l
      /\ \A k : k \in Places(U, n, m) <=> k \in (n + 1)..l /\ U[k] = m
      /\ \A k : k \in Places(T, n, m) <=> k \in (n + 1)..Len(T) /\ T[k] = m
  BY <1>1 DEF Places
<1>3. \A k : k \in (n + 1)..l <=> k \in (n + 1)..Len(T) \/ k = l
  BY <1>1
<1>4. \A k \in (n + 1)..Len(T) : k \in 1..Len(T) /\ k # l
  BY <1>1
<1> HIDE DEF U, l
<1>5. CASE x = m
  <2>1. Places(U, n, m) = Places(T, n, m) \cup {l} /\ l \notin Places(T, n, m)
    BY <1>1, <1>2, <1>3, <1>4, <1>5
  <2> QED
    BY <1>5, <2>1, CountType, FS_AddElement DEF Count, U
<1>6. CASE x # m
  <2>1. Places(U, n, m) = Places(T, n, m)
    BY <1>1, <1>2, <1>3, <1>4, <1>6
  <2> QED
    BY <1>6, <2>1, CountType DEF Count, U
<1> QED
  BY <1>5, <1>6

\* A message that is appended twice counts twice.
LEMMA CountTwice ==
  ASSUME NEW T \in Seq(Record), NEW x \in Record, NEW n \in Nat, n <= Len(T), NEW m
  PROVE  Count(T \o <<x, x>>, n, m) = Count(T, n, m) + IF x = m THEN 2 ELSE 0
<1> DEFINE U == Append(T, x)
<1>1. T \o <<x, x>> = Append(U, x)
  OBVIOUS
<1>2. U \in Seq(Record) /\ n <= Len(U)
  OBVIOUS
<1>3. Count(U, n, m) = Count(T, n, m) + IF x = m THEN 1 ELSE 0
  BY CountAppend
<1> HIDE DEF U
<1>4. Count(Append(U, x), n, m) = Count(U, n, m) + IF x = m THEN 1 ELSE 0
  BY <1>2, CountAppend
<1>5. Count(T, n, m) \in Nat
  BY CountType
<1>6. Count(Append(U, x), n, m) = Count(T, n, m) + IF x = m THEN 2 ELSE 0
  <2>1. CASE x = m
    BY <1>3, <1>4, <1>5, <2>1
  <2>2. CASE x # m
    BY <1>3, <1>4, <1>5, <2>2
  <2> QED
    BY <2>1, <2>2
<1> QED
  BY <1>1, <1>6

\* A message that is read no longer counts.
LEMMA CountRead ==
  ASSUME NEW T \in Seq(Record), NEW n \in Nat, n < Len(T), NEW m
  PROVE  Count(T, n, m) = Count(T, n + 1, m) + IF T[n + 1] = m THEN 1 ELSE 0
<1>1. /\ \A k : k \in Places(T, n, m) <=> k \in (n + 1)..Len(T) /\ T[k] = m
      /\ \A k : k \in Places(T, n + 1, m) <=> k \in (n + 1 + 1)..Len(T) /\ T[k] = m
  BY DEF Places
<1>2. /\ \A k : k \in (n + 1)..Len(T) <=> k \in (n + 1 + 1)..Len(T) \/ k = n + 1
      /\ n + 1 \notin (n + 1 + 1)..Len(T)
  OBVIOUS
<1>3. Count(T, n + 1, m) \in Nat
  BY CountType
<1>4. CASE T[n + 1] = m
  <2>1. /\ Places(T, n, m) = Places(T, n + 1, m) \cup {n + 1}
        /\ n + 1 \notin Places(T, n + 1, m) /\ n + 1 \in Nat
    BY <1>1, <1>2, <1>4
  <2> QED
    BY <1>4, <2>1, CountType, FS_AddElement DEF Count
<1>5. CASE T[n + 1] # m
  <2>1. \A k : k \in Places(T, n, m) <=> k \in Places(T, n + 1, m)
    BY <1>1, <1>2, <1>5
  <2>2. Places(T, n, m) = Places(T, n + 1, m)
    BY <2>1 DEF Places
  <2> QED
    BY <1>3, <1>5, <2>2 DEF Count
<1> QED
  BY <1>4, <1>5

-----------------------------------------------------------------------------
(***************************************************************************)
(* Rows of the warehouse.  A row comes again when its message is published *)
(* again, relayed again or loaded again: the invariant counts the copies   *)
(* that the run may still load, wherever they are on their way.            *)
(***************************************************************************)

\* The copy of row m that run r has yet to publish.
Unpublished(r, m) ==
    IF m[1] = r /\ (task[r] = "contract" \/ (task[r] = "producer" /\ m[2] > handled[r]))
    THEN 1 ELSE 0

\* Row m's copies in the warehouse, and those that run r may still load.
Copies(r, m) ==
    table[m] + Count(processed, offset[r]["loader"], m)
             + Count(raw, offset[r]["consumer"], m) + Unpublished(r, m)

\* Every copy but one has cost the run a failure, and so has the first one when
\* the producer is about to fail for rows that it has published all the same.
RowPaid(r, m) ==
    /\ Copies(r, m) <= 1 + faults[r]
    /\ task[r] = "producer" /\ failed[r] = handled[r] /\ m[1] = r /\ m[2] <= handled[r] =>
           Copies(r, m) <= faults[r]

RowsPaid == \A r \in Run : Undisturbed(r) => \A m \in Record : RowPaid(r, m)

\* The copies are numbers.
LEMMA CopiesType ==
  ASSUME TypeOK, NEW r \in Run, NEW m \in Record
  PROVE  /\ table[m] \in Nat
         /\ offset[r]["loader"] \in Nat /\ offset[r]["consumer"] \in Nat
         /\ Count(processed, offset[r]["loader"], m) \in Nat
         /\ Count(raw, offset[r]["consumer"], m) \in Nat
         /\ Unpublished(r, m) \in 0..1 /\ Copies(r, m) \in Nat
<1>1. /\ table[m] \in Nat /\ raw \in Seq(Record) /\ processed \in Seq(Record)
      /\ offset[r]["loader"] \in Nat /\ offset[r]["consumer"] \in Nat
  <2>1. table[m] \in Nat /\ raw \in Seq(Record) /\ processed \in Seq(Record)
    BY DEF TypeOK
  <2>2. offset[r] \in [Group -> Nat] /\ "loader" \in Group /\ "consumer" \in Group
    BY DEF TypeOK, Group
  <2> QED
    BY <2>1, <2>2
<1>2. /\ Count(processed, offset[r]["loader"], m) \in Nat
      /\ Count(raw, offset[r]["consumer"], m) \in Nat
  BY <1>1, CountType
<1>3. Unpublished(r, m) \in 0..1
  BY DEF Unpublished
<1> QED
  BY <1>1, <1>2, <1>3 DEF Copies

\* When the topics, the tables and the offsets stay, so do the copies there.
LEMMA CopiesStay ==
  ASSUME TypeOK, NEW r \in Run, NEW m \in Record, raw' = raw, processed' = processed,
         table' = table, offset'[r] = offset[r]
  PROVE  Copies(r, m)' = Copies(r, m) - Unpublished(r, m) + Unpublished(r, m)'
<1>1. /\ table[m] \in Nat /\ Count(processed, offset[r]["loader"], m) \in Nat
      /\ Count(raw, offset[r]["consumer"], m) \in Nat
      /\ Unpublished(r, m) \in 0..1
  BY CopiesType
<1>2. Unpublished(r, m)' \in 0..1
  BY DEF Unpublished
<1> QED
  BY <1>1, <1>2 DEF Copies


\* A row that the producer publishes is no longer to be published; it comes
\* twice when the write is repeated, and is there although it was counted as
\* failed when only the acknowledgement was lost.
LEMMA PublishPaid ==
  ASSUME TypeOK, FrameInv, NEW r \in Run, Publish(r), up, NEW m \in Record, RowPaid(r, m)
  PROVE  RowPaid(r, m)'
<1> DEFINE x == NextRow(r)
           h == handled[r]
           c == Count(raw, offset[r]["consumer"], m)
<1>1. /\ task[r] = "producer" /\ task' = task /\ handled'[r] = h + 1
      /\ table' = table /\ processed' = processed /\ offset' = offset
  BY DEF Publish, Step, TypeOK
<1>2. /\ h \in Nat /\ failed[r] \in Nat /\ faults[r] \in Nat /\ failed[r] <= h
  BY <1>1 DEF TypeOK, FrameInv, Placed
<1>3. x \in Record /\ x = <<r, h + 1>>
  BY NextRowIsRecord, TypeParts DEF NextRow
<1>4. m = <<m[1], m[2]>> /\ m[2] \in Nat
  BY DagAssumption DEF Record
<1>5. /\ table[m] \in Nat /\ Count(processed, offset[r]["loader"], m) \in Nat /\ c \in Nat
      /\ raw \in Seq(Record) /\ offset[r]["consumer"] \in Nat
      /\ offset[r]["consumer"] <= Len(raw)
  BY CopiesType DEF TypeOK, FrameInv, Placed
<1> DEFINE again == IF x = m THEN 1 ELSE 0
<1>6. /\ Unpublished(r, m) = IF m[1] = r /\ m[2] > h THEN 1 ELSE 0
      /\ Unpublished(r, m)' = IF m[1] = r /\ m[2] > h + 1 THEN 1 ELSE 0
  BY <1>1 DEF Unpublished
<1>7. Unpublished(r, m)' = Unpublished(r, m) - again
  BY <1>2, <1>3, <1>4, <1>6
<1> DEFINE c2 == Count(raw', offset'[r]["consumer"], m)
<1>8. \/ c2 = c + again /\ failed'[r] = failed[r] /\ faults'[r] = faults[r]
      \/ c2 = c + again + again /\ failed'[r] = failed[r] /\ faults'[r] = faults[r] + 1
      \/ c2 \in {c, c + again} /\ failed'[r] = failed[r] + 1 /\ faults'[r] = faults[r] + 1
  <2>1. /\ Count(Append(raw, x), offset[r]["consumer"], m) = c + again
        /\ Count(raw \o <<x, x>>, offset[r]["consumer"], m) = c + again + again
    <3>1. /\ x \in Record /\ raw \in Seq(Record) /\ offset[r]["consumer"] \in Nat
          /\ offset[r]["consumer"] <= Len(raw)
      BY <1>3, <1>5
    <3> HIDE DEF x
    <3>2. Count(Append(raw, x), offset[r]["consumer"], m) = c + again
      BY <3>1, CountAppend
    <3>3. Count(raw \o <<x, x>>, offset[r]["consumer"], m) = c + IF x = m THEN 2 ELSE 0
      BY <3>1, CountTwice
    <3>4. (IF x = m THEN 2 ELSE 0) = again + again
      OBVIOUS
    <3> HIDE DEF again, c
    <3>5. c \in Nat /\ again \in Nat
      BY <1>5 DEF c, again
    <3> QED
      BY <3>2, <3>3, <3>4, <3>5
  <2>2. up'
    BY DEF Publish, Compose
  <2>3. /\ Step(r, FALSE) => failed'[r] = failed[r]
        /\ Step(r, TRUE) => failed'[r] = failed[r] + 1
    <3>1. failed \in [Run -> Nat]
      BY DEF TypeOK
    <3> QED
      BY <3>1 DEF Step
  <2>4. Fault(r) => faults'[r] = faults[r] + 1
    BY DEF Fault, TypeOK
  <2>5. \/ raw' = Append(raw, x) /\ Step(r, FALSE) /\ faults' = faults
        \/ Fault(r) /\ raw' = raw \o <<x, x>> /\ Step(r, FALSE)
        \/ Fault(r) /\ raw' \in {raw, Append(raw, x)} /\ Step(r, TRUE)
    BY <2>2 DEF Publish
  <2>6. c2 = Count(raw', offset[r]["consumer"], m)
    BY <1>1
  <2>7. raw' = raw => c2 = c
    BY <2>6
  <2> HIDE DEF x, c, again, c2
  <2>8. raw' = Append(raw, x) => c2 = c + again
    BY <2>1, <2>6
  <2>9. raw' = raw \o <<x, x>> => c2 = c + again + again
    BY <2>1, <2>6
  <2> QED
    <3>1. CASE raw' = Append(raw, x) /\ Step(r, FALSE) /\ faults' = faults
      BY <2>3, <2>8, <3>1
    <3>2. CASE Fault(r) /\ raw' = raw \o <<x, x>> /\ Step(r, FALSE)
      BY <2>3, <2>4, <2>9, <3>2
    <3>3. CASE Fault(r) /\ raw' \in {raw, Append(raw, x)} /\ Step(r, TRUE)
      BY <2>3, <2>4, <2>7, <2>8, <3>3
    <3> QED
      BY <2>5, <3>1, <3>2, <3>3
<1>9. again \in 0..1 /\ Unpublished(r, m) \in 0..1
  BY CopiesType
<1> HIDE DEF x, h, c, again, c2
<1>10. /\ Copies(r, m) = table[m] + Count(processed, offset[r]["loader"], m) + c + Unpublished(r, m)
       /\ Copies(r, m)' = table[m] + Count(processed, offset[r]["loader"], m)
                              + c2 + Unpublished(r, m)'
  BY <1>1 DEF Copies, c, c2
<1>11. Copies(r, m) \in Nat /\ Copies(r, m) <= 1 + faults[r]
  BY CopiesType DEF RowPaid
<1>12. CASE faults'[r] = faults[r] + 1
  <2>0. c2 \in {c, c + again, c + again + again}
    BY <1>8
  <2>1. Copies(r, m)' <= Copies(r, m) + 1 /\ Copies(r, m)' \in Int
    <3>1. CASE c2 = c
      BY <1>5, <1>7, <1>9, <1>10, <3>1
    <3>2. CASE c2 = c + again
      BY <1>5, <1>7, <1>9, <1>10, <3>2
    <3>3. CASE c2 = c + again + again
      BY <1>5, <1>7, <1>9, <1>10, <3>3
    <3> QED
      BY <2>0, <3>1, <3>2, <3>3
  <2>2. failed'[r] # failed[r] => Copies(r, m)' <= Copies(r, m)
    <3>1. failed'[r] # failed[r] => c2 \in {c, c + again}
      BY <1>8
    <3> QED
      BY <1>5, <1>7, <1>9, <1>10, <3>1
  <2>3. failed'[r] = failed[r] => failed'[r] # handled'[r]
    BY <1>1, <1>2
  <2> QED
    BY <1>2, <1>11, <1>12, <2>1, <2>2, <2>3 DEF RowPaid
<1>13. CASE faults'[r] = faults[r]
  <2>1. Copies(r, m)' = Copies(r, m) /\ failed'[r] = failed[r]
    <3>1. c2 = c + again /\ failed'[r] = failed[r]
      BY <1>2, <1>8, <1>13
    <3> QED
      BY <1>5, <1>7, <1>9, <1>10, <3>1
  <2>2. failed'[r] # handled'[r]
    BY <1>1, <1>2, <2>1
  <2> QED
    BY <1>11, <1>13, <2>1, <2>2 DEF RowPaid
<1> QED
  BY <1>8, <1>12, <1>13

\* A step that adds a copy only when it costs a failure keeps the account.
LEMMA StillPaid ==
  ASSUME TypeOK, NEW r \in Run, NEW m \in Record, RowPaid(r, m), Copies(r, m)' \in Int,
         task'[r] # "producer",
         \/ Copies(r, m)' <= Copies(r, m) /\ faults'[r] \in {faults[r], faults[r] + 1}
         \/ Copies(r, m)' <= Copies(r, m) + 1 /\ faults'[r] = faults[r] + 1
  PROVE  RowPaid(r, m)'
<1>1. Copies(r, m) \in Nat /\ faults[r] \in Nat /\ Copies(r, m) <= 1 + faults[r]
  BY CopiesType DEF TypeOK, RowPaid
<1>2. Copies(r, m)' <= 1 + faults'[r]
  BY <1>1
<1> QED
  BY <1>2 DEF RowPaid

\* A message that the consumer relays is no longer unread, and on its way to
\* the loader; when it comes twice, the step is a failure.
LEMMA RelayPaid ==
  ASSUME TypeOK, FrameInv, NEW r \in Run, Relay(r), NEW m \in Record, RowPaid(r, m)
  PROVE  RowPaid(r, m)'
<1> DEFINE x == NextMessage(raw, r, "consumer")
           again == IF x = m THEN 1 ELSE 0
           t == table[m]
           p == Count(processed, offset[r]["loader"], m)
           w == Count(raw, offset[r]["consumer"] + 1, m)
           p2 == Count(processed', offset'[r]["loader"], m)
           w2 == Count(raw', offset'[r]["consumer"], m)
<1>1. /\ raw \in Seq(Record) /\ processed \in Seq(Record) /\ faults[r] \in Nat
      /\ offset[r]["consumer"] \in Nat /\ offset[r]["loader"] \in Nat
      /\ offset[r]["loader"] <= Len(processed)
      /\ "consumer" \in Group /\ "loader" \in Group /\ t \in Nat
  BY CopiesType DEF TypeOK, FrameInv, Placed, Group
<1>2. /\ task[r] = "consumer" /\ task'[r] \in {"consumer", "failed"}
      /\ raw' = raw /\ table' = table
  <2>1. task[r] = "consumer" /\ raw' = raw /\ table' = table
    BY DEF Relay
  <2>2. Fail(r) \/ \E bad \in BOOLEAN : Step(r, bad)
    BY DEF Relay
  <2>3. task'[r] \in {task[r], "failed"}
    BY <2>2 DEF Fail, Begin, Step, TypeOK
  <2> QED
    BY <2>1, <2>3
<1>3. /\ offset[r]["consumer"] < Len(raw) /\ x = raw[offset[r]["consumer"] + 1] /\ x \in Record
  BY <1>1 DEF Relay, Unread, NextMessage, Position
<1>4. /\ \/ /\ processed' = Append(processed, x) /\ faults' = faults
            /\ offset' = Advanced(r, "consumer")
         \/ /\ processed' = processed \o <<x, x>> /\ Fault(r)
            /\ offset' = Advanced(r, "consumer")
         \/ /\ processed' \in {processed, Append(processed, x)} /\ Fault(r)
            /\ offset' \in {offset, Advanced(r, "consumer")}
  BY DEF Relay
<1>5. Fault(r) => faults'[r] = faults[r] + 1
  BY DEF Fault, TypeOK
<1>6. Unpublished(r, m) = 0 /\ Unpublished(r, m)' = 0
  BY <1>2 DEF Unpublished
<1>7. p \in Nat /\ w \in Nat /\ again \in 0..1
  <2>1. offset[r]["consumer"] + 1 \in Nat
    BY <1>1
  <2>2. p \in Nat /\ w \in Nat
    BY <1>1, <2>1, CountType
  <2> QED
    BY <2>2
<1> HIDE DEF x
<1>8. Count(raw, offset[r]["consumer"], m) = w + again
  BY <1>1, <1>3, CountRead
<1>9. /\ Count(Append(processed, x), offset[r]["loader"], m) = p + again
      /\ Count(processed \o <<x, x>>, offset[r]["loader"], m) = p + again + again
  <2>1. Count(Append(processed, x), offset[r]["loader"], m) = p + again
    BY <1>1, <1>3, CountAppend
  <2>2. Count(processed \o <<x, x>>, offset[r]["loader"], m) = p + IF x = m THEN 2 ELSE 0
    BY <1>1, <1>3, CountTwice
  <2>3. (IF x = m THEN 2 ELSE 0) = again + again
    OBVIOUS
  <2> HIDE DEF again, p
  <2> QED
    BY <1>7, <2>1, <2>2, <2>3
<1>10. /\ offset' = Advanced(r, "consumer") =>
              /\ offset'[r]["consumer"] = offset[r]["consumer"] + 1
              /\ offset'[r]["loader"] = offset[r]["loader"]
       /\ offset' = offset => offset'[r] = offset[r]
  BY <1>1, Commits
<1> HIDE DEF again
<1>11. /\ offset' = Advanced(r, "consumer") => w2 = w
       /\ offset' = offset => w2 = w + again
  BY <1>2, <1>8, <1>10
<1>12. offset'[r]["loader"] = offset[r]["loader"]
  BY <1>4, <1>10
<1>13. /\ processed' = processed => p2 = p
       /\ processed' = Append(processed, x) => p2 = p + again
       /\ processed' = processed \o <<x, x>> => p2 = p + again + again
  BY <1>9, <1>12
<1>14. /\ Copies(r, m) = t + p + (w + again) + 0
       /\ Copies(r, m)' = t + p2 + w2 + 0
  BY <1>2, <1>6, <1>8 DEF Copies
<1> HIDE DEF t, p, w, p2, w2
<1>15. \/ p2 = p + again /\ w2 = w /\ faults'[r] = faults[r]
       \/ p2 = p + again + again /\ w2 = w /\ faults'[r] = faults[r] + 1
       \/ p2 \in {p, p + again} /\ w2 \in {w, w + again} /\ faults'[r] = faults[r] + 1
  BY <1>4, <1>5, <1>11, <1>13
<1>16. /\ Copies(r, m)' \in Int
       /\ \/ Copies(r, m)' <= Copies(r, m) /\ faults'[r] = faults[r]
          \/ Copies(r, m)' <= Copies(r, m) + 1 /\ faults'[r] = faults[r] + 1
  <2>1. CASE p2 = p + again /\ w2 = w /\ faults'[r] = faults[r]
    BY <1>1, <1>7, <1>14, <2>1
  <2>2. CASE p2 = p + again + again /\ w2 = w /\ faults'[r] = faults[r] + 1
    BY <1>1, <1>7, <1>14, <2>2
  <2>3. CASE p2 \in {p, p + again} /\ w2 \in {w, w + again} /\ faults'[r] = faults[r] + 1
    BY <1>1, <1>7, <1>14, <2>3
  <2> QED
    BY <1>15, <2>1, <2>2, <2>3
<1> QED
  BY <1>2, <1>16, StillPaid

\* A message that the loader stores is no longer unread; a row comes again
\* when its offset is not committed, which is a failure.
LEMMA LoadPaid ==
  ASSUME TypeOK, FrameInv, NEW r \in Run, Load(r), NEW m \in Record, RowPaid(r, m)
  PROVE  RowPaid(r, m)'
<1> DEFINE x == NextMessage(processed, r, "loader")
           again == IF x = m THEN 1 ELSE 0
           t == table[m]
           p == Count(processed, offset[r]["loader"] + 1, m)
           w == Count(raw, offset[r]["consumer"], m)
           t2 == table'[m]
           p2 == Count(processed', offset'[r]["loader"], m)
<1>1. /\ processed \in Seq(Record) /\ faults[r] \in Nat /\ w \in Nat
      /\ offset[r]["loader"] \in Nat /\ table \in [Record -> Nat]
      /\ "consumer" \in Group /\ "loader" \in Group /\ t \in Nat
  BY CopiesType DEF TypeOK, Group
<1>2. /\ task[r] = "loader" /\ task'[r] \in {"loader", "failed"}
      /\ raw' = raw /\ processed' = processed
  <2> DEFINE poison == dataset[x[1]][x[2]] = "unstorable"
  <2>1. task[r] = "loader" /\ raw' = raw /\ processed' = processed
    BY DEF Load
  <2>2. Fail(r) \/ Step(r, poison) \/ Step(r, TRUE)
    BY DEF Load
  <2> HIDE DEF poison
  <2>3. task'[r] \in {task[r], "failed"}
    BY <2>2 DEF Fail, Begin, Step, TypeOK
  <2> QED
    BY <2>1, <2>3
<1>3. /\ offset[r]["loader"] < Len(processed) /\ x = processed[offset[r]["loader"] + 1]
      /\ x \in Record
  <2>1. offset[r]["loader"] < Len(processed)
    BY DEF Load, Unread, Position
  <2>2. x = processed[offset[r]["loader"] + 1]
    BY DEF NextMessage, Position
  <2>3. offset[r]["loader"] + 1 \in 1..Len(processed)
    BY <1>1, <2>1
  <2> QED
    BY <1>1, <2>1, <2>2, <2>3
<1>4. /\ table' \in {table, [table EXCEPT ![x] = @ + 1]}
      /\ \/ faults' = faults /\ offset' = Advanced(r, "loader")
         \/ Fault(r) /\ offset' \in {offset, Advanced(r, "loader")}
  BY DEF Load
<1>5. Fault(r) => faults'[r] = faults[r] + 1
  BY DEF Fault, TypeOK
<1>6. Unpublished(r, m) = 0 /\ Unpublished(r, m)' = 0
  BY <1>2 DEF Unpublished
<1>7. p \in Nat /\ again \in 0..1
  <2>1. offset[r]["loader"] + 1 \in Nat
    BY <1>1
  <2>2. p \in Nat
    BY <1>1, <2>1, CountType
  <2> QED
    BY <2>2
<1> HIDE DEF x
<1>8. Count(processed, offset[r]["loader"], m) = p + again
  BY <1>1, <1>3, CountRead
<1>9. t2 \in {t, t + again}
  BY <1>1, <1>4
<1>10. /\ offset' = Advanced(r, "loader") =>
              /\ offset'[r]["loader"] = offset[r]["loader"] + 1
              /\ offset'[r]["consumer"] = offset[r]["consumer"]
       /\ offset' = offset => offset'[r] = offset[r]
  BY <1>1, Commits
<1> HIDE DEF again
<1>11. /\ offset' = Advanced(r, "loader") => p2 = p
       /\ offset' = offset => p2 = p + again
  BY <1>2, <1>8, <1>10
<1>12. Count(raw', offset'[r]["consumer"], m) = w
  BY <1>2, <1>4, <1>10
<1>13. /\ Copies(r, m) = t + (p + again) + w + 0
       /\ Copies(r, m)' = t2 + p2 + w + 0
  BY <1>6, <1>8, <1>12 DEF Copies
<1> HIDE DEF t, p, w, t2, p2
<1>14. \/ p2 = p /\ faults'[r] = faults[r]
       \/ p2 \in {p, p + again} /\ faults'[r] = faults[r] + 1
  BY <1>4, <1>5, <1>11
<1>15. /\ Copies(r, m)' \in Int
       /\ \/ Copies(r, m)' <= Copies(r, m) /\ faults'[r] = faults[r]
          \/ Copies(r, m)' <= Copies(r, m) + 1 /\ faults'[r] = faults[r] + 1
  <2>1. /\ t2 \in Int /\ t2 <= t + again
        /\ p2 \in Int /\ p2 <= p + again
    BY <1>1, <1>7, <1>9, <1>14
  <2>2. again \in Int /\ again <= 1
    BY <1>7
  <2>3. Copies(r, m)' \in Int /\ Copies(r, m)' <= Copies(r, m) + 1
    BY <1>1, <1>7, <1>13, <2>1, <2>2
  <2>4. p2 = p => Copies(r, m)' <= Copies(r, m)
    BY <1>1, <1>7, <1>13, <2>1
  <2> QED
    BY <1>14, <2>3, <2>4
<1> QED
  BY <1>2, <1>15, StillPaid

\* A data set that passes the contract may be published; a producer that has
\* failed for every row begins again with all of them, which costs nothing more.
LEMMA ExitPaid ==
  ASSUME TypeOK, FrameInv, NEW r \in Run, task[r] \notin Before,
         Progress(r) \/ Break(r), ~Publish(r), ~Relay(r), ~Load(r),
         NEW m \in Record, RowPaid(r, m)
  PROVE  RowPaid(r, m)'
<1>1. /\ raw' = raw /\ processed' = processed /\ table' = table /\ offset'[r] = offset[r]
  BY SharedStep DEF Truncate, Before
<1>2. /\ task[r] \in Task /\ task'[r] \in {task[r], "failed", After(task[r])}
      /\ handled'[r] = 0 /\ failed'[r] = 0 /\ faults'[r] \in {faults[r], faults[r] + 1}
  BY OwnStep
<1>3. m[2] \in Nat /\ m[2] > 0 /\ faults[r] \in Nat
  <2>1. m[2] \in 1..MaxRows
    BY DEF Record
  <2>2. faults[r] \in Nat
    BY DEF TypeOK
  <2> QED
    BY <2>1, <2>2, DagAssumption
<1>4. /\ Copies(r, m)' = Copies(r, m) - Unpublished(r, m) + Unpublished(r, m)'
      /\ Copies(r, m) \in Nat /\ Unpublished(r, m) \in 0..1
      /\ Unpublished(r, m)' \in 0..1
  BY <1>1, CopiesStay, CopiesType DEF Unpublished
<1>5. ~(m[2] <= handled'[r])
  BY <1>2, <1>3
<1>6. CASE Unpublished(r, m)' <= Unpublished(r, m) \/ faults'[r] = faults[r] + 1
  BY <1>2, <1>3, <1>4, <1>5, <1>6 DEF RowPaid
<1>7. CASE Unpublished(r, m)' = 1 /\ Unpublished(r, m) = 0 /\ faults'[r] = faults[r]
  <2>1. task[r] = "producer" /\ task'[r] = "producer" /\ m[1] = r /\ m[2] <= handled[r]
    <3>1. m[1] = r /\ task'[r] \in {"contract", "producer"}
      BY <1>7 DEF Unpublished
    <3>2. task[r] \in {"contract", "producer"}
      BY <1>2, <3>1, NextTask DEF Before, Later
    <3>3. task[r] # "contract" /\ ~(m[2] > handled[r])
      BY <1>7, <3>1, <3>2 DEF Unpublished
    <3>4. task'[r] # "contract"
      BY <1>2, <3>2, <3>3, NextTask
    <3> QED
      BY <1>3, <3>1, <3>2, <3>3, <3>4 DEF TypeOK
  <2>2. ProducerExits(r)
    <3>1. ~Break(r)
      BY <1>3, <1>7 DEF Break, Fault, TypeOK
    <3> QED
      BY <2>1, <3>1 DEF Progress, Reset, StartInfrastructure, Truncate, ValidateContract,
         Publish, Relay, ConsumerExits, Load, LoaderExits, DetectAnomalies, RunSpark,
         Upload, WriteObservability, ValidateObservability
  <2>3. failed[r] = handled[r]
    <3>1. ~Succeed(r)
      <4>1. Succeed(r) => task'[r] = "consumer"
        BY <2>1, NextTask DEF Succeed, Begin, TypeOK
      <4> QED
        BY <2>1, <4>1
    <3>2. ~(failed[r] < handled[r])
      BY <2>2, <3>1 DEF ProducerExits, Exit, ProducerSucceeds
    <3>3. failed[r] <= handled[r] /\ failed[r] \in Nat /\ handled[r] \in Nat
      BY <2>1 DEF FrameInv, Placed, TypeOK
    <3> QED
      BY <3>2, <3>3
  <2>4. Copies(r, m) <= faults[r]
    BY <2>1, <2>3 DEF RowPaid
  <2> QED
    BY <1>3, <1>4, <1>5, <1>7, <2>4 DEF RowPaid
<1> QED
  BY <1>2, <1>4, <1>6, <1>7

\* The truncation leaves the copies that are to be published, one of each row.
LEMMA TruncatePaid ==
  ASSUME TypeOK, FrameInv, NEW r \in Run, Truncate(r), alone[r], empty[r], NEW m \in Record
  PROVE  RowPaid(r, m)'
<1>1. task[r] = "truncate" /\ Active(r)
  BY NextTask DEF Truncate, Active
<1>2. raw = <<>> /\ processed = <<>>
  BY <1>1 DEF FrameInv, Placed, Before
<1>3. /\ raw' = raw /\ processed' = processed /\ offset' = offset /\ table'[m] = 0
      /\ faults' = faults
  BY DEF Truncate, kafka
<1>4. task'[r] = "contract"
  <2>1. task'[r] = After(task[r])
    BY DEF Truncate, Succeed, Begin, TypeOK
  <2> QED
    BY <1>1, <2>1, NextTask
<1>5. /\ Count(raw', offset'[r]["consumer"], m) = 0
      /\ Count(processed', offset'[r]["loader"], m) = 0
  BY <1>2, <1>3, CopiesType, CountEmpty
<1>6. Unpublished(r, m)' \in 0..1
  BY DEF Unpublished
<1>7. Copies(r, m)' = Unpublished(r, m)' /\ faults'[r] \in Nat
  BY <1>3, <1>5, <1>6 DEF Copies, TypeOK
<1> QED
  BY <1>4, <1>6, <1>7 DEF RowPaid

\* No run is undisturbed at the start.
LEMMA RowsInit == Init => RowsPaid
BY DagAssumption DEF Init, RowsPaid, Undisturbed

\* While nothing disturbs run r, other runs change nothing that counts for it.
LEMMA OthersWait ==
  ASSUME TypeOK, FrameInv, NEW r \in Run, Undisturbed(r)',
         NEW q \in Run, q # r, Trigger(q) \/ Progress(q) \/ Break(q)
  PROVE  /\ Undisturbed(r)
         /\ raw' = raw /\ processed' = processed /\ table' = table
         /\ task'[r] = task[r] /\ attempt'[r] = attempt[r]
         /\ handled'[r] = handled[r] /\ failed'[r] = failed[r]
         /\ offset'[r] = offset[r] /\ faults'[r] = faults[r] /\ dataset' = dataset
<1>1. owner = r /\ ~Truncate(q)
  <2>1. ~Truncate(q)
    BY DEF Undisturbed, Truncate
  <2> QED
    BY <2>1, SharedStep DEF Undisturbed
<1>2. Undisturbed(r)
  <2>1. alone[r] /\ empty[r]
    <3>1. CASE Trigger(q)
      BY <3>1 DEF Trigger, Undisturbed, TypeOK
    <3>2. CASE Progress(q) \/ Break(q)
      BY <3>2, OwnStep DEF Undisturbed
    <3> QED
      BY <3>1, <3>2
  <2> QED
    BY <1>1, <2>1 DEF Undisturbed
<1>3. task[q] \in Before \cup Ended
  BY <1>2 DEF FrameInv, Exclusive, Undisturbed
<1>4. ~Publish(q) /\ ~Relay(q) /\ ~Load(q)
  BY <1>3 DEF Publish, Relay, Load, Before, Ended
<1>5. raw' = raw /\ processed' = processed /\ table' = table
  BY <1>1, <1>4, SharedStep
<1> QED
  BY <1>2, <1>5, OthersLeaveAlone

\* Every step keeps the account of every run that nothing disturbs.
LEMMA RowsStep == TypeOK /\ FrameInv /\ RowsPaid /\ [Next]_vars => RowsPaid'
<1> SUFFICES ASSUME TypeOK, FrameInv, RowsPaid, [Next]_vars, NEW r \in Run, Undisturbed(r)',
                    NEW m \in Record
             PROVE  RowPaid(r, m)'
  BY DEF RowsPaid
<1>1. CASE UNCHANGED vars
  BY <1>1 DEF vars, process, kafka, history, RowsPaid, Undisturbed, RowPaid, Copies, Unpublished
<1>2. ASSUME NEW q \in Run, q # r, Trigger(q) \/ Progress(q) \/ Break(q)
      PROVE  RowPaid(r, m)'
  <2>1. /\ Undisturbed(r)
        /\ raw' = raw /\ processed' = processed /\ table' = table
        /\ task'[r] = task[r] /\ handled'[r] = handled[r] /\ failed'[r] = failed[r]
        /\ offset'[r] = offset[r] /\ faults'[r] = faults[r]
    BY <1>2, OthersWait
  <2> QED
    BY <2>1 DEF RowsPaid, RowPaid, Copies, Unpublished
<1>3. ~Trigger(r)
  BY DEF Trigger, Undisturbed, FrameInv, Placed, Before
<1>4. CASE Progress(r) \/ Break(r)
  <2>1. alone[r] /\ empty[r] /\ owner' = r
    BY <1>4, OwnStep DEF Undisturbed
  <2>2. CASE Truncate(r)
    BY <2>1, <2>2, TruncatePaid
  <2>3. CASE ~Truncate(r)
    <3>1. Undisturbed(r)
      BY <1>4, <2>1, <2>3, SharedStep DEF Undisturbed
    <3>2. RowPaid(r, m) /\ task[r] \notin Before
      BY <3>1 DEF RowsPaid, Undisturbed, FrameInv, Placed
    <3>3. CASE Publish(r)
      <4>1. up
        <5>1. task[r] = "producer" /\ Active(r)
          BY <3>3, NextTask DEF Publish, Active
        <5> QED
          BY <2>1, <5>1 DEF FrameInv, Placed
      <4> QED
        BY <3>2, <3>3, <4>1, PublishPaid
    <3>4. CASE Relay(r)
      BY <3>2, <3>4, RelayPaid
    <3>5. CASE Load(r)
      BY <3>2, <3>5, LoadPaid
    <3>6. CASE ~Publish(r) /\ ~Relay(r) /\ ~Load(r)
      BY <1>4, <3>2, <3>6, ExitPaid
    <3> QED
      BY <3>3, <3>4, <3>5, <3>6
  <2> QED
    BY <2>2, <2>3
<1> QED
  BY <1>1, <1>2, <1>3, <1>4 DEF Next

-----------------------------------------------------------------------------
(***************************************************************************)
(* The files of a run that is alone.  Once its Spark job is over nobody    *)
(* replaces what that has written, and nothing leaves the bucket.          *)
(***************************************************************************)

ShippedInv ==
    \A r \in Run : alone[r] =>
        /\ task[r] = "upload" => output = r
        /\ task[r] \in {"writer", "validate", "green"} => \A p \in Part : <<r, p>> \in bucket

\* What a step of run q makes of the output directory and the bucket.
LEMMA LakeStep ==
  ASSUME NEW q \in Run, Trigger(q) \/ Progress(q) \/ Break(q)
  PROVE  /\ output' = output \/ RunSpark(q)
         /\ bucket \subseteq bucket'
<1> USE DEF kafka, lake, history
<1>1. CASE Upload(q)
  BY <1>1 DEF Upload, Put
<1>2. CASE RunSpark(q)
  BY <1>2 DEF RunSpark
<1>3. CASE ~Upload(q) /\ ~RunSpark(q)
  BY <1>3 DEF Trigger, Break, Progress, Reset, StartInfrastructure, Truncate, ValidateContract,
     Publish, ProducerExits, Relay, ConsumerExits, Load, LoaderExits, DetectAnomalies,
     WriteObservability, ValidateObservability
<1> QED
  BY <1>1, <1>2, <1>3 DEF Upload, RunSpark

\* Every run begins alone and with nothing to upload.
LEMMA ShippedInit == Init => ShippedInv
BY DEF Init, ShippedInv

\* A run passes its upload only with all of its files in the bucket.
LEMMA ShippedStep == TypeOK /\ FrameInv /\ ShippedInv /\ [Next]_vars => ShippedInv'
<1> SUFFICES ASSUME TypeOK, FrameInv, ShippedInv, [Next]_vars, NEW r \in Run, alone'[r]
             PROVE  /\ task'[r] = "upload" => output' = r
                    /\ task'[r] \in {"writer", "validate", "green"} =>
                           \A p \in Part : <<r, p>> \in bucket'
  BY DEF ShippedInv
<1>1. CASE UNCHANGED vars
  BY <1>1 DEF vars, process, lake, history, ShippedInv
<1>2. ASSUME NEW q \in Run, q # r, Trigger(q) \/ Progress(q) \/ Break(q)
      PROVE  /\ task'[r] # "upload"
             /\ task'[r] = "green" => \A p \in Part : <<r, p>> \in bucket'
             /\ task'[r] \notin {"writer", "validate"}
  <2>1. task'[r] = task[r] /\ task'[r] \notin Task
    BY <1>2, NobodyElse, OthersLeaveAlone DEF Active
  <2>2. alone[r]
    <3>1. CASE Trigger(q)
      BY <3>1, TypeParts DEF Trigger, HistoryOK
    <3>2. CASE Progress(q) \/ Break(q)
      BY <3>2, OwnStep
    <3> QED
      BY <1>2, <3>1, <3>2
  <2>3. bucket \subseteq bucket'
    BY <1>2, LakeStep
  <2> QED
    BY <2>1, <2>2, <2>3, NextTask DEF ShippedInv, Later
<1>3. CASE Trigger(r)
  BY <1>3, TypeParts DEF Trigger, ProcessOK
<1>4. CASE Progress(r) \/ Break(r)
  <2>1. alone[r] /\ task[r] \in Task /\ bucket \subseteq bucket'
    BY <1>4, OwnStep, LakeStep
  <2>2. task'[r] \in {task[r], "failed"} \/ (Succeed(r) /\ task'[r] = After(task[r]))
    BY <1>4, OwnStep
  <2>3. ASSUME task'[r] = "upload"
        PROVE  output' = r
    <3>1. task[r] = "upload" \/ (task[r] = "spark" /\ Succeed(r))
      BY <2>1, <2>2, <2>3, NextTask DEF Later
    <3>2. CASE task[r] = "upload"
      BY <1>4, <2>1, <3>2, LakeStep DEF ShippedInv, RunSpark
    <3>3. CASE task[r] = "spark" /\ Succeed(r)
      <4>1. ~Fail(r)
        BY <2>3, <3>3, TypeParts DEF Fail, Begin, ProcessOK
      <4>2. RunSpark(r)
        BY <1>4, <3>3, <4>1 DEF Break, Progress, Reset, StartInfrastructure, Truncate,
           ValidateContract, Publish, ProducerExits, Relay, ConsumerExits, Load, LoaderExits,
           DetectAnomalies, Upload, WriteObservability, ValidateObservability
      <4> QED
        BY <4>2 DEF RunSpark
    <3> QED
      BY <3>1, <3>2, <3>3
  <2>4. ASSUME task'[r] \in {"writer", "validate", "green"}, NEW p \in Part
        PROVE  <<r, p>> \in bucket'
    <3>1. task[r] \in {"writer", "validate"} \/ (task[r] = "upload" /\ Succeed(r))
      BY <2>1, <2>2, <2>4, NextTask DEF Later
    <3>2. CASE task[r] \in {"writer", "validate"}
      BY <2>1, <3>2 DEF ShippedInv
    <3>3. CASE task[r] = "upload" /\ Succeed(r)
      <4>1. ~Fail(r)
        BY <2>4, <3>3, TypeParts DEF Fail, Begin, ProcessOK
      <4>2. Upload(r)
        BY <1>4, <3>3, <4>1 DEF Break, Progress, Reset, StartInfrastructure, Truncate,
           ValidateContract, Publish, ProducerExits, Relay, ConsumerExits, Load, LoaderExits,
           DetectAnomalies, RunSpark, WriteObservability, ValidateObservability
      <4>3. bucket' = Put(Part) /\ output = r
        BY <2>1, <3>3, <4>1, <4>2 DEF Upload, ShippedInv
      <4> QED
        BY <4>3 DEF Put
    <3> QED
      BY <3>1, <3>2, <3>3
  <2> QED
    BY <2>3, <2>4
<1> QED
  BY <1>1, <1>2, <1>3, <1>4 DEF Next

\* What comes twice has cost a failure: findings that are copied again and
\* rows that are published, relayed or loaded again; and a green run has
\* exactly one audit row, however often its writer was retried, and all its
\* files in the bucket, however often its upload broke off.
THEOREM RetriesPaid == Spec => []CopiesPaid
<1>1. Init => TypeOK /\ FrameInv /\ ScanInv /\ RowsPaid /\ ShippedInv
  BY TypeInit, FrameInit, ScanInit, RowsInit, ShippedInit
<1>2. TypeOK /\ FrameInv /\ ScanInv /\ RowsPaid /\ ShippedInv /\ [Next]_vars =>
          (TypeOK /\ FrameInv /\ ScanInv /\ RowsPaid /\ ShippedInv)'
  BY TypeStep, FrameStep, ScanStep, RowsStep, ShippedStep
<1>3. TypeOK /\ ScanInv /\ RowsPaid /\ ShippedInv => CopiesPaid
  <2> SUFFICES ASSUME TypeOK, ScanInv, RowsPaid, ShippedInv, NEW r \in Run
               PROVE  /\ scans[r] <= 1 + faults[r]
                      /\ task[r] = "green" =>
                             audit[r] = 1 /\ (alone[r] => \A p \in Part : <<r, p>> \in bucket)
                      /\ Undisturbed(r) => \A m \in Record : table[m] <= 1 + faults[r]
    BY DEF CopiesPaid
  <2>1. scans[r] <= 1 + faults[r] /\ (task[r] = "green" => audit[r] = 1)
    <3>1. ScanPaid(r) /\ scans[r] \in Nat /\ faults[r] \in Nat
      BY DEF ScanInv, TypeOK
    <3> QED
      BY <3>1 DEF ScanPaid
  <2>2. task[r] = "green" /\ alone[r] => \A p \in Part : <<r, p>> \in bucket
    BY DEF ShippedInv
  <2>3. ASSUME Undisturbed(r), NEW m \in Record
        PROVE  table[m] <= 1 + faults[r]
    <3>1. Copies(r, m) <= 1 + faults[r] /\ faults[r] \in Nat
      BY <2>3 DEF RowsPaid, RowPaid, TypeOK
    <3>2. table[m] <= Copies(r, m) /\ table[m] \in Nat /\ Copies(r, m) \in Nat
      BY CopiesType DEF Copies
    <3> QED
      BY <3>1, <3>2
  <2> QED
    BY <2>1, <2>2, <2>3
<1> QED
  BY <1>1, <1>2, <1>3, PTL DEF Spec

-----------------------------------------------------------------------------
(***************************************************************************)
(* The clean run.  That its rows are in the warehouse once it has loaded   *)
(* them rests on where each of them is before: the topics hold the data    *)
(* set in order, and the offsets tell how far it has got.                  *)
(***************************************************************************)

\* The rows the producer has published.
Produced(r) == CASE task[r] = "contract" -> 0
                 [] task[r] = "producer" -> handled[r]
                 [] OTHER -> Rows(r)

\* The topic T has the first n rows of run r and nothing else.
IsPrefix(T, r, n) == Len(T) = n /\ \A i \in 1..n : T[i] = <<r, i>>

\* The rows that are in the warehouse once n messages are loaded.
TableOf(r, n) ==
    [m \in Record |-> IF m[1] = r /\ m[2] <= n /\ dataset[r][m[2]] = "ok" THEN 1 ELSE 0]

\* How far the loader has got: where its first attempt stopped, the retry goes on.
LoaderExact(r) ==
    /\ handled[r] <= MaxMessages["loader"]
    /\ IF attempt[r] = 1
       THEN /\ offset[r]["loader"] = handled[r]
            /\ failed[r] = 0 <=> ~Refused(r, handled[r])
       ELSE /\ offset[r]["loader"] = FirstRead(r) + handled[r]
            /\ Refused(r, FirstRead(r))

\* How far the run has got.
Exact(r) ==
    /\ task[r] # "contract" => Conforms(r)
    /\ IsPrefix(raw, r, Produced(r))
    /\ IsPrefix(processed, r, offset[r]["consumer"])
    /\ offset[r]["consumer"] <= Relayed(r)
    /\ task[r] = "producer" => failed[r] = 0
    /\ task[r] = "consumer" => handled[r] = offset[r]["consumer"] /\ failed[r] = 0
    /\ task[r] \in {"loader", "green"} \cup Later => offset[r]["consumer"] = Relayed(r)
    /\ task[r] = "loader" => LoaderExact(r)
    /\ task[r] \in {"green"} \cup Later => offset[r]["loader"] = Read(r)
    /\ table = TableOf(r, offset[r]["loader"])

ExactInv ==
    \A r \in Run : Undisturbed(r) /\ faults[r] = 0 /\ task[r] # "failed" => Exact(r)

\* The rows relayed and the rows a first attempt of the loader reads are as many
\* as there are, or as many as the limit.
LEMMA Limits ==
  ASSUME TypeOK, NEW r \in Run
  PROVE  /\ Rows(r) \in Nat \ {0}
         /\ MaxMessages["consumer"] \in Nat \ {0} /\ MaxMessages["loader"] \in Nat \ {0}
         /\ Relayed(r) \in Nat /\ FirstRead(r) \in Nat /\ Read(r) \in Nat
         /\ Relayed(r) <= Rows(r) /\ Relayed(r) <= MaxMessages["consumer"]
         /\ Relayed(r) = Rows(r) \/ Relayed(r) = MaxMessages["consumer"]
         /\ FirstRead(r) <= Relayed(r) /\ FirstRead(r) <= MaxMessages["loader"]
         /\ FirstRead(r) = Relayed(r) \/ FirstRead(r) = MaxMessages["loader"]
<1>1. Rows(r) \in Nat \ {0}
  <2>1. Rows(r) \in 1..MaxRows
    BY RowsOfRun DEF TypeOK
  <2> QED
    BY <2>1, DagAssumption
<1>2. MaxMessages["consumer"] \in Nat \ {0} /\ MaxMessages["loader"] \in Nat \ {0}
  BY DagAssumption DEF Group
<1>3. /\ Relayed(r) \in Nat
      /\ Relayed(r) <= Rows(r) /\ Relayed(r) <= MaxMessages["consumer"]
      /\ Relayed(r) = Rows(r) \/ Relayed(r) = MaxMessages["consumer"]
  BY <1>1, <1>2 DEF Relayed, Least
<1>4. /\ FirstRead(r) \in Nat
      /\ FirstRead(r) <= Relayed(r) /\ FirstRead(r) <= MaxMessages["loader"]
      /\ FirstRead(r) = Relayed(r) \/ FirstRead(r) = MaxMessages["loader"]
  BY <1>2, <1>3 DEF FirstRead, Least
<1>5. Read(r) \in Nat
  BY <1>2, <1>3, <1>4 DEF Read, Least
<1> QED
  BY <1>1, <1>2, <1>3, <1>4, <1>5

\* What is said of the data set alone is as it was.
LEMMA SameData ==
  ASSUME dataset' = dataset, NEW r \in Run
  PROVE  /\ Conforms(r)' = Conforms(r) /\ Rows(r)' = Rows(r) /\ Relayed(r)' = Relayed(r)
         /\ FirstRead(r)' = FirstRead(r) /\ Read(r)' = Read(r)
         /\ \A n : Refused(r, n)' = Refused(r, n)
         /\ \A n : TableOf(r, n)' = TableOf(r, n)
BY DEF Conforms, Rows, Relayed, FirstRead, Read, Refused, TableOf, Least

\* A step that is no failure of run r.
LEMMA NoFault ==
  ASSUME TypeOK, NEW r \in Run, faults'[r] = 0
  PROVE  ~Fault(r)
BY DEF Fault, TypeOK

\* The truncated warehouse has the first no rows.
LEMMA TruncateExact ==
  ASSUME TypeOK, FrameInv, NEW r \in Run, Truncate(r), alone[r], empty[r]
  PROVE  Exact(r)'
<1>1. task[r] = "truncate" /\ Active(r)
  BY NextTask DEF Truncate, Active
<1>2. raw = <<>> /\ processed = <<>> /\ offset[r]["consumer"] = 0 /\ offset[r]["loader"] = 0
  BY <1>1 DEF FrameInv, Placed, Before
<1>3. /\ raw' = raw /\ processed' = processed /\ offset' = offset /\ dataset' = dataset
      /\ table' = [m \in Record |-> 0]
  BY DEF Truncate, kafka
<1>4. task'[r] = "contract"
  <2>1. task'[r] = After(task[r])
    BY DEF Truncate, Succeed, Begin, TypeOK
  <2> QED
    BY <1>1, <2>1, NextTask
<1>5. table' = TableOf(r, 0)'
  <2>1. \A m \in Record : ~(m[2] <= 0)
    BY DagAssumption DEF Record
  <2> QED
    BY <1>3, <2>1 DEF TableOf
<1>6. Relayed(r)' = Relayed(r) /\ 0 <= Relayed(r)
  BY <1>3, Limits, SameData
<1>7. Produced(r)' = 0
  BY <1>4 DEF Produced
<1>8. IsPrefix(<<>>, r, 0)
  BY DEF IsPrefix
<1>9. IsPrefix(raw, r, Produced(r))' /\ IsPrefix(processed, r, offset[r]["consumer"])'
  BY <1>2, <1>3, <1>7, <1>8 DEF IsPrefix
<1>10. table' = TableOf(r, offset[r]["loader"])'
  BY <1>2, <1>3, <1>5 DEF TableOf
<1> QED
  BY <1>2, <1>3, <1>4, <1>6, <1>9, <1>10 DEF Exact, Later

\* The producer publishes its rows in order.
LEMMA PublishExact ==
  ASSUME TypeOK, FrameInv, NEW r \in Run, Publish(r), up, faults'[r] = 0, Exact(r)
  PROVE  Exact(r)'
<1>1. /\ task[r] = "producer" /\ handled[r] \in Nat
      /\ processed' = processed /\ offset' = offset /\ table' = table /\ dataset' = dataset
  BY DEF Publish, TypeOK
<1>2. raw' = Append(raw, <<r, handled[r] + 1>>) /\ Step(r, FALSE)
  BY NoFault DEF Publish, Compose, NextRow
<1>3. /\ task' = task /\ handled'[r] = handled[r] + 1 /\ failed'[r] = failed[r]
  BY <1>2 DEF Step, TypeOK
<1>4. IsPrefix(raw, r, handled[r]) /\ raw \in Seq(Record) /\ <<r, handled[r] + 1>> \in Record
  BY <1>1, NextRowIsRecord, TypeParts DEF Exact, Produced, NextRow, TypeOK
<1>5. IsPrefix(raw', r, handled[r] + 1)
  <2> DEFINE x == <<r, handled[r] + 1>>
  <2>1. x \in Record /\ raw' = Append(raw, x) /\ Len(raw) = handled[r]
    BY <1>2, <1>4 DEF IsPrefix
  <2> HIDE DEF x
  <2>2. /\ Len(raw') = handled[r] + 1 /\ raw'[handled[r] + 1] = x
        /\ \A i \in 1..handled[r] : raw'[i] = raw[i]
    BY <1>1, <1>4, <2>1
  <2>3. \A i \in 1..(handled[r] + 1) : i \in 1..handled[r] \/ i = handled[r] + 1
    BY <1>1
  <2> QED
    BY <1>4, <2>2, <2>3 DEF IsPrefix, x
<1>6. Produced(r)' = handled[r] + 1
  BY <1>1, <1>3 DEF Produced
<1>7. IsPrefix(raw, r, Produced(r))'
  BY <1>5, <1>6 DEF IsPrefix
<1> QED
  BY <1>1, <1>3, <1>7, SameData DEF Exact, IsPrefix, TableOf, Later

\* The consumer relays the rows in order, and no more than its maximum.
LEMMA RelayExact ==
  ASSUME TypeOK, FrameInv, NEW r \in Run, Relay(r), faults'[r] = 0, Exact(r)
  PROVE  Exact(r)'
<1> DEFINE o == offset[r]["consumer"]
<1>1. /\ task[r] = "consumer" /\ handled[r] < MaxMessages["consumer"] /\ o < Len(raw)
      /\ raw' = raw /\ table' = table /\ dataset' = dataset
  BY DEF Relay, Unread, Position
<1>2. /\ "consumer" \in Group /\ "loader" \in Group /\ o \in Nat
      /\ raw \in Seq(Record) /\ processed \in Seq(Record)
  BY DEF TypeOK, Group
<1>3. /\ processed' = Append(processed, raw[o + 1]) /\ offset' = Advanced(r, "consumer")
      /\ Step(r, FALSE)
  BY NoFault DEF Relay, NextMessage, Position
<1>4. /\ task' = task /\ handled'[r] = handled[r] + 1 /\ failed'[r] = failed[r]
  BY <1>3 DEF Step, TypeOK
<1>5. offset'[r]["consumer"] = o + 1 /\ offset'[r]["loader"] = offset[r]["loader"]
  BY <1>2, <1>3, Commits
<1>6. /\ Conforms(r) /\ IsPrefix(raw, r, Rows(r)) /\ IsPrefix(processed, r, o)
      /\ handled[r] = o /\ failed[r] = 0
  BY <1>1 DEF Exact, Produced
<1> HIDE DEF o
<1>7. o + 1 <= Relayed(r)
  <2>1. Len(raw) = Rows(r)
    BY <1>6 DEF IsPrefix
  <2> QED
    BY <1>1, <1>2, <1>6, <2>1, Limits
<1>8. IsPrefix(processed', r, o + 1)
  <2> DEFINE x == raw[o + 1]
  <2>1. x \in Record /\ x = <<r, o + 1>>
    BY <1>1, <1>2, <1>6 DEF IsPrefix
  <2>2. processed' = Append(processed, x)
    BY <1>3
  <2> HIDE DEF x
  <2>3. Len(processed) = o
    BY <1>6 DEF IsPrefix
  <2>4. /\ Len(processed') = o + 1 /\ processed'[o + 1] = x
        /\ \A i \in 1..o : processed'[i] = processed[i]
    BY <1>2, <2>1, <2>2, <2>3
  <2>5. \A i \in 1..(o + 1) : i \in 1..o \/ i = o + 1
    BY <1>2
  <2> QED
    BY <1>6, <2>1, <2>4, <2>5 DEF IsPrefix
<1>9. IsPrefix(processed, r, offset[r]["consumer"])'
  BY <1>5, <1>8 DEF IsPrefix
<1>10. Produced(r)' = Rows(r) /\ Relayed(r)' = Relayed(r) /\ Conforms(r)'
  BY <1>1, <1>4, <1>6, SameData DEF Produced
<1>11. IsPrefix(raw, r, Produced(r))'
  BY <1>1, <1>6, <1>10 DEF IsPrefix
<1>12. table' = TableOf(r, offset[r]["loader"])'
  BY <1>1, <1>5 DEF Exact, TableOf
<1> QED
  BY <1>1, <1>4, <1>5, <1>6, <1>7, <1>9, <1>10, <1>11, <1>12 DEF Exact, Later

\* The loader stores the next row, but for one that PostgreSQL refuses.
LEMMA LoadExact ==
  ASSUME TypeOK, FrameInv, NEW r \in Run, Load(r), faults'[r] = 0, Exact(r)
  PROVE  Exact(r)'
<1> DEFINE o == offset[r]["loader"]
           x == processed[o + 1]
           poison == dataset[x[1]][x[2]] = "unstorable"
<1>1. /\ task[r] = "loader" /\ o < Len(processed)
      /\ raw' = raw /\ processed' = processed /\ dataset' = dataset
  BY DEF Load, Unread, Position
<1>2. /\ "consumer" \in Group /\ "loader" \in Group /\ o \in Nat
      /\ processed \in Seq(Record) /\ table \in [Record -> Nat]
  BY DEF TypeOK, Group
<1>3. /\ table' = IF poison THEN table ELSE [table EXCEPT ![x] = @ + 1]
      /\ offset' = Advanced(r, "loader") /\ Step(r, poison)
  BY NoFault DEF Load, NextMessage, Position
<1>4. /\ task' = task /\ handled'[r] = handled[r] + 1 /\ handled[r] \in Nat
  BY <1>3 DEF Step, TypeOK
<1>5. offset'[r]["loader"] = o + 1 /\ offset'[r]["consumer"] = offset[r]["consumer"]
  <2>1. "loader" \in Group /\ offset' = Advanced(r, "loader")
    BY <1>2, <1>3
  <2>2. "consumer" \in Group \ {"loader"}
    BY <1>2
  <2> HIDE DEF x, poison
  <2> QED
    BY <2>1, <2>2, Commits
<1>6. /\ Conforms(r) /\ IsPrefix(raw, r, Rows(r))
      /\ IsPrefix(processed, r, offset[r]["consumer"])
      /\ offset[r]["consumer"] = Relayed(r) /\ LoaderExact(r)
      /\ table = TableOf(r, o)
  BY <1>1 DEF Exact, Produced
<1> HIDE DEF o
<1>7. x \in Record /\ x = <<r, o + 1>> /\ o + 1 <= Rows(r)
  <2>1. Len(processed) = Relayed(r) /\ \A i \in 1..Relayed(r) : processed[i] = <<r, i>>
    BY <1>6 DEF IsPrefix
  <2>2. Rows(r) \in Nat /\ Relayed(r) \in Nat /\ Relayed(r) <= Rows(r)
    BY Limits
  <2>3. o + 1 \in 1..Relayed(r)
    BY <1>1, <1>2, <2>1, <2>2
  <2> QED
    BY <1>2, <2>1, <2>2, <2>3
<1>8. dataset[r][o + 1] \in {"ok", "unstorable"}
  <2>1. PICK n \in 1..MaxRows : dataset[r] \in [1..n -> RowKind]
    BY DagAssumption DEF TypeOK
  <2>2. n \in Nat /\ Len(dataset[r]) = n /\ DOMAIN dataset[r] = 1..n
    BY <2>1, DagAssumption
  <2>3. o + 1 \in 1..n
    BY <1>2, <1>7, <2>2 DEF Rows
  <2> QED
    BY <1>6, <2>1, <2>2, <2>3 DEF Conforms, RowKind
<1>9. table' = TableOf(r, o + 1)
  <2> DEFINE ok == dataset[r][o + 1] = "ok"
  <2>1. poison = ~ok
    BY <1>7, <1>8
  <2>2. \A m \in Record : m = x <=> m[1] = r /\ m[2] = o + 1
    BY <1>7 DEF Record
  <2>3. \A m \in Record : m[2] \in Nat
    BY DagAssumption DEF Record
  <2>4. \A m \in Record : m[2] <= o + 1 <=> m[2] <= o \/ m[2] = o + 1
    BY <1>2, <2>3
  <2>5. /\ \A m \in Record : TableOf(r, o)[m] =
               IF m[1] = r /\ m[2] <= o /\ dataset[r][m[2]] = "ok" THEN 1 ELSE 0
        /\ \A m \in Record : TableOf(r, o + 1)[m] =
               IF m[1] = r /\ m[2] <= o + 1 /\ dataset[r][m[2]] = "ok" THEN 1 ELSE 0
    BY DEF TableOf
  <2>6. table[x] = 0
    BY <1>2, <1>6, <1>7, <2>5
  <2>7. \A m \in Record : table'[m] = TableOf(r, o + 1)[m]
    <3>1. TAKE m \in Record
    <3>2. CASE m = x
      <4>1. TableOf(r, o + 1)[m] = IF ok THEN 1 ELSE 0
        BY <2>2, <2>4, <2>5, <3>2
      <4>2. table'[m] = IF ok THEN 1 ELSE 0
        BY <1>2, <1>3, <2>1, <2>6, <3>2
      <4> QED
        BY <4>1, <4>2
    <3>3. CASE m # x
      <4>1. TableOf(r, o + 1)[m] = TableOf(r, o)[m]
        BY <2>2, <2>4, <2>5, <3>3
      <4>2. table'[m] = table[m]
        BY <1>2, <1>3, <3>3
      <4> QED
        BY <1>6, <4>1, <4>2
    <3> QED
      BY <3>2, <3>3
  <2>8. table' \in [Record -> Nat] /\ TableOf(r, o + 1) \in [Record -> Nat]
    BY StepTypes DEF Progress, TableOf
  <2> QED
    BY <2>7, <2>8
<1>10. table' = TableOf(r, offset[r]["loader"])'
  BY <1>1, <1>5, <1>9 DEF TableOf
<1>11. Produced(r)' = Rows(r) /\ Relayed(r)' = Relayed(r) /\ Conforms(r)'
  BY <1>1, <1>4, <1>6, SameData DEF Produced
<1>12. IsPrefix(raw, r, Produced(r))' /\ IsPrefix(processed, r, offset[r]["consumer"])'
  BY <1>1, <1>5, <1>6, <1>11 DEF IsPrefix
<1>13. LoaderExact(r)'
  <2>1. /\ handled[r] < MaxMessages["loader"] /\ MaxMessages["loader"] \in Nat
        /\ attempt'[r] = attempt[r] /\ FirstRead(r)' = FirstRead(r) /\ FirstRead(r) \in Nat
    BY <1>1, <1>3, Limits, SameData DEF Load, Step
  <2>2. handled'[r] <= MaxMessages["loader"]
    BY <1>4, <2>1
  <2>3. CASE attempt[r] = 1
    <3>1. o = handled[r] /\ (failed[r] = 0 <=> ~Refused(r, o)) /\ failed[r] \in Nat
      BY <1>6, <2>3, TypeParts DEF LoaderExact, ProcessOK, o
    <3>2. Refused(r, o + 1) <=> Refused(r, o) \/ poison
      <4>1. poison <=> dataset[r][o + 1] = "unstorable"
        BY <1>7
      <4>2. \A i : i \in 1..(o + 1) <=> i \in 1..o \/ i = o + 1
        BY <1>2
      <4> QED
        BY <4>1, <4>2 DEF Refused
    <3>3. failed'[r] = failed[r] + IF poison THEN 1 ELSE 0
      BY <1>3, TypeParts DEF Step, ProcessOK
    <3>4. failed'[r] = 0 <=> ~Refused(r, o + 1)
      BY <3>1, <3>2, <3>3
    <3>5. (failed[r] = 0 <=> ~Refused(r, handled[r]))'
      <4>1. handled'[r] = o + 1 /\ dataset' = dataset
        BY <1>1, <1>4, <3>1
      <4>2. (\E i \in 1..(o + 1) : dataset[r][i] = "unstorable")
               <=> \E i \in 1..handled'[r] : dataset'[r][i] = "unstorable"
        BY <4>1
      <4> QED
        BY <3>4, <4>2 DEF Refused
    <3> QED
      BY <1>4, <1>5, <2>1, <2>2, <2>3, <3>1, <3>5 DEF LoaderExact
  <2>4. CASE attempt[r] # 1
    <3>1. o = FirstRead(r) + handled[r] /\ Refused(r, FirstRead(r))
      BY <1>6, <2>4 DEF LoaderExact, o
    <3>2. Refused(r, FirstRead(r))'
      BY <1>1, <2>1, <3>1 DEF Refused
    <3> QED
      BY <1>4, <1>5, <2>1, <2>2, <2>4, <3>1, <3>2 DEF LoaderExact
  <2> QED
    BY <2>3, <2>4
<1> QED
  BY <1>1, <1>4, <1>5, <1>6, <1>10, <1>11, <1>12, <1>13, Limits DEF Exact, Later

\* An attempt ends with zero only when its work is done.
LEMMA ExitExact ==
  ASSUME TypeOK, FrameInv, NEW r \in Run, Progress(r), alone[r],
         ~Publish(r), ~Relay(r), ~Load(r),
         task[r] \notin Before, task'[r] # "failed", faults'[r] = 0, Exact(r)
  PROVE  Exact(r)'
<1>1. /\ raw' = raw /\ processed' = processed /\ table' = table /\ offset'[r] = offset[r]
  BY SharedStep DEF Truncate, Before
<1>2. /\ task[r] \in Task /\ handled'[r] = 0 /\ failed'[r] = 0 /\ dataset' = dataset
      /\ task'[r] \in {task[r], After(task[r])}
  BY OwnStep
<1>3. /\ Conforms(r)' = Conforms(r) /\ Relayed(r)' = Relayed(r) /\ Rows(r)' = Rows(r)
      /\ Read(r)' = Read(r)
      /\ table' = TableOf(r, offset[r]["loader"])'
      /\ IsPrefix(processed, r, offset[r]["consumer"])'
      /\ offset'[r]["consumer"] <= Relayed(r)'
  BY <1>1, <1>2, SameData DEF Exact, TableOf, IsPrefix
<1>4. /\ offset[r]["consumer"] \in Nat /\ offset[r]["loader"] \in Nat
      /\ handled[r] \in Nat /\ failed[r] \in Nat
      /\ Rows(r) \in Nat \ {0} /\ Relayed(r) \in Nat
  <2>1. offset[r]["consumer"] \in Nat /\ offset[r]["loader"] \in Nat
    <3>1. offset[r] \in [Group -> Nat] /\ "consumer" \in Group /\ "loader" \in Group
      BY DEF TypeOK, Group
    <3> QED
      BY <3>1
  <2>2. handled[r] \in Nat /\ failed[r] \in Nat
    BY DEF TypeOK
  <2> QED
    BY <2>1, <2>2, Limits
<1> DEFINE Goal ==
      /\ task'[r] # "contract" => Conforms(r)
      /\ Produced(r)' = Produced(r)
      /\ task'[r] = "consumer" => offset[r]["consumer"] = 0
      /\ task'[r] \in {"loader", "green"} \cup Later => offset[r]["consumer"] = Relayed(r)
      /\ task'[r] = "loader" => LoaderExact(r)'
      /\ task'[r] \in {"green"} \cup Later => offset[r]["loader"] = Read(r)
<1>5. ASSUME task[r] = "contract"
      PROVE  Goal
  <2>1. ValidateContract(r)
    BY <1>5 DEF Progress, Reset, StartInfrastructure, Truncate, Publish, ProducerExits, Relay,
       ConsumerExits, Load, LoaderExits, DetectAnomalies, RunSpark, Upload,
       WriteObservability, ValidateObservability
  <2>2. task'[r] \in {"contract", "producer"}
    BY <1>2, <1>5, NextTask
  <2>3. task'[r] = "producer" => Conforms(r)
    <3>1. Fail(r) => task'[r] \in {"contract", "failed"}
      BY <1>5 DEF Fail, Begin, TypeOK
    <3> QED
      BY <2>1, <3>1 DEF ValidateContract, Exit
  <2>4. Produced(r)' = 0 /\ Produced(r) = 0
    BY <1>2, <1>5, <2>2 DEF Produced
  <2> QED
    BY <2>2, <2>3, <2>4 DEF Later
<1>6. ASSUME task[r] = "producer"
      PROVE  Goal
  <2>1. ProducerExits(r)
    BY <1>6 DEF Progress, Reset, StartInfrastructure, Truncate, ValidateContract, Publish, Relay,
       ConsumerExits, Load, LoaderExits, DetectAnomalies, RunSpark, Upload,
       WriteObservability, ValidateObservability
  <2>2. handled[r] = Rows(r) /\ failed[r] = 0 /\ Conforms(r)
    BY <1>6, <2>1 DEF ProducerExits, Exact
  <2>3. Succeed(r)
    BY <1>4, <2>1, <2>2 DEF ProducerExits, Exit, ProducerSucceeds
  <2>4. task'[r] = "consumer"
    BY <1>6, <2>3, NextTask DEF Succeed, Begin, TypeOK
  <2>5. offset[r]["consumer"] = 0
    BY <1>6 DEF FrameInv, Placed
  <2>6. Produced(r)' = Rows(r) /\ Produced(r) = Rows(r)
    BY <1>3, <1>6, <2>2, <2>4 DEF Produced
  <2> QED
    BY <2>2, <2>4, <2>5, <2>6 DEF Later
<1>7. ASSUME task[r] \in {"consumer", "loader"}
      PROVE  up'
  <2>1. up
    BY <1>2, <1>7 DEF FrameInv, Placed, Active
  <2> QED
    BY <1>7, <2>1, SharedStep DEF Reset
<1>8. ASSUME task[r] = "consumer"
      PROVE  Goal
  <2>1. ConsumerExits(r)
    BY <1>8 DEF Progress, Reset, StartInfrastructure, Truncate, ValidateContract, Publish,
       ProducerExits, Relay, Load, LoaderExits, DetectAnomalies, RunSpark, Upload,
       WriteObservability, ValidateObservability
  <2>2. /\ IsPrefix(raw, r, Rows(r)) /\ handled[r] = offset[r]["consumer"] /\ failed[r] = 0
        /\ Conforms(r) /\ offset[r]["consumer"] <= Relayed(r)
    BY <1>8 DEF Exact, Produced
  <2>3. Finished(raw, r, "consumer") /\ Succeed(r)
    BY <2>1, <2>2, NoFault DEF ConsumerExits, Exit, NoneFailed
  <2>4. offset[r]["consumer"] >= Rows(r) \/ offset[r]["consumer"] >= MaxMessages["consumer"]
    BY <1>4, <1>7, <1>8, <2>2, <2>3 DEF Finished, Unread, Position, IsPrefix
  <2>5. offset[r]["consumer"] = Relayed(r)
    BY <1>4, <2>2, <2>4, Limits
  <2>6. task'[r] = "loader"
    BY <1>8, <2>3, NextTask DEF Succeed, Begin, TypeOK
  <2>7. Produced(r)' = Rows(r) /\ Produced(r) = Rows(r)
    BY <1>3, <1>8, <2>6 DEF Produced
  <2>8. LoaderExact(r)'
    <3>1. attempt'[r] = 1 /\ handled'[r] = 0 /\ failed'[r] = 0 /\ offset'[r]["loader"] = 0
      <4>1. attempt'[r] = 1
        BY <2>3, TypeParts DEF Succeed, Begin, ProcessOK
      <4>2. offset[r]["loader"] = 0
        BY <1>8 DEF FrameInv, Placed
      <4> QED
        BY <1>1, <1>2, <4>1, <4>2
    <3>2. ~Refused(r, 0)'
      BY DEF Refused
    <3>3. (~Refused(r, handled[r]))'
      BY <3>1, <3>2 DEF Refused
    <3> QED
      BY <3>1, <3>3, Limits DEF LoaderExact
  <2> QED
    BY <2>2, <2>5, <2>6, <2>7, <2>8 DEF Later
<1>9. ASSUME task[r] = "loader"
      PROVE  Goal
  <2>1. LoaderExits(r)
    BY <1>9 DEF Progress, Reset, StartInfrastructure, Truncate, ValidateContract, Publish,
       ProducerExits, Relay, ConsumerExits, Load, DetectAnomalies, RunSpark, Upload,
       WriteObservability, ValidateObservability
  <2>2. /\ IsPrefix(processed, r, Relayed(r)) /\ LoaderExact(r)
        /\ Conforms(r) /\ offset[r]["consumer"] = Relayed(r)
        /\ offset[r]["loader"] <= Len(processed)
    BY <1>9 DEF Exact, FrameInv, Placed
  <2>3. Finished(processed, r, "loader") /\ Exit(r, NoneFailed(r))
    BY <2>1, NoFault DEF LoaderExits
  <2>4. /\ offset[r]["loader"] <= Relayed(r)
        /\ handled[r] = MaxMessages["loader"] \/ offset[r]["loader"] = Relayed(r)
    <3>1. handled[r] >= MaxMessages["loader"] \/ ~(offset[r]["loader"] < Len(processed))
      BY <1>7, <1>9, <2>3 DEF Finished, Unread, Position
    <3>2. Len(processed) = Relayed(r) /\ handled[r] <= MaxMessages["loader"]
      BY <2>2 DEF IsPrefix, LoaderExact
    <3> QED
      BY <1>4, <2>2, <3>1, <3>2, Limits
  <2>5. CASE attempt[r] = 1
    <3>1. offset[r]["loader"] = FirstRead(r) /\ handled[r] = FirstRead(r)
      <4>1. offset[r]["loader"] = handled[r] /\ handled[r] <= MaxMessages["loader"]
        BY <2>2, <2>5 DEF LoaderExact
      <4> QED
        BY <1>4, <2>4, <4>1, Limits
    <3>2. failed[r] = 0 <=> ~Refused(r, FirstRead(r))
      BY <2>2, <2>5, <3>1 DEF LoaderExact
    <3>3. CASE failed[r] = 0
      <4>1. Succeed(r)
        BY <2>3, <3>3 DEF Exit, NoneFailed
      <4>2. task'[r] = "anomalies"
        BY <1>9, <4>1, NextTask DEF Succeed, Begin, TypeOK
      <4>3. offset[r]["loader"] = Read(r)
        BY <3>1, <3>2, <3>3 DEF Read
      <4>4. Produced(r)' = Rows(r) /\ Produced(r) = Rows(r)
        BY <1>3, <1>9, <4>2 DEF Produced
      <4> QED
        BY <2>2, <4>2, <4>3, <4>4
    <3>4. CASE failed[r] # 0
      <4>1. Fail(r)
        BY <2>3, <3>4 DEF Exit, NoneFailed
      <4>2. task'[r] = "loader" /\ attempt'[r] = 2
        BY <1>9, <2>5, <4>1, TypeParts DEF Fail, Begin, ProcessOK
      <4>3. LoaderExact(r)'
        <5>1. offset'[r]["loader"] = FirstRead(r) + handled'[r] /\ handled'[r] = 0
          BY <1>1, <1>2, <3>1, Limits
        <5>2. Refused(r, FirstRead(r)) /\ dataset' = dataset
          BY <1>2, <3>2, <3>4
        <5>3. FirstRead(r)' = FirstRead(r)
          BY <5>2, SameData
        <5>4. Refused(r, FirstRead(r))'
          BY <5>2, <5>3 DEF Refused
        <5> QED
          BY <4>2, <5>1, <5>3, <5>4, Limits DEF LoaderExact
      <4>4. Produced(r)' = Rows(r) /\ Produced(r) = Rows(r)
        BY <1>3, <1>9, <4>2 DEF Produced
      <4> QED
        BY <2>2, <4>2, <4>3, <4>4 DEF Later
    <3> QED
      BY <3>3, <3>4
  <2>6. CASE attempt[r] # 1
    <3>1. ~Fail(r)
      BY <2>6, TypeParts DEF Fail, Begin, ProcessOK
    <3>2. task'[r] = "anomalies"
      <4>1. Succeed(r)
        BY <2>3, <3>1 DEF Exit
      <4> QED
        BY <1>9, <4>1, NextTask DEF Succeed, Begin, TypeOK
    <3>3. offset[r]["loader"] = Read(r)
      <4>1. /\ Refused(r, FirstRead(r)) /\ offset[r]["loader"] = FirstRead(r) + handled[r]
            /\ handled[r] <= MaxMessages["loader"]
        BY <2>2, <2>6 DEF LoaderExact
      <4>2. Read(r) = IF Relayed(r) < 2 * MaxMessages["loader"]
                      THEN Relayed(r) ELSE 2 * MaxMessages["loader"]
        BY <4>1 DEF Read, Least
      <4> QED
        BY <1>4, <2>4, <4>1, <4>2, Limits
    <3>4. Produced(r)' = Rows(r) /\ Produced(r) = Rows(r)
      BY <1>3, <1>9, <3>2 DEF Produced
    <3> QED
      BY <2>2, <3>2, <3>3, <3>4
  <2> QED
    BY <2>5, <2>6
<1>10. ASSUME task[r] \in Later
      PROVE  Goal
  <2>1. task'[r] \in {"green"} \cup Later
    BY <1>2, <1>10, NextTask DEF Later
  <2>2. Conforms(r) /\ offset[r]["consumer"] = Relayed(r) /\ offset[r]["loader"] = Read(r)
    BY <1>10 DEF Exact, Later
  <2>3. Produced(r)' = Rows(r) /\ Produced(r) = Rows(r)
    BY <1>3, <1>10, <2>1 DEF Produced, Later
  <2> QED
    BY <2>1, <2>2, <2>3 DEF Later
<1>11. Goal
  BY <1>2, <1>5, <1>6, <1>8, <1>9, <1>10, NextTask DEF Before
<1>12. IsPrefix(raw, r, Produced(r))'
  BY <1>1, <1>11 DEF Exact, IsPrefix
<1> QED
  BY <1>1, <1>2, <1>3, <1>11, <1>12 DEF Exact

\* No run is undisturbed at the start.
LEMMA ExactInit == Init => ExactInv
BY DagAssumption DEF Init, ExactInv, Undisturbed

\* Every step that is no failure takes a clean run further as it should.
LEMMA ExactStep == TypeOK /\ FrameInv /\ ExactInv /\ [Next]_vars => ExactInv'
<1> SUFFICES ASSUME TypeOK, FrameInv, ExactInv, [Next]_vars, NEW r \in Run, Undisturbed(r)',
                    faults'[r] = 0, task'[r] # "failed"
             PROVE  Exact(r)'
  BY DEF ExactInv
<1>1. ASSUME /\ Undisturbed(r)
             /\ raw' = raw /\ processed' = processed /\ table' = table
             /\ task'[r] = task[r] /\ attempt'[r] = attempt[r]
             /\ handled'[r] = handled[r] /\ failed'[r] = failed[r]
             /\ offset'[r] = offset[r] /\ faults'[r] = faults[r] /\ dataset' = dataset
      PROVE  Exact(r)'
  <2>1. Exact(r)
    BY <1>1 DEF ExactInv
  <2>2. LoaderExact(r)' = LoaderExact(r)
    BY <1>1, SameData DEF LoaderExact, Refused
  <2>3. Produced(r)' = Produced(r)
    BY <1>1, SameData DEF Produced
  <2> QED
    BY <1>1, <2>1, <2>2, <2>3, SameData DEF Exact, IsPrefix, TableOf
<1>2. CASE UNCHANGED vars
  BY <1>1, <1>2 DEF vars, process, kafka, history, Undisturbed
<1>3. ASSUME NEW q \in Run, q # r, Trigger(q) \/ Progress(q) \/ Break(q)
      PROVE  Exact(r)'
  BY <1>1, <1>3, OthersWait
<1>4. ~Trigger(r)
  BY DEF Trigger, Undisturbed, FrameInv, Placed, Before
<1>5. CASE Progress(r) \/ Break(r)
  <2>1. alone[r] /\ empty[r] /\ owner' = r
    BY <1>5, OwnStep DEF Undisturbed
  <2>2. Progress(r)
    BY <1>5, NoFault DEF Break
  <2>3. CASE Truncate(r)
    BY <2>1, <2>3, TruncateExact
  <2>4. CASE ~Truncate(r)
    <3>1. Undisturbed(r)
      BY <1>5, <2>1, <2>4, SharedStep DEF Undisturbed
    <3>2. task[r] \notin Before /\ task[r] \in Task /\ faults[r] = 0
      <4>1. task[r] \in Task /\ faults'[r] \in {faults[r], faults[r] + 1} /\ faults[r] \in Nat
        BY <1>5, OwnStep DEF TypeOK
      <4> QED
        BY <3>1, <4>1 DEF Undisturbed, FrameInv, Placed
    <3>3. Exact(r)
      BY <3>1, <3>2, NextTask DEF ExactInv, Later
    <3>4. CASE Publish(r)
      <4>1. up
        <5>1. task[r] = "producer" /\ Active(r)
          BY <3>4, NextTask DEF Publish, Active
        <5> QED
          BY <2>1, <5>1 DEF FrameInv, Placed
      <4> QED
        BY <3>3, <3>4, <4>1, PublishExact
    <3>5. CASE Relay(r)
      BY <3>3, <3>5, RelayExact
    <3>6. CASE Load(r)
      BY <3>3, <3>6, LoadExact
    <3>7. CASE ~Publish(r) /\ ~Relay(r) /\ ~Load(r)
      BY <2>1, <2>2, <3>2, <3>3, <3>7, ExitExact
    <3> QED
      BY <3>4, <3>5, <3>6, <3>7
  <2> QED
    BY <2>3, <2>4
<1> QED
  BY <1>2, <1>3, <1>4, <1>5 DEF Next

\* A run of the DAG that nothing disturbs and nothing fails leaves one row in
\* the warehouse for every storable row of its data set that the message limits
\* let through, and no other: the retry of a loader that has met a row
\* PostgreSQL refuses goes on after that row.
THEOREM CleanRunLoadsExactly == Spec => []CleanRunExact
<1>1. Init => TypeOK /\ FrameInv /\ ExactInv
  BY TypeInit, FrameInit, ExactInit
<1>2. TypeOK /\ FrameInv /\ ExactInv /\ [Next]_vars => (TypeOK /\ FrameInv /\ ExactInv)'
  BY TypeStep, FrameStep, ExactStep
<1>3. TypeOK /\ ExactInv => CleanRunExact
  <2> SUFFICES ASSUME TypeOK, ExactInv, NEW r \in Run, Loaded(r), Undisturbed(r), faults[r] = 0,
                      NEW m \in Record
               PROVE  table[m] = IF m[1] = r /\ m[2] <= Read(r) /\ dataset[r][m[2]] = "ok"
                                 THEN 1 ELSE 0
    BY DEF CleanRunExact
  <2>1. task[r] \in {"green"} \cup Later
    BY DEF Loaded, Later
  <2>2. Exact(r)
    BY <2>1 DEF ExactInv, Later
  <2>3. table = TableOf(r, Read(r))
    BY <2>1, <2>2 DEF Exact
  <2> QED
    BY <2>3 DEF TableOf
<1> QED
  BY <1>1, <1>2, <1>3, PTL DEF Spec

-----------------------------------------------------------------------------
(***************************************************************************)
(* The end of a run.  Beside the fairness, RunFinishes rests on two facts: *)
(* an active run has a step to take, and its steps alone move it, each of  *)
(* them nearer to its end.                                                 *)
(***************************************************************************)

\* What the attempt may still handle.
Unhandled(r) ==
    (IF task[r] = "producer" THEN Rows(r) ELSE MaxMessages[task[r]]) - handled[r]

\* The run is nearer to its end: it is over or at the next task, or in its
\* second attempt of the same one, or it has handled one thing more in the same
\* attempt, where it stays within what it may handle.
Nearer(r) ==
    \/ task'[r] \in Ended
    \/ \E i \in 1..Len(Chain) - 1 : task[r] = Chain[i] /\ task'[r] = Chain[i + 1]
    \/ /\ task'[r] = task[r]
       /\ \/ attempt[r] = 1 /\ attempt'[r] = 2
          \/ /\ attempt'[r] = attempt[r]
             /\ Unhandled(r)' \in Nat /\ Unhandled(r)' < Unhandled(r)

Unmoved(r) == UNCHANGED <<task[r], attempt[r], handled[r], dataset[r]>>

\* Nothing takes an active run back, whatever fails, is retried or overlaps:
\* its own steps bring it nearer to its end, and no other step moves it.
RunAdvances ==
    [][\A r \in Run : Active(r) =>
          /\ Nearer(r) \/ Unmoved(r)
          /\ Progress(r) \/ Break(r) => Nearer(r)]_vars

\* The guards of Progress: only the producer's, the consumer's and the loader's
\* depend on more than the task the run is at.
RunAble(r) ==
    \/ task[r] \in {"reset", "start", "truncate", "contract"} \cup Later
    \/ task[r] = "producer" /\ (handled[r] < Rows(r) \/ handled[r] = Rows(r))
    \/ \E g \in Group :
          /\ task[r] = g
          /\ LET T == IF g = "consumer" THEN raw ELSE processed
                 running == up \/ handled[r] = 0
             IN  \/ handled[r] < MaxMessages[g] /\ running /\ Unread(T, r, g)
                 \/ handled[r] >= MaxMessages[g] \/ ~Unread(T, r, g) \/ ~running

\* An active run has a step to take.
RunsNotStuck == \A r \in Run : Active(r) => RunAble(r)

\* One attempt more, or one thing more in the same attempt.
LEMMA AttemptMoves ==
  ASSUME TypeOK, NEW r \in Run, Progress(r) \/ Break(r)
  PROVE  \/ task'[r] = After(task[r])
         \/ task'[r] = task[r] /\ attempt[r] = 1 /\ attempt'[r] = 2
         \/ task'[r] = "failed"
         \/ /\ task'[r] = task[r] /\ attempt'[r] = attempt[r] /\ handled'[r] = handled[r] + 1
            /\ Publish(r) \/ Relay(r) \/ Load(r)
BY OwnStep

\* A step of run r brings r nearer to its end.
LEMMA OwnAdvance ==
  ASSUME TypeOK, NEW r \in Run, Progress(r) \/ Break(r)
  PROVE  Nearer(r)
<1>1. CASE task'[r] = After(task[r])
  <2>1. task[r] \in Task
    BY Outcome
  <2> DEFINE i == CHOOSE i \in DOMAIN Chain : Chain[i] = task[r]
  <2>2. i \in DOMAIN Chain /\ Chain[i] = task[r]
    BY <2>1 DEF Task
  <2>3. task'[r] = IF i = Len(Chain) THEN "green" ELSE Chain[i + 1]
    BY <1>1 DEF After
  <2>4. Len(Chain) = 12 /\ DOMAIN Chain = 1..12
    BY DEF Chain
  <2> HIDE DEF i
  <2>5. CASE i = Len(Chain)
    BY <2>3, <2>5 DEF Nearer, Ended
  <2>6. CASE i # Len(Chain)
    <3>1. i \in 1..Len(Chain) - 1
      BY <2>2, <2>4, <2>6
    <3> QED
      BY <2>2, <2>3, <2>6, <3>1 DEF Nearer
  <2> QED
    BY <2>5, <2>6
<1>2. CASE task'[r] = "failed"
  BY <1>2 DEF Nearer, Ended
<1>3. CASE task'[r] = task[r] /\ attempt[r] = 1 /\ attempt'[r] = 2
  BY <1>3 DEF Nearer
<1>4. CASE /\ task'[r] = task[r] /\ attempt'[r] = attempt[r] /\ handled'[r] = handled[r] + 1
           /\ Publish(r) \/ Relay(r) \/ Load(r)
  <2>1. /\ handled[r] \in Nat /\ Rows(r) \in Nat
        /\ MaxMessages["consumer"] \in Nat /\ MaxMessages["loader"] \in Nat
    BY Limits, TypeParts DEF ProcessOK
  <2>2. Rows(r)' = Rows(r)
    BY OwnStep DEF Rows
  <2>3. CASE task[r] = "producer"
    <3>1. handled[r] < Rows(r)
      BY <1>4, <2>3 DEF Publish, Relay, Load
    <3>2. Unhandled(r) = Rows(r) - handled[r] /\ Unhandled(r)' = Rows(r) - (handled[r] + 1)
      BY <1>4, <2>2, <2>3 DEF Unhandled
    <3> QED
      BY <1>4, <2>1, <3>1, <3>2 DEF Nearer
  <2>4. CASE task[r] # "producer"
    <3>1. PICK g \in Group : task[r] = g /\ handled[r] < MaxMessages[g]
      BY <1>4, <2>4 DEF Publish, Relay, Load, Group
    <3>2. /\ Unhandled(r) = MaxMessages[g] - handled[r]
          /\ Unhandled(r)' = MaxMessages[g] - (handled[r] + 1)
      BY <1>4, <2>4, <3>1 DEF Unhandled
    <3>3. MaxMessages[g] \in Nat
      BY <2>1 DEF Group
    <3> QED
      BY <1>4, <2>1, <3>1, <3>2, <3>3 DEF Nearer
  <2> QED
    BY <2>3, <2>4
<1> QED
  BY <1>1, <1>2, <1>3, <1>4, AttemptMoves

\* A step of another run does not move r.
LEMMA OthersDoNotMove ==
  ASSUME TypeOK, NEW r \in Run, NEW q \in Run, q # r, Trigger(q) \/ Progress(q) \/ Break(q)
  PROVE  Unmoved(r)
BY OthersLeaveAlone DEF Unmoved

\* Nothing takes an active run back: its own steps bring it nearer to its end,
\* a failure and a retry too, and no other step moves it.
THEOREM RunsAdvance == Spec => RunAdvances
<1>1. TypeOK /\ [Next]_vars
        => [\A r \in Run : Active(r) =>
               /\ Nearer(r) \/ Unmoved(r)
               /\ Progress(r) \/ Break(r) => Nearer(r)]_vars
  <2> SUFFICES ASSUME TypeOK, Next, NEW r \in Run, Active(r)
               PROVE  /\ Nearer(r) \/ Unmoved(r)
                      /\ Progress(r) \/ Break(r) => Nearer(r)
    OBVIOUS
  <2>1. ~Trigger(r)
    BY NextTask DEF Trigger, Active, Later
  <2>2. PICK q \in Run : Trigger(q) \/ Progress(q) \/ Break(q)
    BY DEF Next
  <2>3. CASE q = r
    BY <2>1, <2>2, <2>3, OwnAdvance
  <2>4. CASE q # r
    BY <2>2, <2>4, OthersDoNotMove, OwnAdvance
  <2> QED
    BY <2>3, <2>4
<1> QED
  BY <1>1, TypeInvariant, PTL DEF Spec, RunAdvances

\* An active run has a step to take: the producer never passes the end of its
\* data set, and where the consumer and the loader cannot read, they exit.
THEOREM NeverStuck == Spec => []RunsNotStuck
<1>1. Init => TypeOK /\ FrameInv
  BY TypeInit, FrameInit
<1>2. TypeOK /\ FrameInv /\ [Next]_vars => (TypeOK /\ FrameInv)'
  BY TypeStep, FrameStep
<1>3. TypeOK /\ FrameInv => RunsNotStuck
  <2> SUFFICES ASSUME TypeOK, FrameInv, NEW r \in Run, task[r] \in Task
               PROVE  RunAble(r)
    BY DEF RunsNotStuck, Active
  <2>1. handled[r] \in Nat /\ Rows(r) \in Nat /\ \A g \in Group : MaxMessages[g] \in Nat
    BY Limits, TypeParts DEF ProcessOK, Group
  <2>2. task[r] = "producer" => handled[r] <= Rows(r)
    BY DEF FrameInv, Placed
  <2>3. task[r] = "producer" => RunAble(r)
    BY <2>1, <2>2 DEF RunAble
  <2>4. task[r] \in Group => RunAble(r)
    <3>1. \A g \in Group : handled[r] < MaxMessages[g] \/ handled[r] >= MaxMessages[g]
      BY <2>1
    <3> QED
      BY <3>1 DEF RunAble
  <2> QED
    BY <2>3, <2>4, NextTask DEF RunAble, Group
<1> QED
  BY <1>1, <1>2, <1>3, PTL DEF Spec
=============================================================================
