------------------------ MODULE ConcurrentRunnerProofs ------------------------
(***************************************************************************)
(* Proofs about the concurrent runner, for every size of the data set and  *)
(* every number of failures: type correctness; it implements the           *)
(* supervisor of SupervisedProcesses; a flow it judges leaves no container *)
(* behind but those of commands it terminated; the process it blames was   *)
(* not terminated by itself; a row count that passes bounds the rows that  *)
(* are missing by the records that were repeated; and what the runner      *)
(* waits for, and what brings it to its end.                               *)
(*                                                                         *)
(* The three after the types rest on one inductive invariant, RunnerInv:   *)
(* what was not started is unstarted, what ended with zero took its        *)
(* container along and nothing is marked before a culprit or a startup     *)
(* failure is known.  The row count rests on RepeatsPaid: a repetition in  *)
(* a topic or in the table is a copy, or one handed on.  Awaited is what   *)
(* the runner may count on while it waits.                                 *)
(***************************************************************************)
EXTENDS ConcurrentRunner, TLAPS, FiniteSetTheorems

\* The runner has not judged yet, and has started what its program point says.
Underway ==
    /\ pc \in {"launch", "poll", "grace", "collect"} => verdict = "none"
    /\ pc = "launch" => ~startup
    /\ pc \in {"poll", "grace", "collect"} => startup \/ started = Len(Order)
    /\ startup => started < Len(Order)
    /\ \A i \in 1..Len(Order) : i > started => client[Order[i]] = "unstarted"

\* A command that returned zero, or ended without being marked, has no container
\* any more; no command runs when the flow is judged, and it passes only with
\* three that returned zero.
Quiet ==
    /\ \A p \in Proc : client[p] = "unstarted" => container[p] = "none"
    /\ \A p \in Proc : client[p] = "zero" => container[p] = "gone"
    /\ \A p \in Proc : Ended(p) /\ p \notin marked => container[p] = "gone"
    /\ verdict = "passed" => \A p \in Proc : client[p] = "zero"
    /\ verdict \in {"passed", "failed"} => \A p \in Proc : client[p] # "running"

\* Nothing is marked before the runner knows why.
Unmarked == pc \in {"launch", "poll"} /\ ~startup => marked = {}

RunnerInv == TypeOK /\ Underway /\ Quiet /\ Unmarked /\ CulpritUnmarked

-----------------------------------------------------------------------------
(***************************************************************************)
(* The processes and their order.                                          *)
(***************************************************************************)

\* The processes are the three that Order lists, each in its own place.
LEMMA Processes ==
  /\ Len(Order) = 3
  /\ \A i \in 1..3 : Order[i] \in Proc
  /\ \A i, j \in 1..3 : Order[i] = Order[j] => i = j
  /\ \A p \in Proc : \E i \in 1..3 : p = Order[i]
  /\ "none" \notin Proc
BY DEF Order, Proc

\* While the first `started` processes are started, the handles are processes,
\* and all of them once every process is started.
LEMMA HandlesStarted ==
  ASSUME started \in 0..Len(Order)
  PROVE  /\ Handles \subseteq Proc
         /\ started = Len(Order) => Handles = Proc
         /\ Handles # {} => started \in 1..Len(Order)
         /\ started \in 1..Len(Order) => Handles # {}
<1>1. Handles \subseteq Proc
  BY Processes DEF Handles
<1>2. ASSUME started = Len(Order)
      PROVE  Handles = Proc
  BY <1>1, <1>2, Processes DEF Handles
<1>3. Handles # {} => started \in 1..Len(Order)
  BY Processes DEF Handles
<1>4. ASSUME started \in 1..Len(Order)
      PROVE  Handles # {}
  <2>1. 1 \in 1..started
    BY <1>4, Processes
  <2> QED
    BY <2>1 DEF Handles
<1> QED
  BY <1>1, <1>2, <1>3, <1>4

-----------------------------------------------------------------------------
(***************************************************************************)
(* Type correctness.                                                       *)
(***************************************************************************)

\* A longer sequence of rows, and a function with one value counted up.
LEMMA RowsAppended ==
  ASSUME NEW s \in Seq(Row), NEW i \in Row
  PROVE  Append(s, i) \in Seq(Row) /\ s \o <<i, i>> \in Seq(Row)
<1>1. <<i, i>> \in Seq(Row)
  OBVIOUS
<1> QED
  BY <1>1

\* The variables have their types at the start.
LEMMA TypeInit == Init => TypeOK
<1> SUFFICES ASSUME Init
             PROVE  TypeOK
  OBVIOUS
<1>1. raw \in Seq(Row) /\ processed \in Seq(Row) /\ stored \in Seq(Row)
  BY DEF Init
<1>2. /\ started \in 0..Len(Order) /\ scan \in 1..Len(Order)
      /\ faults \in 0..MaxFaults
  BY RunnerAssumption, Processes DEF Init
<1>3. /\ client \in [Proc -> {"unstarted", "running", "zero", "nonzero"}]
      /\ container \in [Proc -> {"none", "up", "gone"}]
      /\ done \in [Proc -> 0..Rows]
  BY RunnerAssumption DEF Init
<1> QED
  BY <1>1, <1>2, <1>3 DEF Init, TypeOK

\* Every step keeps every variable's type.
LEMMA TypeStep == TypeOK /\ [Next]_vars => TypeOK'
<1> SUFFICES ASSUME TypeOK, [Next]_vars
             PROVE  TypeOK'
  OBVIOUS
<1> USE RunnerAssumption DEF TypeOK, runner, docker, data, Fault
<1>1. CASE Launch
  <2>1. Running \subseteq Proc
    BY HandlesStarted DEF Running
  <2>2. started < Len(Order) => Order[started + 1] \in Proc /\ started + 1 \in 0..Len(Order)
    BY Processes
  <2>3. /\ client' \in [Proc -> {"unstarted", "running", "zero", "nonzero"}]
        /\ container' \in [Proc -> {"none", "up", "gone"}]
    BY <1>1, <2>2 DEF Launch
  <2>4. started' \in 0..Len(Order) /\ faults' \in 0..MaxFaults
    <3>1. /\ started' = started \/ (started < Len(Order) /\ started' = started + 1)
          /\ faults' = faults \/ (faults < MaxFaults /\ faults' = faults + 1)
      <4> HIDE DEF TypeOK
      <4> QED
        BY <1>1 DEF Launch
    <3>2. Len(Order) \in Nat
      BY DEF Order
    <3> QED
      BY <3>1, <3>2
  <2>5. /\ marked' \subseteq Proc /\ startup' \in BOOLEAN
        /\ pc' \in {"launch", "poll", "grace", "collect", "counts", "returned", "raised"}
        /\ verdict' \in {"none", "passed", "failed", "raised"}
    BY <1>1, <2>1 DEF Launch, Terminate, Marks
  <2> QED
    BY <1>1, <2>3, <2>4, <2>5 DEF Launch
<1>2. CASE Launched
  BY <1>2 DEF Launched
<1>3. CASE Poll
  <2>1. Running \subseteq Proc /\ started \in 1..Len(Order)
    BY <1>3, HandlesStarted DEF Running, Poll
  <2>2. Order[scan] \in Proc
    BY Processes
  <2>3. /\ seen' \subseteq Proc /\ scan' \in 1..Len(Order)
        /\ marked' \subseteq Proc /\ culprit' \in Proc \cup {"none"}
        /\ pc' \in {"launch", "poll", "grace", "collect", "counts", "returned", "raised"}
    BY <1>3, <2>1, <2>2 DEF Poll, Terminate, Marks
  <2> QED
    BY <1>3, <2>3 DEF Poll
<1>4. CASE \E p \in Proc : Kill(p)
  BY <1>4 DEF Kill
<1>5. CASE Terminated
  BY <1>5 DEF Terminated
<1>6. CASE Collect
  BY <1>6 DEF Collect
<1>7. CASE VerifyDeltas
  BY <1>7 DEF VerifyDeltas
<1>8. CASE Publish
  <2>1. "producer" \in Proc
    BY DEF Proc, Order
  <2> DEFINE i == done["producer"] + 1
  <2>2. i \in Row /\ done' \in [Proc -> 0..Rows]
    <3>1. done["producer"] \in 0..Rows /\ done["producer"] < Rows
      BY <1>8, <2>1 DEF Publish, Handle
    <3>2. done' = [done EXCEPT !["producer"] = @ + 1]
      BY <1>8 DEF Publish, Handle
    <3> QED
      BY <3>1, <3>2, <2>1 DEF Row
  <2>3. raw' \in Seq(Row)
    <3>1. raw' = Append(raw, i) \/ raw' = raw \o <<i, i>> \/ raw' = raw
      BY <1>8 DEF Publish
    <3>2. raw \in Seq(Row)
      OBVIOUS
    <3> HIDE DEF i, TypeOK
    <3> QED
      BY <3>1, <3>2, <2>2, RowsAppended
  <2>4. copies' \in Nat
    <3>1. copies' = copies + 1 \/ copies' = copies
      BY <1>8 DEF Publish
    <3> QED
      BY <3>1
  <2>5. faults' \in 0..MaxFaults
    <3>1. \/ faults < MaxFaults /\ faults' = faults + 1
          \/ faults' = faults
      BY <1>8 DEF Publish
    <3> QED
      BY <3>1
  <2> QED
    BY <1>8, <2>2, <2>3, <2>4, <2>5 DEF Publish
<1>9. CASE Relay
  <2>1. "consumer" \in Proc
    BY DEF Proc, Order
  <2> DEFINE i == raw[done["consumer"] + 1]
  <2>2. i \in Row
    BY <1>9, <2>1 DEF Relay
  <2>3. done' \in [Proc -> 0..Rows]
    <3>1. /\ done["consumer"] < Rows
          /\ done' = [done EXCEPT !["consumer"] = @ + 1]
      BY <1>9 DEF Relay, Handle
    <3>2. done["consumer"] + 1 \in 0..Rows
      BY <2>1, <3>1
    <3> QED
      BY <2>1, <3>1, <3>2
  <2>4. processed' \in Seq(Row)
    <3>1. \/ processed' = Append(processed, i) \/ processed' = processed
          \/ processed' = processed \o <<i, i>>
      BY <1>9 DEF Relay
    <3>2. processed \in Seq(Row)
      OBVIOUS
    <3> HIDE DEF i, TypeOK
    <3> QED
      BY <3>1, <3>2, <2>2, RowsAppended
  <2>5. copies' \in Nat
    <3>1. copies' = copies + 1 \/ copies' = copies
      BY <1>9 DEF Relay
    <3> QED
      BY <3>1
  <2>6. faults' \in 0..MaxFaults
    <3>1. \/ faults < MaxFaults /\ faults' = faults + 1
          \/ faults' = faults
      BY <1>9 DEF Relay
    <3> QED
      BY <3>1
  <2> QED
    BY <1>9, <2>3, <2>4, <2>5, <2>6 DEF Relay
<1>10. CASE Store
  <2>1. "loader" \in Proc
    BY DEF Proc, Order
  <2>2. done' \in [Proc -> 0..Rows]
    <3>1. /\ done["loader"] < Rows
          /\ done' = [done EXCEPT !["loader"] = @ + 1]
      BY <1>10 DEF Store, Handle
    <3>2. done["loader"] + 1 \in 0..Rows
      BY <2>1, <3>1
    <3> QED
      BY <2>1, <3>1, <3>2
  <2>3. stored' \in Seq(Row)
    <3> DEFINE i == processed[done["loader"] + 1]
    <3>1. i \in Row
      BY <1>10, <2>1 DEF Store
    <3>2. \/ stored' = Append(stored, i) \/ stored' = stored
          \/ stored' = stored \o <<i, i>>
      BY <1>10 DEF Store
    <3>3. stored \in Seq(Row)
      OBVIOUS
    <3> HIDE DEF TypeOK, i
    <3> QED
      BY <3>1, <3>2, <3>3, RowsAppended
  <2>4. copies' \in Nat
    <3>1. copies' = copies + 1 \/ copies' = copies
      BY <1>10 DEF Store
    <3> QED
      BY <3>1
  <2>5. faults' \in 0..MaxFaults
    <3>1. \/ faults < MaxFaults /\ faults' = faults + 1
          \/ faults' = faults
      BY <1>10 DEF Store
    <3> QED
      BY <3>1
  <2> QED
    BY <1>10, <2>2, <2>3, <2>4, <2>5 DEF Store
<1>11. ASSUME NEW p \in Proc, End(p)
       PROVE  TypeOK'
  <2>1. container' \in [Proc -> {"none", "up", "gone"}]
    BY <1>11 DEF End
  <2>2. client' \in [Proc -> {"unstarted", "running", "zero", "nonzero"}]
    BY <1>11 DEF End
  <2>3. faults' \in 0..MaxFaults
    BY <1>11 DEF End
  <2> QED
    BY <1>11, <2>1, <2>2, <2>3 DEF End
<1>12. ASSUME NEW p \in Proc, Obey(p)
       PROVE  TypeOK'
  BY <1>12 DEF Obey
<1>13. CASE Returned \/ UNCHANGED vars
  BY <1>13 DEF Returned, vars
<1> QED
  BY <1>1, <1>2, <1>3, <1>4, <1>5, <1>6, <1>7, <1>8, <1>9, <1>10, <1>11, <1>12, <1>13
     DEF Next, Runner, Work

\* Every variable of the runner, the commands and the containers keeps its
\* type, whatever the size of the data set.
THEOREM TypeInvariant == Spec => []TypeOK
<1>1. Init => TypeOK
  BY TypeInit
<1>2. TypeOK /\ [Next]_vars => TypeOK'
  BY TypeStep
<1> QED
  BY <1>1, <1>2, PTL DEF Spec

-----------------------------------------------------------------------------
(***************************************************************************)
(* The inductive invariant.                                                *)
(***************************************************************************)

\* Nothing is started or judged at the start.
LEMMA RunnerInit == Init => RunnerInv
<1> SUFFICES ASSUME Init
             PROVE  RunnerInv
  OBVIOUS
<1>1. TypeOK
  BY TypeInit
<1>2. Underway
  BY Processes DEF Init, Underway
<1>3. Quiet /\ Unmarked /\ CulpritUnmarked
  BY DEF Init, Quiet, Ended, Unmarked, CulpritUnmarked
<1> QED
  BY <1>1, <1>2, <1>3 DEF RunnerInv

\* What the program point says of the processes and the verdict stays true.
LEMMA UnderwayStep == RunnerInv /\ [Next]_vars => Underway'
<1> SUFFICES ASSUME RunnerInv, [Next]_vars
             PROVE  Underway'
  OBVIOUS
<1>0. /\ TypeOK /\ Underway
      /\ \A p \in Proc : client[p] \in {"unstarted", "running", "zero", "nonzero"}
  BY DEF RunnerInv, TypeOK
<1>1. CASE Launch
  <2>1. started \in 0..3 /\ Len(Order) = 3 /\ started < 3
    BY <1>0, <1>1, Processes DEF TypeOK, Launch
  <2>2. CASE started' = started + 1
    <3>1. /\ client' = [client EXCEPT ![Order[started + 1]] = "running"]
          /\ UNCHANGED <<pc, startup, verdict>>
      BY <1>1, <2>1, <2>2 DEF Launch, Terminate
    <3>2. ASSUME NEW i \in 1..3, i > started + 1
          PROVE  client'[Order[i]] = "unstarted"
      <4>1. Order[i] # Order[started + 1] /\ Order[i] \in Proc
        BY <2>1, <3>2, Processes
      <4>2. client[Order[i]] = "unstarted"
        BY <1>0, <2>1, <3>2 DEF Underway
      <4> QED
        BY <3>1, <4>1, <4>2, <1>0 DEF TypeOK
    <3>3. pc = "launch" /\ ~startup /\ verdict = "none"
      BY <1>0, <1>1 DEF Launch, Underway
    <3> QED
      BY <2>1, <2>2, <3>1, <3>2, <3>3 DEF Underway
  <2>3. CASE started' = started
    <3>1. /\ client' = client /\ verdict = "none"
          /\ \/ pc' = "grace" /\ startup' = TRUE /\ verdict' = verdict
             \/ pc' = "raised" /\ startup' = startup
      BY <1>0, <1>1, <2>1, <2>3 DEF Launch, Terminate, docker, Underway
    <3> QED
      BY <1>0, <2>1, <2>3, <3>1 DEF Underway
  <2> QED
    BY <1>1, <2>2, <2>3 DEF Launch
<1>2. CASE Launched
  BY <1>0, <1>2 DEF Launched, Underway, docker
<1>3. CASE Poll
  BY <1>0, <1>3 DEF Poll, Terminate, Underway, docker
<1>4. ASSUME NEW p \in Proc, Kill(p) \/ End(p) \/ Obey(p)
      PROVE  Underway'
  <2>1. /\ client' \in {client, [client EXCEPT ![p] = "zero"],
                        [client EXCEPT ![p] = "nonzero"]}
        /\ client' # client => client[p] = "running"
        /\ UNCHANGED <<pc, startup, started, verdict>>
    BY <1>0, <1>4 DEF Kill, End, Obey, runner, TypeOK
  <2>2. ASSUME NEW i \in 1..Len(Order), i > started
        PROVE  client'[Order[i]] = "unstarted"
    <3>1. client[Order[i]] = "unstarted" /\ Order[i] \in Proc
      BY <1>0, <2>2, Processes DEF Underway
    <3> QED
      BY <1>0, <2>1, <3>1 DEF TypeOK
  <2> QED
    BY <1>0, <2>1, <2>2 DEF Underway
<1>5. CASE Terminated
  BY <1>0, <1>5 DEF Terminated, Underway, docker
<1>6. CASE Collect
  BY <1>0, <1>6 DEF Collect, Underway, docker
<1>7. CASE VerifyDeltas
  BY <1>0, <1>7 DEF VerifyDeltas, Underway, docker
<1>8. CASE Publish \/ Relay \/ Store \/ Returned \/ UNCHANGED vars
  BY <1>0, <1>8 DEF Publish, Relay, Store, Returned, vars, runner, docker, Underway
<1> QED
  BY <1>1, <1>2, <1>3, <1>4, <1>5, <1>6, <1>7, <1>8 DEF Next, Runner, Work

\* A command that ends with zero leaves no container.
LEMMA QuietStep == RunnerInv /\ [Next]_vars => Quiet'
<1> SUFFICES ASSUME RunnerInv, [Next]_vars
             PROVE  Quiet'
  OBVIOUS
<1>0. TypeOK /\ Underway /\ Quiet
  BY DEF RunnerInv
<1>1. CASE Launch
  <2>1. started \in 0..3 /\ Len(Order) = 3 /\ started < 3 /\ verdict = "none"
    BY <1>0, <1>1, Processes DEF TypeOK, Launch, Underway
  <2>2. verdict' \notin {"passed", "failed"} /\ marked \subseteq marked'
    BY <1>1, <2>1 DEF Launch, Terminate
  <2>3. Order[started + 1] \in Proc /\ client[Order[started + 1]] = "unstarted"
    BY <1>0, <2>1, Processes DEF Underway
  <2>4. \/ /\ client' = [client EXCEPT ![Order[started + 1]] = "running"]
           /\ container' = [container EXCEPT ![Order[started + 1]] = "up"]
        \/ UNCHANGED docker
    BY <1>1 DEF Launch
  <2> QED
    BY <1>0, <2>2, <2>3, <2>4 DEF Quiet, Ended, TypeOK, docker
<1>2. ASSUME NEW p \in Proc, Kill(p) \/ Obey(p)
      PROVE  Quiet'
  <2>1. /\ p \in marked /\ client[p] = "running" /\ UNCHANGED <<verdict, marked>>
        /\ client' = [client EXCEPT ![p] = "nonzero"]
        /\ container' \in {container, [container EXCEPT ![p] = "gone"]}
    BY <1>2 DEF Kill, Obey, runner
  <2> QED
    BY <1>0, <2>1 DEF Quiet, Ended, TypeOK
<1>3. ASSUME NEW p \in Proc, End(p)
      PROVE  Quiet'
  <2>1. /\ container[p] = "up" /\ container' = [container EXCEPT ![p] = "gone"]
        /\ client' \in {client, [client EXCEPT ![p] = "zero"],
                        [client EXCEPT ![p] = "nonzero"]}
        /\ client' # client => client[p] = "running"
        /\ verdict' = verdict /\ marked' = marked
    BY <1>0, <1>3 DEF End, runner, TypeOK
  <2> QED
    BY <1>0, <2>1 DEF Quiet, Ended, TypeOK
<1>4. CASE Collect
  <2>1. /\ UNCHANGED docker /\ marked' = marked
        /\ verdict' = IF Passed THEN "passed" ELSE "failed"
    BY <1>4 DEF Collect
  <2>2. ASSUME Passed
        PROVE  \A p \in Proc : client[p] = "zero"
    <3>1. Handles = Proc
      BY <1>0, <1>4, <2>2, HandlesStarted DEF Collect, Underway, Passed, TypeOK
    <3> QED
      BY <1>4, <2>2, <3>1 DEF Collect, Passed, Ended
  <2>3. ASSUME NEW p \in Proc
        PROVE  client[p] # "running"
    <3>1. PICK i \in 1..3 : p = Order[i]
      BY Processes
    <3>2. CASE i <= started
      <4>1. p \in Handles
        BY <1>0, <3>1, <3>2, Processes DEF Handles, TypeOK
      <4> QED
        BY <1>4, <4>1 DEF Collect, Ended
    <3>3. CASE i > started
      BY <1>0, <3>1, <3>3, Processes DEF Underway
    <3> QED
      BY <1>0, <3>1, <3>2, <3>3, Processes DEF TypeOK
  <2> QED
    BY <1>0, <2>1, <2>2, <2>3 DEF Quiet, Ended, docker
<1>5. CASE \/ Launched \/ Poll \/ Terminated \/ VerifyDeltas
           \/ Publish \/ Relay \/ Store \/ Returned \/ UNCHANGED vars
  <2>1. UNCHANGED <<client, container, verdict>> /\ marked \subseteq marked'
    BY <1>5 DEF Launched, Poll, Terminated, VerifyDeltas, Publish, Relay, Store,
                Returned, vars, runner, docker, Terminate
  <2> QED
    BY <1>0, <2>1 DEF Quiet, Ended
<1> QED
  BY <1>1, <1>2, <1>3, <1>4, <1>5 DEF Next, Runner, Work

\* What ended with an error stays that way.
LEMMA NonzeroStays ==
  ASSUME RunnerInv, [Next]_vars, NEW p \in Proc, client[p] = "nonzero"
  PROVE  client'[p] = "nonzero"
<1>0. TypeOK /\ Underway
  BY DEF RunnerInv
<1>1. CASE Launch
  <2>1. started \in 0..3 /\ Len(Order) = 3 /\ started < 3
    BY <1>0, <1>1, Processes DEF TypeOK, Launch
  <2>2. Order[started + 1] \in Proc /\ client[Order[started + 1]] = "unstarted"
    BY <1>0, <2>1, Processes DEF Underway
  <2>3. \/ client' = [client EXCEPT ![Order[started + 1]] = "running"]
        \/ client' = client
    BY <1>1 DEF Launch, docker
  <2> QED
    BY <1>0, <2>2, <2>3 DEF TypeOK
<1>2. ASSUME NEW q \in Proc, Kill(q) \/ Obey(q)
      PROVE  client'[p] = "nonzero"
  BY <1>0, <1>2 DEF Kill, Obey, TypeOK
<1>3. ASSUME NEW q \in Proc, End(q)
      PROVE  client'[p] = "nonzero"
  BY <1>0, <1>3 DEF End, TypeOK
<1>4. CASE \/ Launched \/ Poll \/ Terminated \/ Collect \/ VerifyDeltas
           \/ Publish \/ Relay \/ Store \/ Returned \/ UNCHANGED vars
  BY <1>4 DEF Launched, Poll, Terminated, Collect, VerifyDeltas, Publish, Relay,
              Store, Returned, vars, docker
<1> QED
  BY <1>1, <1>2, <1>3, <1>4 DEF Next, Runner, Work

\* Whom the runner blames stays right.
LEMMA CulpritStep == RunnerInv /\ [Next]_vars => Unmarked' /\ CulpritUnmarked'
<1> SUFFICES ASSUME RunnerInv, [Next]_vars
             PROVE  Unmarked' /\ CulpritUnmarked'
  OBVIOUS
<1>0. TypeOK /\ Underway /\ Unmarked /\ CulpritUnmarked
  BY DEF RunnerInv
<1>1. CASE Poll
  <2> DEFINE p == Order[scan]
  <2>1. p \in Proc /\ p # "none"
    BY <1>0, Processes DEF TypeOK
  <2>2. UNCHANGED <<client, startup>> /\ pc = "poll"
    BY <1>1 DEF Poll, docker
  <2>3. CASE p \notin seen /\ client[p] = "nonzero"
    <3>1. culprit' = p /\ marked' = marked \cup Running /\ pc' = "grace"
      BY <1>1, <2>3 DEF Poll, Terminate, Marks
    <3>2. p \notin Running
      BY <2>3 DEF Running
    <3>3. p \in marked => startup
      BY <1>0, <2>2 DEF Unmarked
    <3> QED
      BY <2>2, <2>3, <3>1, <3>2, <3>3 DEF Unmarked, CulpritUnmarked
  <2>4. CASE ~(p \notin seen /\ client[p] = "nonzero")
    <3>1. UNCHANGED <<culprit, marked>> /\ pc' \in {"collect", "poll"}
      BY <1>1, <2>4 DEF Poll
    <3> QED
      BY <1>0, <2>2, <3>1 DEF Unmarked, CulpritUnmarked
  <2> QED
    BY <2>3, <2>4
<1>2. CASE Launch
  <2>1. ~startup /\ culprit' = culprit /\ marked = {}
    BY <1>0, <1>2 DEF Launch, Underway, Unmarked
  <2>2. \/ marked' = {} /\ startup' = startup
        \/ startup' = TRUE /\ pc' = "grace"
    BY <1>2, <2>1 DEF Launch, Terminate
  <2>3. culprit \in Proc \cup {"none"}
    BY <1>0 DEF TypeOK
  <2>4. culprit # "none" => client'[culprit] = "nonzero"
    BY <1>0, <2>3, NonzeroStays DEF CulpritUnmarked
  <2> QED
    BY <2>1, <2>2, <2>4 DEF Unmarked, CulpritUnmarked
<1>3. ASSUME UNCHANGED <<startup, culprit, marked>>, pc' = pc \/ pc' # "launch"
      PROVE  CulpritUnmarked'
  <2>1. culprit \in Proc \cup {"none"}
    BY <1>0 DEF TypeOK
  <2>2. culprit # "none" => client'[culprit] = "nonzero"
    BY <1>0, <2>1, NonzeroStays DEF CulpritUnmarked
  <2> QED
    BY <1>0, <1>3, <2>2 DEF CulpritUnmarked
<1>4. CASE Launched
  BY <1>0, <1>3, <1>4 DEF Launched, Unmarked
<1>5. CASE Terminated
  BY <1>0, <1>3, <1>5 DEF Terminated, Unmarked
<1>6. CASE Collect \/ VerifyDeltas
  BY <1>0, <1>3, <1>6 DEF Collect, VerifyDeltas, Unmarked
<1>7. CASE \/ \E p \in Proc : Kill(p) \/ End(p) \/ Obey(p)
           \/ Publish \/ Relay \/ Store \/ Returned \/ UNCHANGED vars
  <2>1. UNCHANGED <<pc, startup, culprit, marked>>
    BY <1>7 DEF Kill, End, Obey, Publish, Relay, Store, Returned, vars, runner
  <2> QED
    BY <1>0, <1>3, <2>1 DEF Unmarked
<1> QED
  BY <1>1, <1>2, <1>4, <1>5, <1>6, <1>7 DEF Next, Runner, Work

\* Every step keeps the inductive invariant.
LEMMA RunnerStep == RunnerInv /\ [Next]_vars => RunnerInv'
<1> SUFFICES ASSUME RunnerInv, [Next]_vars
             PROVE  RunnerInv'
  OBVIOUS
<1>1. TypeOK'
  BY TypeStep DEF RunnerInv
<1>2. Underway' /\ Quiet' /\ Unmarked' /\ CulpritUnmarked'
  BY UnderwayStep, QuietStep, CulpritStep
<1> QED
  BY <1>1, <1>2 DEF RunnerInv

\* The inductive invariant of run_concurrent_profile_pipeline and the processes
\* it started.
THEOREM RunnerInvariant == Spec => []RunnerInv
<1>1. Init => RunnerInv
  BY RunnerInit
<1>2. RunnerInv /\ [Next]_vars => RunnerInv'
  BY RunnerStep
<1> QED
  BY <1>1, <1>2, PTL DEF Spec

\* A flow that has a result has left behind no container but those of commands
\* the runner terminated, and it has failed then, however many processes failed
\* to start or to end.
THEOREM LeftoversAreReported == Spec => []LeftoversAreMarked
<1>1. RunnerInv => LeftoversAreMarked
  <2> SUFFICES ASSUME RunnerInv, verdict \in {"passed", "failed"},
                      NEW p \in Proc, container[p] = "up"
               PROVE  p \in marked /\ verdict = "failed"
    BY DEF LeftoversAreMarked
  <2>1. client[p] \in {"unstarted", "running", "zero", "nonzero"}
    BY DEF RunnerInv, TypeOK
  <2>2. client[p] = "nonzero"
    BY <2>1 DEF RunnerInv, Quiet
  <2> QED
    BY <2>2 DEF RunnerInv, Quiet, Ended
<1> QED
  BY <1>1, RunnerInvariant, PTL

\* The process that is blamed was not terminated by the runner: what ends
\* between a poll and a termination does not change whom it blames.
THEOREM BlameIsRight == Spec => []CulpritUnmarked
<1>1. RunnerInv => CulpritUnmarked
  BY DEF RunnerInv
<1> QED
  BY <1>1, RunnerInvariant, PTL

-----------------------------------------------------------------------------
(***************************************************************************)
(* The refinement.                                                         *)
(***************************************************************************)

\* Every step is a step of the supervisor or changes nothing it can see.
LEMMA SupervisionStep == RunnerInv /\ [Next]_vars => [Supervised!Next]_(Supervised!vars)
<1> SUFFICES ASSUME RunnerInv, [Next]_vars
             PROVE  Supervised!Next \/ UNCHANGED <<client, verdict>>
  BY DEF Supervised!vars
<1>0. TypeOK /\ Underway
  BY DEF RunnerInv
<1>1. CASE Launch
  <2>1. started \in 0..3 /\ Len(Order) = 3 /\ started < 3 /\ verdict = "none"
    BY <1>0, <1>1, Processes DEF TypeOK, Launch, Underway
  <2> DEFINE p == Order[started + 1]
  <2>2. p \in Proc /\ client[p] = "unstarted"
    BY <1>0, <2>1, Processes DEF Underway
  <2>3. CASE started' = started + 1
    <3>1. Supervised!Start(p)
      BY <1>1, <2>1, <2>2, <2>3 DEF Launch, Supervised!Start
    <3> QED
      BY <2>2, <3>1 DEF Supervised!Next
  <2>4. CASE started' = started
    BY <1>1, <2>1, <2>4 DEF Launch, docker, Supervised!Next, Supervised!Abandon
  <2> QED
    BY <1>1, <2>3, <2>4 DEF Launch
<1>2. ASSUME NEW p \in Proc, Kill(p) \/ End(p) \/ Obey(p)
      PROVE  Supervised!Next \/ UNCHANGED <<client, verdict>>
  <2>1. verdict' = verdict
    BY <1>2 DEF Kill, End, Obey, runner
  <2>2. \/ client' = client
        \/ /\ client[p] = "running"
           /\ \E code \in {"zero", "nonzero"} : client' = [client EXCEPT ![p] = code]
    BY <1>0, <1>2 DEF Kill, End, Obey, TypeOK
  <2> QED
    BY <2>1, <2>2 DEF Supervised!Next, Supervised!End
<1>3. CASE Collect
  <2>1. verdict = "none" /\ client' = client
    BY <1>0, <1>3 DEF Collect, Underway, docker
  <2>2. ASSUME NEW p \in Proc
        PROVE  client[p] # "running"
    <3>1. PICK i \in 1..3 : p = Order[i]
      BY Processes
    <3>2. CASE i > started
      BY <1>0, <3>1, <3>2, Processes DEF Underway
    <3>3. CASE ~(i > started)
      <4>1. p \in Handles
        BY <1>0, <3>1, <3>3, Processes DEF Handles, TypeOK
      <4> QED
        BY <1>3, <4>1 DEF Collect, Ended
    <3> QED
      BY <3>2, <3>3
  <2>3. Passed <=> \A p \in Proc : client[p] = "zero"
    <3>1. CASE startup
      <4>1. started \in 0..3 /\ started < 3 /\ Len(Order) = 3
        BY <1>0, <3>1, Processes DEF TypeOK, Underway
      <4>2. Order[3] \in Proc /\ client[Order[3]] = "unstarted"
        BY <1>0, <4>1, Processes DEF Underway
      <4> QED
        BY <3>1, <4>2 DEF Passed
    <3>2. CASE ~startup
      <4>1. Handles = Proc
        BY <1>0, <1>3, <3>2, HandlesStarted DEF Collect, Underway, TypeOK
      <4> QED
        BY <1>3, <3>2, <4>1 DEF Collect, Passed, Ended
    <3> QED
      BY <3>1, <3>2
  <2> QED
    BY <1>3, <2>1, <2>2, <2>3 DEF Collect, Supervised!Next, Supervised!Judge
<1>4. CASE \/ Launched \/ Poll \/ Terminated \/ VerifyDeltas
           \/ Publish \/ Relay \/ Store \/ Returned \/ UNCHANGED vars
  BY <1>4 DEF Launched, Poll, Terminated, VerifyDeltas, Publish, Relay, Store,
              Returned, vars, runner, docker, Terminate
<1> QED
  BY <1>1, <1>2, <1>3, <1>4 DEF Next, Runner, Work

\* run_concurrent_profile_pipeline implements the supervisor: it judges once,
\* when nothing it started is still running, and passes a flow exactly when
\* all its processes were started and returned zero.
THEOREM Refinement == Spec => Supervision
<1>1. Init => Supervised!Init
  BY DEF Init, Supervised!Init
<1>2. RunnerInv /\ [Next]_vars => [Supervised!Next]_(Supervised!vars)
  BY SupervisionStep
<1> QED
  BY <1>1, <1>2, RunnerInvariant, PTL DEF Spec, Supervision, Supervised!Spec

-----------------------------------------------------------------------------
(***************************************************************************)
(* What a passed row count means.                                          *)
(***************************************************************************)

\* The rows of s, and how many of its places repeat one of them.
RowsOf(s)  == {s[k] : k \in DOMAIN s}
Repeats(s) == Len(s) - Cardinality(RowsOf(s))

\* The messages that the consumer and the loader have handled.
Handled(p, s) == SubSeq(s, 1, done[p])

\* Nothing is handled, relayed or stored that was not there before.
Flow ==
    /\ done["consumer"] <= Len(raw) /\ done["loader"] <= Len(processed)
    /\ \A i \in RowsOf(raw) : i <= done["producer"]
    /\ RowsOf(processed) \subseteq RowsOf(Handled("consumer", raw))
    /\ RowsOf(stored) \subseteq RowsOf(Handled("loader", processed))

\* Every repetition in a topic or in the table is a copy, or is handed on from
\* a repetition among the messages handled.
RepeatsPaid ==
    Repeats(raw) + Repeats(processed) + Repeats(stored)
        <= copies + Repeats(Handled("consumer", raw)) + Repeats(Handled("loader", processed))

\* The check has passed on no fewer rows than the data set has.
Counted == check = "passed" => Len(stored) >= Rows

\* The rows of a sequence are finitely many rows of the data set.
LEMMA RowsFinite ==
  ASSUME NEW s \in Seq(Row)
  PROVE  /\ RowsOf(s) \subseteq Row /\ IsFiniteSet(Row) /\ Cardinality(Row) = Rows
         /\ IsFiniteSet(RowsOf(s)) /\ Cardinality(RowsOf(s)) \in Nat
         /\ Cardinality(RowsOf(s)) <= Rows
         /\ Len(s) \in Nat /\ Repeats(s) \in Int
<1>1. RowsOf(s) \subseteq Row
  BY DEF RowsOf
<1>2. IsFiniteSet(Row) /\ Cardinality(Row) = Rows
  BY RunnerAssumption, FS_Interval DEF Row
<1>3. IsFiniteSet(RowsOf(s)) /\ Cardinality(RowsOf(s)) <= Rows
  BY <1>1, <1>2, FS_Subset
<1>4. Cardinality(RowsOf(s)) \in Nat
  BY <1>3, FS_CardinalityType
<1> QED
  BY <1>1, <1>2, <1>3, <1>4 DEF Repeats

\* One row more repeats one if it is among the rows already.
LEMMA RepeatsAppend ==
  ASSUME NEW s \in Seq(Row), NEW x \in Row
  PROVE  /\ Append(s, x) \in Seq(Row)
         /\ RowsOf(Append(s, x)) = RowsOf(s) \cup {x}
         /\ Repeats(Append(s, x)) = Repeats(s) + (IF x \in RowsOf(s) THEN 1 ELSE 0)
<1> DEFINE t == Append(s, x)
<1>1. /\ t \in Seq(Row) /\ Len(t) = Len(s) + 1 /\ Len(s) \in Nat
      /\ DOMAIN s = 1..Len(s) /\ DOMAIN t = 1..(Len(s) + 1) /\ t[Len(s) + 1] = x
      /\ \A k \in 1..Len(s) : t[k] = s[k]
  OBVIOUS
<1>2. 1..(Len(s) + 1) = 1..Len(s) \cup {Len(s) + 1}
  BY <1>1
<1> HIDE DEF t
<1>3. RowsOf(t) = RowsOf(s) \cup {x}
  BY <1>1, <1>2 DEF RowsOf
<1>4. Cardinality(RowsOf(t)) = IF x \in RowsOf(s) THEN Cardinality(RowsOf(s))
                               ELSE Cardinality(RowsOf(s)) + 1
  BY <1>3, RowsFinite, FS_AddElement
<1>5. Cardinality(RowsOf(s)) \in Nat
  BY RowsFinite
<1>6. Repeats(t) = Repeats(s) + (IF x \in RowsOf(s) THEN 1 ELSE 0)
  BY <1>1, <1>4, <1>5 DEF Repeats
<1> QED
  BY <1>1, <1>3, <1>6 DEF t

\* The same row twice more is one repetition more.
LEMMA RepeatsTwice ==
  ASSUME NEW s \in Seq(Row), NEW x \in Row
  PROVE  /\ s \o <<x, x>> \in Seq(Row)
         /\ Len(s \o <<x, x>>) = Len(s) + 2
         /\ RowsOf(s \o <<x, x>>) = RowsOf(s) \cup {x}
         /\ Repeats(s \o <<x, x>>) = Repeats(Append(s, x)) + 1
<1>1. s \o <<x, x>> = Append(Append(s, x), x) /\ Append(s, x) \in Seq(Row)
  OBVIOUS
<1>2. Len(Append(Append(s, x), x)) = Len(s) + 2
  OBVIOUS
<1> DEFINE t == Append(s, x)
<1>3. /\ t \in Seq(Row) /\ RowsOf(t) = RowsOf(s) \cup {x}
      /\ Append(t, x) \in Seq(Row) /\ RowsOf(Append(t, x)) = RowsOf(t) \cup {x}
      /\ Repeats(Append(t, x)) = Repeats(t) + (IF x \in RowsOf(t) THEN 1 ELSE 0)
  <2>1. t \in Seq(Row) /\ RowsOf(t) = RowsOf(s) \cup {x}
    BY RepeatsAppend
  <2> HIDE DEF t
  <2> QED
    BY <2>1, RepeatsAppend
<1> QED
  BY <1>1, <1>2, <1>3

\* What has been handled of a sequence does not change when it grows; and the
\* next of its rows joins what has been handled.
LEMMA PrefixGrows ==
  ASSUME NEW s \in Seq(Row), NEW n \in Nat, n <= Len(s)
  PROVE  /\ SubSeq(s, 1, n) \in Seq(Row)
         /\ \A x \in Row : /\ SubSeq(Append(s, x), 1, n) = SubSeq(s, 1, n)
                           /\ SubSeq(s \o <<x, x>>, 1, n) = SubSeq(s, 1, n)
         /\ n < Len(s) => /\ s[n + 1] \in Row
                          /\ SubSeq(s, 1, n + 1) = Append(SubSeq(s, 1, n), s[n + 1])
<1>1. SubSeq(s, 1, n) \in Seq(Row)
  OBVIOUS
<1>2. ASSUME NEW x \in Row
      PROVE  /\ SubSeq(Append(s, x), 1, n) = SubSeq(s, 1, n)
             /\ SubSeq(s \o <<x, x>>, 1, n) = SubSeq(s, 1, n)
  OBVIOUS
<1>3. ASSUME n < Len(s)
      PROVE  s[n + 1] \in Row /\ SubSeq(s, 1, n + 1) = Append(SubSeq(s, 1, n), s[n + 1])
  BY <1>3
<1> QED
  BY <1>1, <1>2, <1>3

\* A row is handled and handed on, once, twice or not at all: the repetitions
\* that this makes are paid by the one that was handled, or by a copy.
LEMMA HandedOn ==
  ASSUME NEW h \in Seq(Row), NEW t \in Seq(Row), NEW x \in Row,
         RowsOf(t) \subseteq RowsOf(h)
  PROVE  LET g == Append(h, x) IN
         /\ g \in Seq(Row)
         /\ RowsOf(t) \subseteq RowsOf(g) /\ Repeats(h) <= Repeats(g)
         /\ RowsOf(Append(t, x)) \subseteq RowsOf(g)
         /\ Repeats(Append(t, x)) - Repeats(t) <= Repeats(g) - Repeats(h)
         /\ RowsOf(t \o <<x, x>>) \subseteq RowsOf(g)
         /\ Repeats(t \o <<x, x>>) - Repeats(t) <= Repeats(g) - Repeats(h) + 1
<1> DEFINE g == Append(h, x)
           n == IF x \in RowsOf(h) THEN 1 ELSE 0
           k == IF x \in RowsOf(t) THEN 1 ELSE 0
<1>1. Repeats(t) \in Int /\ Repeats(h) \in Int /\ k <= n /\ 0 <= n /\ n \in Int /\ k \in Int
  BY RowsFinite
<1>2. /\ g \in Seq(Row) /\ RowsOf(g) = RowsOf(h) \cup {x} /\ Repeats(g) = Repeats(h) + n
      /\ RowsOf(Append(t, x)) = RowsOf(t) \cup {x} /\ Repeats(Append(t, x)) = Repeats(t) + k
      /\ RowsOf(t \o <<x, x>>) = RowsOf(t) \cup {x}
      /\ Repeats(t \o <<x, x>>) = Repeats(Append(t, x)) + 1
  BY RepeatsAppend, RepeatsTwice
<1> HIDE DEF g, n, k
<1>3. /\ Repeats(h) <= Repeats(g)
      /\ Repeats(Append(t, x)) - Repeats(t) <= Repeats(g) - Repeats(h)
      /\ Repeats(t \o <<x, x>>) - Repeats(t) <= Repeats(g) - Repeats(h) + 1
  BY <1>1, <1>2
<1>4. /\ RowsOf(t) \subseteq RowsOf(g) /\ RowsOf(Append(t, x)) \subseteq RowsOf(g)
      /\ RowsOf(t \o <<x, x>>) \subseteq RowsOf(g)
  BY <1>2
<1> QED
  BY <1>2, <1>3, <1>4 DEF g

\* A beginning of a sequence has no more repetitions than all of it.
LEMMA PrefixRepeats ==
  ASSUME NEW s \in Seq(Row), NEW n \in Nat, n <= Len(s)
  PROVE  Repeats(SubSeq(s, 1, n)) <= Repeats(s)
<1> DEFINE h    == SubSeq(s, 1, n)
           rest == (n + 1)..Len(s)
           tail == {s[k] : k \in rest}
           f    == [k \in rest |-> s[k]]
<1>1. /\ h \in Seq(Row) /\ Len(h) = n /\ Len(s) \in Nat /\ DOMAIN s = 1..Len(s)
      /\ DOMAIN h = 1..n /\ \A k \in 1..n : h[k] = s[k]
  OBVIOUS
<1>2. RowsOf(s) = RowsOf(h) \cup tail
  <2>1. 1..Len(s) = 1..n \cup rest
    BY <1>1
  <2> HIDE DEF h, rest
  <2> QED
    BY <1>1, <2>1 DEF RowsOf
<1>3. IsFiniteSet(rest) /\ Cardinality(rest) = Len(s) - n
  <2>1. n + 1 \in Int /\ Len(s) \in Int /\ (n + 1 > Len(s) => Len(s) - n = 0)
        /\ Len(s) - (n + 1) + 1 = Len(s) - n
    BY <1>1
  <2> QED
    BY <2>1, FS_Interval
<1>4. f \in Surjection(rest, tail)
  BY DEF Surjection
<1>5. IsFiniteSet(tail) /\ Cardinality(tail) <= Len(s) - n /\ Cardinality(tail) \in Nat
  <2> HIDE DEF f, rest, tail
  <2> QED
    BY <1>3, <1>4, FS_Surjection, FS_CardinalityType
<1>6. /\ IsFiniteSet(RowsOf(h)) /\ Cardinality(RowsOf(h)) \in Nat
      /\ Cardinality(RowsOf(s)) \in Nat
  BY <1>1, RowsFinite
<1> HIDE DEF h, rest, tail, f
<1>7. Cardinality(RowsOf(s)) <= Cardinality(RowsOf(h)) + Cardinality(tail)
  <2>1. IsFiniteSet(RowsOf(h) \cap tail)
    BY <1>5, FS_Intersection
  <2>2. /\ Cardinality(RowsOf(h) \cap tail) \in Nat
        /\ Cardinality(RowsOf(h) \cup tail)
             = Cardinality(RowsOf(h)) + Cardinality(tail) - Cardinality(RowsOf(h) \cap tail)
    BY <1>5, <1>6, <2>1, FS_Union, FS_CardinalityType
  <2> QED
    BY <1>2, <1>5, <1>6, <2>2
<1>8. Repeats(h) <= Repeats(s)
  BY <1>1, <1>5, <1>6, <1>7 DEF Repeats
<1> QED
  BY <1>8 DEF h

\* The rows travel as Flow says, and repetitions are paid, whatever happens.
LEMMA FlowStep == TypeOK /\ Flow /\ RepeatsPaid /\ [Next]_vars => Flow' /\ RepeatsPaid'
<1> SUFFICES ASSUME TypeOK, Flow, RepeatsPaid, [Next]_vars
             PROVE  Flow' /\ RepeatsPaid'
  OBVIOUS
<1> DEFINE m  == done["producer"]
           c  == done["consumer"]
           l  == done["loader"]
           hc == Handled("consumer", raw)
           hl == Handled("loader", processed)
<1>t. /\ raw \in Seq(Row) /\ processed \in Seq(Row) /\ stored \in Seq(Row)
      /\ done \in [Proc -> 0..Rows]
      /\ {"producer", "consumer", "loader"} \subseteq Proc
  BY RunnerAssumption DEF TypeOK, Proc, Order
<1>l. /\ Len(raw) \in Nat /\ Len(processed) \in Nat
      /\ m \in Nat /\ c \in Nat /\ l \in Nat
      /\ c <= Len(raw) /\ l <= Len(processed)
  BY <1>t, RunnerAssumption DEF Flow
<1>f. /\ \A i \in RowsOf(raw) : i <= m
      /\ RowsOf(processed) \subseteq RowsOf(hc) /\ RowsOf(stored) \subseteq RowsOf(hl)
  BY DEF Flow
<1>h. /\ hc = SubSeq(raw, 1, c) /\ hl = SubSeq(processed, 1, l)
      /\ hc \in Seq(Row) /\ hl \in Seq(Row)
  <2>1. hc = SubSeq(raw, 1, c) /\ hl = SubSeq(processed, 1, l)
    BY DEF Handled
  <2> QED
    BY <1>t, <1>l, <2>1, PrefixGrows
<1>n. /\ Repeats(raw) \in Int /\ Repeats(processed) \in Int /\ Repeats(stored) \in Int
      /\ Repeats(hc) \in Int /\ Repeats(hl) \in Int /\ copies \in Int
  BY <1>t, <1>h, RowsFinite DEF TypeOK
<1>p. Repeats(raw) + Repeats(processed) + Repeats(stored) <= copies + Repeats(hc) + Repeats(hl)
  BY DEF RepeatsPaid
<1>same. ASSUME UNCHANGED <<raw, processed, stored, done, copies>>
         PROVE  Flow' /\ RepeatsPaid'
  BY <1>same DEF Flow, RepeatsPaid, Handled
<1>1. CASE Publish
  <2> DEFINE i == m + 1
  <2>1. /\ done' = [done EXCEPT !["producer"] = @ + 1] /\ m < Rows
        /\ UNCHANGED <<processed, stored>>
        /\ \/ raw' = Append(raw, i) /\ copies' = copies
           \/ raw' = raw \o <<i, i>> /\ copies' = copies + 1
           \/ UNCHANGED <<raw, copies>>
    BY <1>1 DEF Publish, Handle
  <2>2. done'["producer"] = i /\ i \in Row /\ done'["consumer"] = c /\ done'["loader"] = l
    BY <2>1, <1>t, <1>l, RunnerAssumption DEF Row
  <2>3. /\ i \notin RowsOf(raw) /\ \A j \in RowsOf(raw) \cup {i} : j <= i
    <3>1. RowsOf(raw) \subseteq Nat
      BY <1>t, RowsFinite, RunnerAssumption DEF Row
    <3> QED
      BY <1>l, <1>f, <3>1
  <2>4. Handled("consumer", raw)' = SubSeq(raw', 1, c) /\ Handled("loader", processed)' = hl
    BY <2>1, <2>2 DEF Handled
  <2> HIDE DEF i, hc, hl, m, c, l
  <2>5. /\ SubSeq(raw', 1, c) = hc /\ Len(raw') \in {Len(raw), Len(raw) + 1, Len(raw) + 2}
        /\ RowsOf(raw') \subseteq RowsOf(raw) \cup {i}
        /\ \/ Repeats(raw') = Repeats(raw) /\ copies' = copies
           \/ Repeats(raw') = Repeats(raw) + 1 /\ copies' = copies + 1
    <3>1. CASE raw' = Append(raw, i) /\ copies' = copies
      <4>1. SubSeq(raw', 1, c) = hc /\ Len(raw') = Len(raw) + 1
        BY <1>t, <1>l, <1>h, <2>2, <3>1, PrefixGrows
      <4>2. RowsOf(raw') = RowsOf(raw) \cup {i} /\ Repeats(raw') = Repeats(raw)
        BY <1>t, <1>n, <2>2, <2>3, <3>1, RepeatsAppend
      <4> QED
        BY <3>1, <4>1, <4>2
    <3>2. CASE raw' = raw \o <<i, i>> /\ copies' = copies + 1
      <4>1. SubSeq(raw', 1, c) = hc /\ Len(raw') = Len(raw) + 2
        BY <1>t, <1>l, <1>h, <2>2, <3>2, PrefixGrows, RepeatsTwice
      <4>2. RowsOf(raw') = RowsOf(raw) \cup {i} /\ Repeats(raw') = Repeats(raw) + 1
        BY <1>t, <1>n, <2>2, <2>3, <3>2, RepeatsAppend, RepeatsTwice
      <4> QED
        BY <3>2, <4>1, <4>2
    <3>3. CASE UNCHANGED <<raw, copies>>
      BY <1>h, <3>3
    <3> QED
      BY <2>1, <3>1, <3>2, <3>3
  <2>6. Flow'
    <3>1. c <= Len(raw')
      BY <1>l, <2>5
    <3>2. \A j \in RowsOf(raw') : j <= i
      BY <2>3, <2>5
    <3> QED
      BY <1>l, <1>f, <2>1, <2>2, <2>4, <2>5, <3>1, <3>2 DEF Flow
  <2>7. RepeatsPaid'
    <3>1. Repeats(raw') + Repeats(processed) + Repeats(stored)
            <= copies' + Repeats(hc) + Repeats(hl)
      BY <1>n, <1>p, <2>5
    <3> QED
      BY <2>1, <2>4, <2>5, <3>1 DEF RepeatsPaid
  <2> QED
    BY <2>6, <2>7
<1>2. CASE Relay
  <2> DEFINE i == raw[c + 1]
             g == Append(hc, i)
  <2>1. /\ done' = [done EXCEPT !["consumer"] = @ + 1] /\ c < Len(raw)
        /\ UNCHANGED <<raw, stored>>
        /\ \/ processed' = Append(processed, i) /\ copies' = copies
           \/ processed' = processed \o <<i, i>> /\ copies' = copies + 1
           \/ UNCHANGED <<processed, copies>>
    BY <1>2 DEF Relay, Handle
  <2>2. /\ done'["consumer"] = c + 1 /\ done'["producer"] = m /\ done'["loader"] = l
        /\ c + 1 <= Len(raw)
    BY <2>1, <1>t, <1>l
  <2>3. i \in Row /\ SubSeq(raw, 1, c + 1) = g
    <3>1. raw[c + 1] \in Row /\ SubSeq(raw, 1, c + 1) = Append(SubSeq(raw, 1, c), raw[c + 1])
      <4> HIDE DEF c, hc, hl
      <4> QED
        BY <1>t, <1>l, <2>1, PrefixGrows
    <3> QED
      BY <1>h, <3>1
  <2>4. /\ Handled("consumer", raw)' = g
        /\ Handled("loader", processed)' = SubSeq(processed', 1, l)
    BY <2>1, <2>2, <2>3 DEF Handled
  <2> HIDE DEF i, g, hc, hl, m, c, l
  <2>5. /\ RowsOf(processed) \subseteq RowsOf(g) /\ Repeats(hc) <= Repeats(g)
        /\ RowsOf(Append(processed, i)) \subseteq RowsOf(g)
        /\ Repeats(Append(processed, i)) - Repeats(processed) <= Repeats(g) - Repeats(hc)
        /\ RowsOf(processed \o <<i, i>>) \subseteq RowsOf(g)
        /\ Repeats(processed \o <<i, i>>) - Repeats(processed)
             <= Repeats(g) - Repeats(hc) + 1
        /\ Repeats(g) \in Int
    BY <1>t, <1>f, <1>h, <2>3, HandedOn, RowsFinite DEF g
  <2>6. /\ SubSeq(processed', 1, l) = hl /\ processed' \in Seq(Row)
        /\ Len(processed') \in {Len(processed), Len(processed) + 1, Len(processed) + 2}
    <3>1. CASE processed' = Append(processed, i)
      <4>1. Len(processed') = Len(processed) + 1 /\ processed' \in Seq(Row)
        BY <1>t, <2>3, <3>1, RepeatsAppend
      <4> QED
        BY <1>t, <1>l, <1>h, <2>3, <3>1, <4>1, PrefixGrows
    <3>2. CASE processed' = processed \o <<i, i>>
      <4>1. Len(processed') = Len(processed) + 2 /\ processed' \in Seq(Row)
        BY <1>t, <2>3, <3>2, RepeatsTwice
      <4> QED
        BY <1>t, <1>l, <1>h, <2>3, <3>2, <4>1, PrefixGrows
    <3>3. CASE processed' = processed
      BY <1>t, <1>h, <3>3
    <3> QED
      BY <2>1, <3>1, <3>2, <3>3
  <2>7. Flow'
    <3>1. l <= Len(processed')
      BY <1>l, <2>6
    <3>2. RowsOf(processed') \subseteq RowsOf(g)
      BY <2>1, <2>5
    <3> QED
      BY <1>l, <1>f, <2>1, <2>2, <2>4, <2>6, <3>1, <3>2 DEF Flow
  <2>8. RepeatsPaid'
    <3>1. Repeats(processed') \in Int
      BY <2>6, RowsFinite
    <3>2. /\ Repeats(processed') - Repeats(processed)
               <= Repeats(g) - Repeats(hc) + (copies' - copies)
          /\ copies' \in Int
      <4>1. CASE processed' = Append(processed, i) /\ copies' = copies
        BY <1>n, <2>5, <3>1, <4>1
      <4>2. CASE processed' = processed \o <<i, i>> /\ copies' = copies + 1
        BY <1>n, <2>5, <3>1, <4>2
      <4>3. CASE UNCHANGED <<processed, copies>>
        BY <1>n, <2>5, <3>1, <4>3
      <4> QED
        BY <2>1, <4>1, <4>2, <4>3
    <3>3. Repeats(raw) + Repeats(processed') + Repeats(stored)
            <= copies' + Repeats(g) + Repeats(hl)
      BY <1>n, <1>p, <2>5, <3>1, <3>2
    <3> QED
      BY <2>1, <2>4, <2>6, <3>3 DEF RepeatsPaid
  <2> QED
    BY <2>7, <2>8
<1>3. CASE Store
  <2> DEFINE i == processed[l + 1]
             g == Append(hl, i)
  <2>1. /\ done' = [done EXCEPT !["loader"] = @ + 1] /\ l < Len(processed)
        /\ UNCHANGED <<raw, processed>>
        /\ \/ stored' = Append(stored, i) /\ copies' = copies
           \/ stored' = stored \o <<i, i>> /\ copies' = copies + 1
           \/ UNCHANGED <<stored, copies>>
    BY <1>3 DEF Store, Handle
  <2>2. /\ done'["loader"] = l + 1 /\ done'["producer"] = m /\ done'["consumer"] = c
        /\ l + 1 <= Len(processed)
    BY <2>1, <1>t, <1>l
  <2>3. i \in Row /\ SubSeq(processed, 1, l + 1) = g
    <3>1. /\ processed[l + 1] \in Row
          /\ SubSeq(processed, 1, l + 1) = Append(SubSeq(processed, 1, l), processed[l + 1])
      <4> HIDE DEF l, hc, hl
      <4> QED
        BY <1>t, <1>l, <2>1, PrefixGrows
    <3> QED
      BY <1>h, <3>1
  <2>4. Handled("consumer", raw)' = hc /\ Handled("loader", processed)' = g
    BY <2>1, <2>2, <2>3 DEF Handled
  <2> HIDE DEF i, g, hc, hl, m, c, l
  <2>5. /\ RowsOf(stored) \subseteq RowsOf(g) /\ Repeats(hl) <= Repeats(g)
        /\ RowsOf(Append(stored, i)) \subseteq RowsOf(g)
        /\ Repeats(Append(stored, i)) - Repeats(stored) <= Repeats(g) - Repeats(hl)
        /\ RowsOf(stored \o <<i, i>>) \subseteq RowsOf(g)
        /\ Repeats(stored \o <<i, i>>) - Repeats(stored) <= Repeats(g) - Repeats(hl) + 1
        /\ Repeats(g) \in Int
    BY <1>t, <1>f, <1>h, <2>3, HandedOn, RowsFinite DEF g
  <2>6. stored' \in Seq(Row)
    <3>1. Append(stored, i) \in Seq(Row) /\ stored \o <<i, i>> \in Seq(Row)
      BY <1>t, <2>3, RepeatsAppend, RepeatsTwice
    <3> QED
      BY <1>t, <2>1, <3>1
  <2>7. Flow'
    <3>1. RowsOf(stored') \subseteq RowsOf(g)
      BY <2>1, <2>5
    <3> QED
      BY <1>l, <1>f, <2>1, <2>2, <2>4, <3>1 DEF Flow
  <2>8. RepeatsPaid'
    <3>1. Repeats(stored') \in Int
      BY <2>6, RowsFinite
    <3>2. /\ Repeats(stored') - Repeats(stored)
               <= Repeats(g) - Repeats(hl) + (copies' - copies)
          /\ copies' \in Int
      <4>1. CASE stored' = Append(stored, i) /\ copies' = copies
        BY <1>n, <2>5, <3>1, <4>1
      <4>2. CASE stored' = stored \o <<i, i>> /\ copies' = copies + 1
        BY <1>n, <2>5, <3>1, <4>2
      <4>3. CASE UNCHANGED <<stored, copies>>
        BY <1>n, <2>5, <3>1, <4>3
      <4> QED
        BY <2>1, <4>1, <4>2, <4>3
    <3>3. Repeats(raw) + Repeats(processed) + Repeats(stored')
            <= copies' + Repeats(hc) + Repeats(g)
      BY <1>n, <1>p, <2>5, <3>1, <3>2
    <3> QED
      BY <2>1, <2>4, <3>3 DEF RepeatsPaid
  <2> QED
    BY <2>7, <2>8
<1>4. CASE \/ Launch \/ Launched \/ Poll \/ Terminated \/ Collect \/ VerifyDeltas
           \/ \E p \in Proc : Kill(p) \/ End(p) \/ Obey(p)
           \/ Returned \/ UNCHANGED vars
  BY <1>4, <1>same DEF Launch, Launched, Poll, Terminated, Collect, VerifyDeltas, Kill, End,
                       Obey, Returned, vars, runner, docker, data
<1> QED
  BY <1>1, <1>2, <1>3, <1>4 DEF Next, Runner, Work

\* What is stored stays, so a count that has passed stays large enough.
LEMMA CountedStep == TypeOK /\ Counted /\ [Next]_vars => Counted'
<1> SUFFICES ASSUME TypeOK, Counted, [Next]_vars, check' = "passed"
             PROVE  Len(stored') >= Rows
  BY DEF Counted
<1> USE DEF runner, docker, data
<1>1. stored \in Seq(Row) /\ processed \in Seq(Row) /\ Rows \in Nat /\ Len(stored) \in Nat
  BY RunnerAssumption DEF TypeOK
<1>2. CASE Store
  <2>1. check' = check
    BY <1>2 DEF Store
  <2> DEFINE i == processed[done["loader"] + 1]
  <2>2. \/ stored' = stored \/ stored' = Append(stored, i)
        \/ stored' = stored \o <<i, i>>
    BY <1>2 DEF Store
  <2>3. Len(stored') \in {Len(stored), Len(stored) + 1, Len(stored) + 2}
    <3> HIDE DEF i
    <3>1. Len(Append(stored, i)) = Len(stored) + 1
      BY <1>1
    <3>2. Len(stored \o <<i, i>>) = Len(stored) + 2
      BY <1>1, Len(<<i, i>>) = 2
    <3> QED
      BY <2>2, <3>1, <3>2
  <2> QED
    BY <1>1, <2>1, <2>3 DEF Counted
<1>3. CASE VerifyDeltas
  <2>1. stored' = stored /\ (check' = check \/ DeltaPasses)
    BY <1>3 DEF VerifyDeltas
  <2> QED
    BY <1>1, <2>1 DEF Counted, DeltaPasses, Total
<1>4. CASE \/ Launch \/ Launched \/ Poll \/ Terminated \/ Collect \/ Publish \/ Relay
           \/ \E p \in Proc : Kill(p) \/ End(p) \/ Obey(p)
           \/ Returned \/ UNCHANGED vars
  <2>1. check' = check /\ stored' = stored
    BY <1>4 DEF Launch, Launched, Poll, Terminated, Collect, Publish, Relay, Kill, End, Obey,
                Returned, vars
  <2> QED
    BY <2>1 DEF Counted
<1> QED
  BY <1>2, <1>3, <1>4 DEF Next, Runner, Work

\* A row count that passes cannot hide that the consumer or the loader gave up
\* too early: the rows that are missing are no more than the records published or
\* stored twice, and without such records every row is stored once.
THEOREM PassedCountMeansLoaded == Spec => []PassedMeansLoaded
<1>1. Init => Flow /\ RepeatsPaid /\ Counted
  <2> SUFFICES ASSUME Init
               PROVE  Flow /\ RepeatsPaid /\ Counted
    OBVIOUS
  <2>1. /\ raw = <<>> /\ processed = <<>> /\ stored = <<>> /\ copies = 0 /\ check = "none"
        /\ done["producer"] = 0 /\ done["consumer"] = 0 /\ done["loader"] = 0
    BY DEF Init, Proc, Order
  <2>2. RowsOf(<<>>) = {} /\ Len(<<>>) = 0 /\ SubSeq(<<>>, 1, 0) = <<>>
    BY DEF RowsOf
  <2>3. Repeats(<<>>) = 0
    BY <2>2, FS_EmptySet DEF Repeats
  <2>4. Handled("consumer", raw) = <<>> /\ Handled("loader", processed) = <<>>
    BY <2>1, <2>2 DEF Handled
  <2> QED
    BY <2>1, <2>2, <2>3, <2>4 DEF Flow, RepeatsPaid, Counted
<1>2. TypeOK /\ Flow /\ RepeatsPaid /\ Counted => PassedMeansLoaded
  <2> SUFFICES ASSUME TypeOK, Flow, RepeatsPaid, Counted, check = "passed"
               PROVE  /\ Cardinality(Row \ {stored[k] : k \in DOMAIN stored}) <= copies
                      /\ copies = 0 =>
                           \A i \in Row : Cardinality({k \in DOMAIN stored : stored[k] = i}) = 1
    BY DEF PassedMeansLoaded
  <2> DEFINE n     == Len(stored)
             known == Cardinality(RowsOf(stored))
  <2>1. /\ raw \in Seq(Row) /\ processed \in Seq(Row) /\ stored \in Seq(Row)
        /\ n \in Nat /\ known \in Nat /\ copies \in Nat /\ Rows \in Nat
        /\ n >= Rows /\ known <= Rows
    BY RunnerAssumption, RowsFinite DEF TypeOK, Counted
  <2>2. Repeats(stored) <= copies
    <3>1. /\ done["consumer"] \in Nat /\ done["loader"] \in Nat
          /\ done["consumer"] <= Len(raw) /\ done["loader"] <= Len(processed)
      BY RunnerAssumption DEF TypeOK, Flow, Proc, Order
    <3>2. /\ Handled("consumer", raw) \in Seq(Row) /\ Handled("loader", processed) \in Seq(Row)
          /\ Repeats(Handled("consumer", raw)) <= Repeats(raw)
          /\ Repeats(Handled("loader", processed)) <= Repeats(processed)
      BY <2>1, <3>1, PrefixGrows, PrefixRepeats DEF Handled
    <3>3. /\ Repeats(raw) \in Int /\ Repeats(processed) \in Int /\ Repeats(stored) \in Int
          /\ Repeats(Handled("consumer", raw)) \in Int
          /\ Repeats(Handled("loader", processed)) \in Int
      BY <2>1, <3>2, RowsFinite
    <3>4. Repeats(raw) + Repeats(processed) + Repeats(stored)
            <= copies + Repeats(Handled("consumer", raw)) + Repeats(Handled("loader", processed))
      BY DEF RepeatsPaid
    <3>5. copies \in Int
      BY <2>1
    <3> QED
      BY <3>2, <3>3, <3>4, <3>5
  <2>3. n - known <= copies
    BY <2>2 DEF Repeats
  <2>4. Cardinality(Row \ RowsOf(stored)) = Rows - known
    <3>1. Row \cap RowsOf(stored) = RowsOf(stored)
      BY <2>1, RowsFinite
    <3>2. /\ IsFiniteSet(Row) /\ Cardinality(Row) = Rows
          /\ Cardinality(Row \ RowsOf(stored))
               = Cardinality(Row) - Cardinality(Row \cap RowsOf(stored))
      BY <2>1, RowsFinite, FS_Difference
    <3> QED
      BY <3>1, <3>2
  <2>5. Cardinality(Row \ RowsOf(stored)) <= copies
    <3> HIDE DEF n, known
    <3> QED
      BY <2>1, <2>3, <2>4
  <2>6. ASSUME copies = 0, NEW i \in Row
        PROVE  Cardinality({k \in DOMAIN stored : stored[k] = i}) = 1
    <3>1. known = Rows /\ n = Rows
      <4> HIDE DEF n, known
      <4> QED
        BY <2>1, <2>3, <2>6
    <3>2. RowsOf(stored) = Row
      BY <2>1, <3>1, RowsFinite, FS_Subset
    <3>3. /\ stored \in Surjection(1..n, Row) /\ IsFiniteSet(1..n)
          /\ Cardinality(1..n) = Cardinality(Row)
      <4>1. stored \in [1..n -> Row] /\ DOMAIN stored = 1..n
        BY <2>1
      <4>2. \A x \in Row : \E k \in 1..n : stored[k] = x
        BY <3>2, <4>1 DEF RowsOf
      <4>3. IsFiniteSet(1..n) /\ Cardinality(1..n) = n
        <5> HIDE DEF n
        <5>1. 1 \in Int /\ n \in Int /\ (1 > n => n = 0) /\ n - 1 + 1 = n
          BY <2>1
        <5> QED
          BY <5>1, FS_Interval
      <4> QED
        BY <2>1, <3>1, <4>1, <4>2, <4>3, RowsFinite DEF Surjection
    <3>4. stored \in Injection(1..n, Row)
      BY <3>3, FS_Surjection
    <3>5. PICK k \in 1..n : stored[k] = i
      BY <3>3 DEF Surjection
    <3>6. {j \in DOMAIN stored : stored[j] = i} = {k}
      <4>1. DOMAIN stored = 1..n
        BY <2>1
      <4>2. \A j \in 1..n : stored[j] = i => j = k
        BY <3>4, <3>5 DEF Injection, IsInjective
      <4> HIDE DEF n
      <4> QED
        BY <3>5, <4>1, <4>2
    <3> QED
      BY <3>6, FS_Singleton
  <2> QED
    BY <2>5, <2>6 DEF RowsOf
<1> QED
  BY <1>1, <1>2, TypeInvariant, TypeStep, FlowStep, CountedStep, PTL DEF Spec

-----------------------------------------------------------------------------
(***************************************************************************)
(* The end of the flow.  Beside the fairness, RunnerReturns rests on two   *)
(* facts: whatever the runner waits for has a step to take; and nothing    *)
(* but another turn of its polling loop leaves the flow as far from its    *)
(* end as it was.                                                          *)
(***************************************************************************)

\* How far the runner is from its return: it polls a second time at most, after
\* a startup failure, and then for as long as nothing has failed.
Stage ==
    CASE pc = "launch" -> 7
      [] pc = "poll" /\ ~startup -> 6
      [] pc = "grace" /\ culprit = "none" -> 5
      [] pc = "poll" /\ startup -> 4
      [] pc = "grace" /\ culprit # "none" -> 3
      [] pc = "collect" -> 2
      [] pc = "counts" -> 1
      [] OTHER -> 0

\* Process p alone moves: its command ends, or its container, or the container
\* handles one thing more, below its limit.
Moves(p) ==
    /\ \A q \in Proc \ {p} : UNCHANGED <<client[q], container[q], done[q]>>
    /\ \/ client[p] = "running" /\ Ended(p)' /\ container'[p] \in {container[p], "gone"}
       \/ client'[p] = client[p] /\ container[p] = "up" /\ container'[p] = "gone"
       \/ /\ UNCHANGED <<client[p], container[p]>>
          /\ done'[p] = done[p] + 1 /\ done'[p] <= Rows

\* The polling loop goes on: it has seen one more process end, or looks at the
\* next one, or comes round while there is one whose end it has not seen.
Turn ==
    /\ Stage' = Stage /\ started' = started
    /\ \/ seen \subseteq seen' /\ seen' # seen
       \/ seen' = seen /\ scan' = scan + 1
       \/ seen' = seen /\ scan' = 1 /\ seen # Handles

\* Each step brings the flow nearer to its end, by the runner's stage, by a
\* process more that is started, or by the process that moves while the runner
\* waits; only the turns of the polling loop leave everything as it was.
FlowAdvances ==
    [][\/ Stage' < Stage
       \/ Stage' = Stage /\ started' = started + 1 /\ UNCHANGED data
       \/ UNCHANGED runner /\ \E p \in Proc : Moves(p)
       \/ UNCHANGED <<docker, data>> /\ Turn]_vars

\* The guards of what the container of p does.
ContainerAble(p) ==
    /\ container[p] = "up"
    /\ \/ Exits(p)
       \/ /\ done[p] < Rows
          /\ p = "consumer" => done[p] < Len(raw)
          /\ p = "loader" => done[p] < Len(processed)

\* The runner has something to poll; each command it waits for while it
\* terminates is one it has marked, and so can kill; and each it waits for at
\* any time has ended, or still runs beside a container that can go on.
RunnerNotStuck ==
    /\ pc = "poll" => Handles # {}
    /\ pc = "grace" => Running \subseteq marked
    /\ \A p \in Handles : Ended(p) \/ (client[p] = "running" /\ ContainerAble(p))

\* What is started has a command; a command that runs has its container; the
\* loop polls something, and looks at what is started; what runs while processes
\* are terminated is marked.
Awaited ==
    /\ scan # 1 => scan <= started
    /\ \A p \in Handles : client[p] # "unstarted"
    /\ \A p \in Proc : client[p] = "running" => container[p] = "up"
    /\ pc = "poll" => Handles # {}
    /\ pc = "grace" => Running \subseteq marked

LEMMA AwaitedInit == Init => Awaited
  BY DEF Init, Awaited, Handles

LEMMA AwaitedStep == RunnerInv /\ Awaited /\ [Next]_vars => Awaited'
<1> SUFFICES ASSUME RunnerInv, Awaited, [Next]_vars
             PROVE  Awaited'
  OBVIOUS
<1>0. /\ TypeOK /\ Underway
      /\ client \in [Proc -> {"unstarted", "running", "zero", "nonzero"}]
      /\ container \in [Proc -> {"none", "up", "gone"}]
      /\ scan \in 1..3 /\ started \in 0..3 /\ Len(Order) = 3
  BY Processes DEF RunnerInv, TypeOK
<1>1. CASE Launch
  <2>1. started < 3 /\ pc = "launch" /\ scan' = scan
    BY <1>0, <1>1 DEF Launch
  <2> DEFINE new == Order[started + 1]
  <2>2. new \in Proc
    BY <1>0, <2>1, Processes
  <2>3. CASE /\ client' = [client EXCEPT ![new] = "running"]
             /\ container' = [container EXCEPT ![new] = "up"]
             /\ started' = started + 1 /\ pc' = pc
    <3>1. Handles' = Handles \cup {new}
      BY <1>0, <2>1, <2>3 DEF Handles
    <3>2. \A p \in Handles' : client'[p] # "unstarted"
      BY <1>0, <2>2, <2>3, <3>1, HandlesStarted DEF Awaited
    <3>3. \A p \in Proc : client'[p] = "running" => container'[p] = "up"
      BY <1>0, <2>2, <2>3 DEF Awaited
    <3> QED
      BY <1>0, <2>1, <2>3, <3>2, <3>3 DEF Awaited
  <2>4. CASE UNCHANGED <<started, docker>> /\ Terminate
    BY <1>0, <2>1, <2>4 DEF Awaited, docker, Terminate, Marks, Handles, Running
  <2>5. CASE UNCHANGED <<started, docker>> /\ pc' = "raised"
    BY <1>0, <2>1, <2>5 DEF Awaited, docker, Handles
  <2> QED
    BY <1>1, <2>3, <2>4, <2>5 DEF Launch
<1>2. CASE Poll
  <2>1. UNCHANGED <<started, docker>> /\ pc = "poll" /\ Handles # {}
    BY <1>2 DEF Poll
  <2>2. started \in 1..3
    BY <1>0, <2>1, HandlesStarted
  <2>3. scan' # 1 => scan' <= started'
    BY <1>0, <1>2, <2>1, <2>2 DEF Poll
  <2>4. Handles' = Handles /\ Running' = Running
    BY <2>1 DEF docker, Handles, Running
  <2>5. pc' # "grace" \/ marked' = marked \cup Running
    BY <1>2 DEF Poll, Terminate, Marks
  <2> QED
    BY <2>1, <2>3, <2>4, <2>5 DEF Awaited, docker
<1>3. CASE Launched \/ Terminated \/ Collect \/ VerifyDeltas
  <2>1. UNCHANGED <<started, scan, docker>> /\ Handles' = Handles
    BY <1>3 DEF Launched, Terminated, Collect, VerifyDeltas, Handles
  <2>2. pc' # "grace" /\ (pc' = "poll" => Handles # {})
    BY <1>0, <1>3, HandlesStarted DEF Launched, Terminated, Collect, VerifyDeltas
  <2> QED
    BY <2>1, <2>2 DEF Awaited, docker
<1>4. ASSUME UNCHANGED runner,
             \A p \in Proc : \/ UNCHANGED <<client[p], container[p]>>
                             \/ client'[p] \in {"zero", "nonzero"}
                             \/ client'[p] = client[p] /\ client[p] # "running"
      PROVE  Awaited'
  <2>1. UNCHANGED <<pc, started, scan, marked>> /\ Handles' = Handles
    BY <1>4 DEF runner, Handles
  <2>2. \A p \in Proc : client'[p] = "running" => client[p] = "running" /\ container'[p] = "up"
    BY <1>4 DEF Awaited
  <2>3. \A p \in Handles : client'[p] # "unstarted"
    BY <1>0, <1>4, HandlesStarted DEF Awaited
  <2>4. Running' \subseteq Running
    BY <1>0, <2>1, <2>2, HandlesStarted DEF Running
  <2> QED
    BY <2>1, <2>2, <2>3, <2>4 DEF Awaited
<1>5. ASSUME NEW p \in Proc, Kill(p) \/ Obey(p)
      PROVE  Awaited'
  BY <1>0, <1>4, <1>5 DEF Kill, Obey
<1>6. ASSUME NEW p \in Proc, End(p)
      PROVE  Awaited'
  BY <1>0, <1>4, <1>6 DEF End
<1>7. CASE Publish \/ Relay \/ Store \/ Returned \/ UNCHANGED vars
  <2>1. UNCHANGED <<runner, docker>>
    BY <1>7 DEF Publish, Relay, Store, Returned, vars
  <2> QED
    BY <1>4, <2>1 DEF docker
<1> QED
  BY <1>1, <1>2, <1>3, <1>5, <1>6, <1>7 DEF Next, Runner, Work

LEMMA AwaitedInvariant == Spec => []Awaited
<1> QED
  BY AwaitedInit, AwaitedStep, RunnerInvariant, PTL DEF Spec

\* The runner never waits for nothing: whatever it polls, terminates or
\* collects has ended or is still to end by a step of its own.
THEOREM NeverStuck == Spec => []RunnerNotStuck
<1>1. RunnerInv /\ Awaited => RunnerNotStuck
  <2> SUFFICES ASSUME RunnerInv, Awaited
               PROVE  RunnerNotStuck
    OBVIOUS
  <2>1. TypeOK
    BY DEF RunnerInv
  <2>2. ASSUME NEW p \in Handles, ~Ended(p)
        PROVE  client[p] = "running" /\ ContainerAble(p)
    <3>1. p \in Proc
      BY <2>1, HandlesStarted DEF TypeOK
    <3>2. client[p] = "running" /\ container[p] = "up"
      BY <2>1, <2>2, <3>1 DEF Awaited, Ended, TypeOK
    <3>3. /\ done[p] \in 0..Rows /\ Rows \in Nat
          /\ Len(raw) \in Nat /\ Len(processed) \in Nat
      BY <2>1, <3>1, RunnerAssumption DEF TypeOK
    <3>4. Exits(p) \/ (/\ done[p] < Rows
                       /\ p = "consumer" => done[p] < Len(raw)
                       /\ p = "loader" => done[p] < Len(processed))
      BY <3>3 DEF Exits
    <3> QED
      BY <3>2, <3>4 DEF ContainerAble
  <2> QED
    BY <2>2 DEF Awaited, RunnerNotStuck
<1> QED
  BY <1>1, RunnerInvariant, AwaitedInvariant, PTL DEF Spec

\* What each runner's step makes of the stage.
LEMMA StageStep ==
  ASSUME TypeOK, Awaited, Runner, ~\E p \in Proc : Kill(p)
  PROVE  \/ Stage' < Stage
         \/ Stage' = Stage /\ started' = started + 1 /\ UNCHANGED data
         \/ UNCHANGED <<docker, data>> /\ Turn
<1>1. /\ pc \in {"launch", "poll", "grace", "collect", "counts", "returned", "raised"}
      /\ startup \in BOOLEAN /\ Stage \in 0..7
  BY DEF TypeOK, Stage
<1>2. CASE Launch
  <2>1. CASE pc' = "launch"
    <3>1. started' = started + 1 /\ UNCHANGED data
      BY <1>2, <2>1 DEF Launch, Terminate
    <3>2. Stage = 7 /\ Stage' = 7
      BY <1>2, <2>1 DEF Launch, Stage
    <3> QED
      BY <3>1, <3>2
  <2>2. CASE pc' # "launch"
    <3>1. pc = "launch" /\ pc' \in {"grace", "raised"}
      BY <1>2, <2>2 DEF Launch, Terminate
    <3>2. Stage = 7 /\ Stage' \in {0, 3, 5}
      BY <3>1 DEF Stage
    <3> QED
      BY <3>2
  <2> QED
    BY <2>1, <2>2
<1>3. CASE Launched
  <2>1. Stage = 7 /\ Stage' \in {4, 6}
    BY <1>1, <1>3 DEF Launched, Stage
  <2> QED
    BY <2>1
<1>4. CASE Poll
  <2> DEFINE p == Order[scan]
  <2>1. p \in Proc /\ p # "none"
    BY Processes DEF TypeOK
  <2>2. pc = "poll" /\ startup' = startup /\ started' = started /\ UNCHANGED <<docker, data>>
    BY <1>4 DEF Poll
  <2>3. Stage \in {4, 6}
    BY <1>1, <2>2 DEF Stage
  <2>4. CASE p \notin seen /\ client[p] = "nonzero"
    <3>1. culprit' = p /\ pc' = "grace"
      BY <1>4, <2>4 DEF Poll, Terminate
    <3>2. Stage' = 3
      BY <2>1, <3>1 DEF Stage
    <3> QED
      BY <2>3, <3>2
  <2>5. CASE ~(p \notin seen /\ client[p] = "nonzero")
    <3>1. /\ pc' = IF scan = started /\ seen' = Handles THEN "collect" ELSE "poll"
          /\ seen' = (IF Ended(p) THEN seen \cup {p} ELSE seen)
          /\ scan' = (IF scan < started THEN scan + 1 ELSE 1)
      BY <1>4, <2>5 DEF Poll
    <3>2. CASE pc' = "collect"
      <4>1. Stage' = 2
        BY <3>2 DEF Stage
      <4> QED
        BY <2>3, <4>1
    <3>3. CASE pc' = "poll"
      <4>1. Stage' = Stage
        BY <2>2, <3>3 DEF Stage
      <4>2. seen \subseteq seen'
        BY <3>1
      <4>3. CASE seen' # seen
        BY <2>2, <4>1, <4>2, <4>3 DEF Turn
      <4>4. CASE seen' = seen /\ scan < started
        BY <2>2, <3>1, <4>1, <4>4 DEF Turn
      <4>5. CASE seen' = seen /\ ~(scan < started)
        <5>1. scan \in 1..3 /\ started \in 0..3 /\ scan <= started
          BY <1>4, HandlesStarted, Processes DEF TypeOK, Awaited, Poll
        <5>2. scan' = 1
          BY <3>1, <4>5
        <5>3. QED
          BY <1>4, <2>2, <3>1, <3>3, <4>1, <4>5, <5>1, <5>2 DEF Turn
      <4> QED
        BY <4>3, <4>4, <4>5
    <3> QED
      BY <3>1, <3>2, <3>3
  <2> QED
    BY <2>4, <2>5
<1>5. CASE Terminated
  <2>1. CASE startup /\ culprit = "none" /\ Handles # {}
    <3>1. Stage = 5 /\ Stage' = 4
      BY <1>1, <1>5, <2>1 DEF Terminated, Stage
    <3> QED
      BY <3>1
  <2>2. CASE ~(startup /\ culprit = "none" /\ Handles # {})
    <3>1. Stage \in {3, 5} /\ Stage' = 2
      BY <1>1, <1>5, <2>2 DEF Terminated, Stage
    <3> QED
      BY <3>1
  <2> QED
    BY <2>1, <2>2
<1>6. CASE Collect
  <2>1. Stage = 2 /\ Stage' \in {0, 1}
    BY <1>6 DEF Collect, Stage
  <2> QED
    BY <2>1
<1>7. CASE VerifyDeltas
  <2>1. Stage = 1 /\ Stage' = 0
    BY <1>7 DEF VerifyDeltas, Stage
  <2> QED
    BY <2>1
<1> QED
  BY <1>2, <1>3, <1>4, <1>5, <1>6, <1>7 DEF Runner

\* What the commands and the containers do while the runner waits.
LEMMA WorkStep ==
  ASSUME TypeOK, Work \/ \E p \in Proc : Kill(p)
  PROVE  UNCHANGED runner /\ \E p \in Proc : Moves(p)
<1>1. /\ client \in [Proc -> {"unstarted", "running", "zero", "nonzero"}]
      /\ container \in [Proc -> {"none", "up", "gone"}]
      /\ done \in [Proc -> 0..Rows] /\ Rows \in Nat
  BY RunnerAssumption DEF TypeOK
<1>2. /\ "consumer" \in Proc /\ "loader" \in Proc /\ "producer" \in Proc
  <2>1. /\ Order[1] = "consumer" /\ Order[2] = "loader" /\ Order[3] = "producer"
    BY DEF Order
  <2> QED
    BY <2>1, Processes
<1>3. ASSUME NEW p \in Proc, Handle(p), UNCHANGED docker
      PROVE  Moves(p)
  <2>1. done'[p] = done[p] + 1 /\ \A q \in Proc \ {p} : done'[q] = done[q]
    BY <1>1, <1>3 DEF Handle
  <2>2. done[p] < Rows /\ done[p] \in Nat
    BY <1>1, <1>3 DEF Handle
  <2>3. done'[p] <= Rows
    BY <1>1, <2>1, <2>2
  <2>4. client' = client /\ container' = container
    BY <1>3 DEF docker
  <2> QED
    BY <2>1, <2>3, <2>4 DEF Moves
<1>4. CASE Publish
  BY <1>2, <1>3, <1>4 DEF Publish
<1>5. CASE Relay
  BY <1>2, <1>3, <1>5 DEF Relay
<1>6. CASE Store
  BY <1>2, <1>3, <1>6 DEF Store
<1>7. ASSUME NEW p \in Proc, Kill(p) \/ Obey(p)
      PROVE  UNCHANGED runner /\ Moves(p)
  <2>1. UNCHANGED runner /\ client[p] = "running" /\ done' = done
    BY <1>7 DEF Kill, Obey, data
  <2>2. client'[p] = "nonzero" /\ \A q \in Proc \ {p} : client'[q] = client[q]
    BY <1>1, <1>7 DEF Kill, Obey
  <2>3. /\ container'[p] \in {container[p], "gone"}
        /\ \A q \in Proc \ {p} : container'[q] = container[q]
    BY <1>1, <1>7 DEF Kill, Obey
  <2> QED
    BY <2>1, <2>2, <2>3 DEF Moves, Ended
<1>8. ASSUME NEW p \in Proc, End(p)
      PROVE  UNCHANGED runner /\ Moves(p)
  <2>1. UNCHANGED runner /\ container[p] = "up" /\ done' = done
    BY <1>8 DEF End, data
  <2>2. /\ container'[p] = "gone" /\ \A q \in Proc \ {p} : container'[q] = container[q]
    BY <1>1, <1>8 DEF End
  <2>3. /\ \A q \in Proc \ {p} : client'[q] = client[q]
        /\ IF client[p] = "running" THEN client'[p] \in {"zero", "nonzero"}
                                    ELSE client'[p] = client[p]
    BY <1>1, <1>8 DEF End
  <2> QED
    BY <2>1, <2>2, <2>3 DEF Moves, Ended
<1> QED
  BY <1>2, <1>3, <1>4, <1>5, <1>6, <1>7, <1>8 DEF Work, Publish, Relay, Store

\* No flow goes on for ever but in the turns of its polling loop, whatever
\* fails and however the processes interleave.
THEOREM FlowsAdvance == Spec => FlowAdvances
<1>1. TypeOK /\ Awaited /\ [Next]_vars
        => [\/ Stage' < Stage
            \/ Stage' = Stage /\ started' = started + 1 /\ UNCHANGED data
            \/ UNCHANGED runner /\ \E p \in Proc : Moves(p)
            \/ UNCHANGED <<docker, data>> /\ Turn]_vars
  BY StageStep, WorkStep DEF Next, Returned
<1> QED
  BY <1>1, TypeInvariant, AwaitedInvariant, PTL DEF Spec, FlowAdvances
=============================================================================
