---------------------- MODULE ObservabilityWriterProofs ----------------------
(***************************************************************************)
(* Proofs about the observability writer, for every number of writers,     *)
(* attempts and failures: type correctness; a single audit row stands      *)
(* beside the checks and alerts of the attempt it describes; a run that    *)
(* has settled on one audit row keeps one; flags follow deliveries; no     *)
(* alert that is due is missed; the writers never all wait for each other; *)
(* and each step of a writer brings it nearer to its end.                  *)
(*                                                                         *)
(* The argument: each batch of checks or alerts belongs to an audit row    *)
(* that describes the same attempt.  A writer locks audit rows first; from *)
(* then on nobody else rewrites them or the batches that belong to them,   *)
(* so that its DELETEs find every such batch.  When its COMMIT leaves a    *)
(* single audit row, it held all the others, and no other batch is left.   *)
(***************************************************************************)
EXTENDS ObservabilityWriter, WellFoundedInduction, FiniteSetTheorems, TLAPS

\* The program points of the first transaction, before its COMMIT returns.
InTransaction == {"count_processed", "count_invalid", "select_audit", "lock_audit",
                  "delete_audit", "replace_checks", "await_checks", "replace_alerts",
                  "await_alerts", "commit"}

\* Those at which the audit row to write is known, and those after the
\* DELETE of the checks, and of the alerts, has begun and has returned.
KeptKnown     == {"delete_audit", "replace_checks", "await_checks", "replace_alerts",
                  "await_alerts", "commit"}
ChecksCleared == {"replace_alerts", "await_alerts", "commit"}

\* A writer that runs has an attempt, and one that knows its audit row an id.
Numbered ==
    /\ \A w \in Writer : pc[w] # "idle" => attempt[w] > 0
    /\ \A w \in Writer : pc[w] \in KeptKnown => kept[w] > 0

TypeInv == TypeOK /\ Numbered

\* Attempts are numbered in the order they start, and until it commits an
\* attempt has left no trace in the tables.
AttemptsFresh ==
    /\ \A w \in Writer : attempt[w] <= attempts
    /\ \A v, w \in Writer : v # w /\ pc[v] # "idle" => attempt[v] # attempt[w]
    /\ \A row \in audit : row.by <= attempts
    /\ \A a \in checks \cup alerts : a <= attempts
    /\ \A w \in Writer : pc[w] \in InTransaction =>
           /\ \A row \in audit : row.by # attempt[w]
           /\ attempt[w] \notin checks \cup alerts

\* A locked audit row is there and locked once.
LocksHeld ==
    /\ \A w \in Writer : held[w] \subseteq Ids
    /\ \A v, w \in Writer : v # w => held[v] \cap held[w] = {}
    /\ \A w \in Writer : held[w] # {} => pc[w] \in {"lock_audit"} \cup KeptKnown

\* The audit row to write is one the writer has locked, or a new one.
KeptOwned ==
    /\ \A i \in Ids : i < nextId
    /\ \A w \in Writer : pc[w] \in KeptKnown =>
           /\ kept[w] \in held[w] \/ kept[w] \notin Ids
           /\ kept[w] < nextId
    /\ \A v, w \in Writer :
           v # w /\ pc[v] \in KeptKnown /\ pc[w] \in KeptKnown => kept[v] # kept[w]

\* Checks and alerts belong to an attempt that an audit row describes.
BatchesDescribed ==
    /\ \A a \in checks : \E row \in audit : row.by = a
    /\ \A a \in alerts : \E row \in audit : row.by = a

\* A DELETE finds the checks, or the alerts, that belong to the audit rows its
\* writer has locked.
ChecksFound ==
    \A w \in Writer : \A row \in audit :
        row.id \in held[w] /\ row.by \in checks =>
            /\ pc[w] = "await_checks" => row.by \in seen[w]
            /\ pc[w] \in ChecksCleared => row.by \in cleared[w].checks

AlertsFound ==
    \A w \in Writer : \A row \in audit :
        row.id \in held[w] /\ row.by \in alerts =>
            /\ pc[w] = "await_alerts" => row.by \in seen[w]
            /\ pc[w] = "commit" => row.by \in cleared[w].alerts

WriterInv ==
    /\ TypeInv
    /\ AttemptsFresh
    /\ LocksHeld
    /\ KeptOwned
    /\ BatchesDescribed
    /\ ChecksFound
    /\ AlertsFound
    /\ TablesAgree

-----------------------------------------------------------------------------
(***************************************************************************)
(* Type correctness.                                                       *)
(***************************************************************************)

\* A set of numbers that is not empty has a least one.
LEMMA LeastIn ==
    ASSUME NEW S \in SUBSET Nat, S # {}
    PROVE  Least(S) \in S
<1>1. PICK x \in S : \A y \in S : ~(<<y, x>> \in OpToRel(<, Nat))
  BY NatLessThanWellFounded, WFMin, Zenon
<1>2. ASSUME NEW y \in S
      PROVE  x <= y
  <2>1. ~(<<y, x>> \in OpToRel(<, Nat))
    BY <1>1
  <2>2. <<y, x>> \in OpToRel(<, Nat) <=> y < x
    BY DEF OpToRel
  <2>3. ~(y < x)
    BY <2>1, <2>2, Zenon
  <2>4. QED
    BY <2>3
<1>3. QED
  BY <1>2 DEF Least

LEMMA TypeInit == Init => TypeInv
<1> SUFFICES ASSUME Init
             PROVE  TypeInv
  OBVIOUS
<1>1. /\ warehouse \in [Table -> 0..MaxRows]
      /\ counted \in [Writer -> [Table -> 0..MaxRows]]
  BY WriterAssumption DEF Init
<1>2. cleared \in [Writer -> [checks : SUBSET Attempt, alerts : SUBSET Attempt]]
  BY DEF Init, Unlocked
<1>3. /\ attempts \in 0..MaxAttempts /\ faults \in 0..MaxFaults
      /\ attempt \in [Writer -> 0..MaxAttempts]
  BY WriterAssumption DEF Init
<1>4. TypeOK
  BY <1>1, <1>2, <1>3 DEF Init, TypeOK, ProgramPoint
<1>5. Numbered
  BY DEF Init, Numbered, KeptKnown
<1>6. QED
  BY <1>4, <1>5 DEF TypeInv

\* The end of a transaction.
LEMMA ReleaseType ==
    ASSUME TypeOK, NEW w \in Writer, Release(w)
    PROVE  /\ held' \in [Writer -> SUBSET (Nat \ {0})]
           /\ cleared' \in [Writer -> [checks : SUBSET Attempt, alerts : SUBSET Attempt]]
           /\ kept' \in [Writer -> Nat]
           /\ seen' \in [Writer -> SUBSET Nat]
<1>1. Unlocked \in [checks : SUBSET Attempt, alerts : SUBSET Attempt]
  BY DEF Unlocked
<1>2. QED
  BY <1>1 DEF TypeOK, Release

LEMMA IdsType == TypeOK => Ids \in SUBSET (Nat \ {0})
BY DEF TypeOK, Ids

\* The rows a writer may lock next are audit rows it has not locked.
LEMMA NextRowsIn ==
    ASSUME TypeOK, NEW w \in Writer
    PROVE  /\ Pending(w) \subseteq Ids
           /\ NextRows(w) \subseteq Pending(w)
<1>1. Pending(w) \subseteq Ids
  BY DEF Pending, Existing
<1>2. Pending(w) # {} => Least(Pending(w)) \in Pending(w)
  BY <1>1, IdsType, LeastIn
<1>3. QED
  BY <1>1, <1>2 DEF NextRows

\* The numbers of attempts are natural numbers.
LEMMA BatchesType == TypeOK => checks \in SUBSET Nat /\ alerts \in SUBSET Nat
BY DEF TypeOK, Attempt

LEMMA FailedChecksType == \A n : FailedChecks(n) \subseteq Check
BY DEF FailedChecks

LEMMA AttemptType ==
    ASSUME TypeInv, NEW w \in Writer, pc[w] # "idle"
    PROVE  attempt[w] \in Attempt
<1>1. attempt[w] \in 0..MaxAttempts
  BY DEF TypeInv, TypeOK
<1>2. attempt[w] > 0
  BY DEF TypeInv, Numbered
<1>3. QED
  BY <1>1, <1>2, WriterAssumption DEF Attempt

LEMMA TypeStep ==
    ASSUME TypeInv, [Next]_vars
    PROVE  TypeInv'
<1> USE DEF tables, locals
<1>0. TypeOK /\ Numbered
  BY DEF TypeInv
<1> SUFFICES TypeOK' /\ Numbered'
  BY DEF TypeInv
<1>1. CASE UNCHANGED vars
  BY <1>0, <1>1 DEF vars, TypeOK, Numbered
<1>2. ASSUME NEW t \in Table, LoaderInserts(t)
      PROVE  TypeOK' /\ Numbered'
  <2>1. warehouse' \in [Table -> 0..MaxRows]
    <3>1. warehouse \in [Table -> 0..MaxRows] /\ MaxRows \in Nat
      BY <1>0, WriterAssumption DEF TypeOK
    <3>2. warehouse[t] + 1 \in 0..MaxRows
      BY <1>2, <3>1 DEF LoaderInserts
    <3>3. QED
      BY <1>2, <3>1, <3>2 DEF LoaderInserts
  <2>2. TypeOK'
    BY <1>0, <1>2, <2>1 DEF LoaderInserts, TypeOK
  <2>3. Numbered'
    BY <1>0, <1>2 DEF LoaderInserts, Numbered
  <2>4. QED
    BY <2>2, <2>3
<1>3. ASSUME NEW w \in Writer, Start(w)
      PROVE  TypeOK' /\ Numbered'
  <2>1. attempts' \in 0..MaxAttempts /\ attempts + 1 > 0
    BY <1>0, <1>3, WriterAssumption DEF Start, TypeOK
  <2>2. attempt' \in [Writer -> 0..MaxAttempts]
    BY <1>0, <1>3, <2>1 DEF Start, TypeOK
  <2>3. pc' \in [Writer -> ProgramPoint]
    BY <1>0, <1>3 DEF Start, At, TypeOK, ProgramPoint
  <2>4. TypeOK'
    BY <1>0, <1>3, <2>1, <2>2, <2>3 DEF Start, TypeOK
  <2>5. Numbered'
    BY <1>0, <1>3, <2>1 DEF Start, At, TypeOK, Numbered, KeptKnown
  <2>6. QED
    BY <2>4, <2>5
<1>4. ASSUME NEW w \in Writer, CountProcessed(w)
      PROVE  TypeOK' /\ Numbered'
  <2>1. pc' \in [Writer -> ProgramPoint]
    BY <1>0, <1>4 DEF CountProcessed, At, TypeOK, ProgramPoint
  <2>2. counted' \in [Writer -> [Table -> 0..MaxRows]]
    BY <1>0, <1>4 DEF CountProcessed, TypeOK, Table
  <2>3. TypeOK'
    BY <1>0, <1>4, <2>1, <2>2 DEF CountProcessed, TypeOK
  <2>4. Numbered'
    BY <1>0, <1>4 DEF CountProcessed, At, TypeOK, Numbered, KeptKnown
  <2>5. QED
    BY <2>3, <2>4
<1>5. ASSUME NEW w \in Writer, CountInvalid(w)
      PROVE  TypeOK' /\ Numbered'
  <2>1. pc' \in [Writer -> ProgramPoint]
    BY <1>0, <1>5 DEF CountInvalid, At, TypeOK, ProgramPoint
  <2>2. counted' \in [Writer -> [Table -> 0..MaxRows]]
    BY <1>0, <1>5 DEF CountInvalid, TypeOK, Table
  <2>3. failing' \in [Attempt -> SUBSET Check]
    BY <1>0, <1>5, FailedChecksType DEF CountInvalid, TypeOK
  <2>4. TypeOK'
    BY <1>0, <1>5, <2>1, <2>2, <2>3 DEF CountInvalid, TypeOK
  <2>5. Numbered'
    BY <1>0, <1>5 DEF CountInvalid, At, TypeOK, Numbered, KeptKnown
  <2>6. QED
    BY <2>4, <2>5
<1>6. ASSUME NEW w \in Writer, SelectAudit(w) \/ ReplaceChecks(w) \/ ReplaceAlerts(w)
                              \/ MarkAlerts(w)
      PROVE  TypeOK' /\ Numbered'
  <2>1. pc' \in [Writer -> ProgramPoint]
    BY <1>0, <1>6 DEF SelectAudit, ReplaceChecks, ReplaceAlerts, MarkAlerts, At, TypeOK,
                      ProgramPoint
  <2>2. seen' \in [Writer -> SUBSET Nat]
    <3>1. /\ seen \in [Writer -> SUBSET Nat]
          /\ Ids \in SUBSET Nat /\ checks \in SUBSET Nat /\ alerts \in SUBSET Nat
      BY <1>0, IdsType, BatchesType DEF TypeOK
    <3>2. \E S \in {Ids, checks, alerts} : seen' = [seen EXCEPT ![w] = S]
      BY <1>6 DEF SelectAudit, ReplaceChecks, ReplaceAlerts, MarkAlerts, Began
    <3>3. QED
      BY <3>1, <3>2
  <2>3. UNCHANGED <<warehouse, tables, nextId, published, failing, attempts, faults,
                    attempt, counted, kept, held, cleared>>
    BY <1>6 DEF SelectAudit, ReplaceChecks, ReplaceAlerts, MarkAlerts
  <2>4. TypeOK'
    BY <1>0, <2>1, <2>2, <2>3 DEF TypeOK
  <2>5. Numbered'
    BY <1>0, <1>6
    DEF SelectAudit, ReplaceChecks, ReplaceAlerts, MarkAlerts, At, TypeOK, Numbered, KeptKnown
  <2>6. QED
    BY <2>4, <2>5
<1>7. ASSUME NEW w \in Writer, LockRow(w)
      PROVE  TypeOK' /\ Numbered'
  <2>1. held' \in [Writer -> SUBSET (Nat \ {0})]
    BY <1>0, <1>7, NextRowsIn, IdsType DEF LockRow, TypeOK
  <2>2. TypeOK'
    BY <1>0, <1>7, <2>1 DEF LockRow, TypeOK
  <2>3. Numbered'
    BY <1>0, <1>7 DEF LockRow, Numbered
  <2>4. QED
    BY <2>2, <2>3
<1>8. ASSUME NEW w \in Writer, LockAudit(w)
      PROVE  TypeOK' /\ Numbered'
  <2>1. nextId' \in Nat \ {0} /\ kept' \in [Writer -> Nat] /\ kept'[w] > 0
    <3>1. held[w] \in SUBSET (Nat \ {0}) /\ nextId \in Nat \ {0}
      BY <1>0 DEF TypeOK
    <3>2. held[w] # {} => Least(held[w]) \in held[w]
      BY <3>1, LeastIn
    <3>3. kept \in [Writer -> Nat]
      BY <1>0 DEF TypeOK
    <3>4. CASE held[w] = {}
      BY <1>8, <3>1, <3>3, <3>4 DEF LockAudit
    <3>5. CASE held[w] # {}
      BY <1>8, <3>1, <3>2, <3>3, <3>5 DEF LockAudit
    <3>6. QED
      BY <3>4, <3>5
  <2>2. pc' \in [Writer -> ProgramPoint]
    BY <1>0, <1>8 DEF LockAudit, At, TypeOK, ProgramPoint
  <2>3. seen' \in [Writer -> SUBSET Nat]
    BY <1>0, <1>8, IdsType DEF LockAudit, Began, TypeOK
  <2>4. UNCHANGED <<warehouse, tables, published, failing, attempts, faults, attempt,
                    counted, held, cleared>>
    BY <1>8 DEF LockAudit
  <2>5. TypeOK'
    BY <1>0, <2>1, <2>2, <2>3, <2>4 DEF TypeOK
  <2>6. pc[w] = "lock_audit" /\ \A v \in Writer \ {w} : pc'[v] = pc[v] /\ kept'[v] = kept[v]
    BY <1>0, <1>8 DEF LockAudit, At, TypeOK
  <2>7. Numbered'
    BY <1>0, <2>1, <2>4, <2>6 DEF Numbered
  <2>8. QED
    BY <2>5, <2>7
<1>9. ASSUME NEW w \in Writer, DeleteAudit(w) \/ AlertsPublished(w)
      PROVE  TypeOK' /\ Numbered'
  <2>1. pc' \in [Writer -> ProgramPoint]
    BY <1>0, <1>9 DEF DeleteAudit, AlertsPublished, At, TypeOK, ProgramPoint
  <2>2. TypeOK'
    BY <1>0, <1>9, <2>1 DEF DeleteAudit, AlertsPublished, TypeOK
  <2>3. Numbered'
    BY <1>0, <1>9 DEF DeleteAudit, AlertsPublished, At, TypeOK, Numbered, KeptKnown
  <2>4. QED
    BY <2>2, <2>3
<1>10. ASSUME NEW w \in Writer, ChecksReplaced(w) \/ AlertsReplaced(w)
       PROVE  TypeOK' /\ Numbered'
  <2>1. pc' \in [Writer -> ProgramPoint]
    BY <1>0, <1>10 DEF ChecksReplaced, AlertsReplaced, At, TypeOK, ProgramPoint
  <2>2. cleared' \in [Writer -> [checks : SUBSET Attempt, alerts : SUBSET Attempt]]
    <3>1. /\ cleared \in [Writer -> [checks : SUBSET Attempt, alerts : SUBSET Attempt]]
          /\ seen[w] \cap checks \in SUBSET Attempt
          /\ seen[w] \cap alerts \in SUBSET Attempt
      BY <1>0 DEF TypeOK
    <3>2. CASE ChecksReplaced(w)
      BY <3>1, <3>2 DEF ChecksReplaced
    <3>3. CASE AlertsReplaced(w)
      BY <3>1, <3>3 DEF AlertsReplaced
    <3>4. QED
      BY <1>10, <3>2, <3>3
  <2>3. UNCHANGED <<warehouse, tables, nextId, published, failing, attempts, faults,
                    attempt, counted, seen, kept, held>>
    BY <1>10 DEF ChecksReplaced, AlertsReplaced
  <2>4. TypeOK'
    BY <1>0, <2>1, <2>2, <2>3 DEF TypeOK
  <2>5. Numbered'
    BY <1>0, <1>10 DEF ChecksReplaced, AlertsReplaced, At, TypeOK, Numbered, KeptKnown
  <2>6. QED
    BY <2>4, <2>5
<1>11. ASSUME NEW w \in Writer, Commit(w)
       PROVE  TypeOK' /\ Numbered'
  <2>0. pc[w] = "commit"
    BY <1>11 DEF Commit, At
  <2>1. attempt[w] \in Attempt /\ kept[w] \in Nat \ {0}
    <3>1. attempt[w] \in Attempt
      BY <2>0, AttemptType
    <3>2. kept[w] \in Nat
      BY <1>0 DEF TypeOK
    <3>3. kept[w] > 0
      BY <1>0, <2>0 DEF Numbered, KeptKnown
    <3>4. QED
      BY <3>1, <3>2, <3>3
  <2>2. pc' \in [Writer -> ProgramPoint]
    BY <1>0, <1>11 DEF Commit, At, TypeOK, ProgramPoint
  <2>3. audit' \subseteq [id : Nat \ {0}, by : Attempt]
    BY <1>0, <1>11, <2>1 DEF Commit, TypeOK
  <2>4. checks' \subseteq Attempt /\ alerts' \subseteq Attempt /\ flagged' \subseteq alerts'
    BY <1>0, <1>11, <2>1 DEF Commit, StillFlagged, TypeOK
  <2>5. /\ held' \in [Writer -> SUBSET (Nat \ {0})]
        /\ cleared' \in [Writer -> [checks : SUBSET Attempt, alerts : SUBSET Attempt]]
        /\ kept' \in [Writer -> Nat]
        /\ seen' \in [Writer -> SUBSET Nat]
    BY <1>0, <1>11, ReleaseType DEF Commit
  <2>6. UNCHANGED <<warehouse, nextId, published, failing, attempts, faults, attempt, counted>>
    BY <1>11 DEF Commit
  <2>7. TypeOK'
    BY <1>0, <2>2, <2>3, <2>4, <2>5, <2>6 DEF TypeOK
  <2>8. Numbered'
    BY <1>0, <1>11 DEF Commit, At, Release, TypeOK, Numbered, KeptKnown
  <2>9. QED
    BY <2>7, <2>8
<1>12. ASSUME NEW w \in Writer, NEW c \in Check, DeliverAlert(w, c)
       PROVE  TypeOK' /\ Numbered'
  <2>1. attempt[w] \in Attempt
    BY <1>12, AttemptType DEF DeliverAlert
  <2>2. published' \in [Attempt -> SUBSET Check]
    BY <1>0, <1>12, <2>1 DEF DeliverAlert, TypeOK
  <2>3. TypeOK'
    BY <1>0, <1>12, <2>2 DEF DeliverAlert, TypeOK
  <2>4. Numbered'
    BY <1>0, <1>12 DEF DeliverAlert, Numbered
  <2>5. QED
    BY <2>3, <2>4
<1>13. ASSUME NEW w \in Writer, AlertsMarked(w)
       PROVE  TypeOK' /\ Numbered'
  <2>1. pc' \in [Writer -> ProgramPoint]
    BY <1>0, <1>13 DEF AlertsMarked, At, TypeOK, ProgramPoint
  <2>2. /\ held' \in [Writer -> SUBSET (Nat \ {0})]
        /\ cleared' \in [Writer -> [checks : SUBSET Attempt, alerts : SUBSET Attempt]]
        /\ kept' \in [Writer -> Nat]
        /\ seen' \in [Writer -> SUBSET Nat]
    BY <1>0, <1>13, ReleaseType DEF AlertsMarked
  <2>3. TypeOK'
    BY <1>0, <1>13, <2>1, <2>2 DEF AlertsMarked, TypeOK
  <2>4. Numbered'
    BY <1>0, <1>13 DEF AlertsMarked, At, Release, TypeOK, Numbered, KeptKnown
  <2>5. QED
    BY <2>3, <2>4
<1>14. ASSUME NEW w \in Writer, DeadlockVictim(w) \/ Fail(w)
       PROVE  TypeOK' /\ Numbered'
  <2>1. pc' \in [Writer -> ProgramPoint]
    BY <1>0, <1>14 DEF DeadlockVictim, Fail, TypeOK, ProgramPoint
  <2>2. /\ held' \in [Writer -> SUBSET (Nat \ {0})]
        /\ cleared' \in [Writer -> [checks : SUBSET Attempt, alerts : SUBSET Attempt]]
        /\ kept' \in [Writer -> Nat]
        /\ seen' \in [Writer -> SUBSET Nat]
    BY <1>0, <1>14, ReleaseType DEF DeadlockVictim, Fail
  <2>3. faults' \in 0..MaxFaults
    BY <1>0, <1>14, WriterAssumption DEF DeadlockVictim, Fail, TypeOK
  <2>4. UNCHANGED <<warehouse, tables, nextId, published, failing, attempts, attempt, counted>>
    BY <1>14 DEF DeadlockVictim, Fail
  <2>5. TypeOK'
    BY <1>0, <2>1, <2>2, <2>3, <2>4 DEF TypeOK
  <2>6. Numbered'
    BY <1>0, <1>14 DEF DeadlockVictim, Fail, Release, TypeOK, Numbered, KeptKnown
  <2>7. QED
    BY <2>5, <2>6
<1>15. QED
  BY <1>1, <1>2, <1>3, <1>4, <1>5, <1>6, <1>7, <1>8, <1>9, <1>10, <1>11, <1>12, <1>13,
     <1>14
  DEF Next, Step

\* Every variable keeps its type, for every number of writers and attempts.
THEOREM TypeInvariant == Spec => []TypeOK
<1>1. Spec => []TypeInv
  BY TypeInit, TypeStep, PTL DEF Spec
<1>2. TypeInv => TypeOK
  BY DEF TypeInv
<1>3. QED
  BY <1>1, <1>2, PTL

-----------------------------------------------------------------------------
(***************************************************************************)
(* The writer's steps, as far as the invariant is concerned.               *)
(***************************************************************************)

\* What the invariant says of the other writers is left alone by w.
Alone(w) ==
    \A v \in Writer \ {w} :
        /\ pc'[v] = pc[v] /\ attempt'[v] = attempt[v] /\ seen'[v] = seen[v]
        /\ kept'[v] = kept[v] /\ held'[v] = held[v] /\ cleared'[v] = cleared[v]

\* The steps that take no lock and change no table.
Quiet(w) ==
    \/ CountProcessed(w) \/ CountInvalid(w) \/ SelectAudit(w) \/ DeleteAudit(w)
    \/ ReplaceChecks(w) \/ ChecksReplaced(w) \/ ReplaceAlerts(w) \/ AlertsReplaced(w)
    \/ AlertsPublished(w) \/ MarkAlerts(w)

\* The steps that end w's work without changing the three tables.
Ends(w) == AlertsMarked(w) \/ DeadlockVictim(w) \/ Fail(w)

LEMMA AloneStep ==
    ASSUME TypeOK, NEW w \in Writer, Start(w) \/ Step(w) \/ Fail(w)
    PROVE  Alone(w)
<1> USE DEF tables, locals
<1>1. ASSUME Quiet(w)
      PROVE  Alone(w)
  BY <1>1 DEF Quiet, Alone, TypeOK, At, Began, CountProcessed, CountInvalid, SelectAudit,
     DeleteAudit, ReplaceChecks, ChecksReplaced, ReplaceAlerts, AlertsReplaced,
     AlertsPublished, MarkAlerts
<1>2. ASSUME Ends(w)
      PROVE  Alone(w)
  BY <1>2 DEF Ends, Alone, TypeOK, At, Release, AlertsMarked, DeadlockVictim, Fail
<1>3. ASSUME Start(w)
      PROVE  Alone(w)
  BY <1>3 DEF Alone, TypeOK, At, Start
<1>4. ASSUME LockRow(w)
      PROVE  Alone(w)
  BY <1>4 DEF Alone, TypeOK, LockRow
<1>5. ASSUME LockAudit(w)
      PROVE  Alone(w)
  BY <1>5 DEF Alone, TypeOK, At, Began, LockAudit
<1>6. ASSUME Commit(w)
      PROVE  Alone(w)
  BY <1>6 DEF Alone, TypeOK, At, Release, Commit
<1>7. ASSUME NEW c \in Check, DeliverAlert(w, c)
      PROVE  Alone(w)
  BY <1>7 DEF Alone, DeliverAlert
<1>8. QED
  BY <1>1, <1>2, <1>3, <1>4, <1>5, <1>6, <1>7 DEF Step, Quiet, Ends

\* The rest of the state, and w's own, in its quiet steps.
LEMMA QuietStep ==
    ASSUME TypeOK, NEW w \in Writer, Quiet(w)
    PROVE  /\ UNCHANGED <<audit, checks, alerts, nextId, attempts, attempt, kept, held>>
           /\ pc[w] # "idle" /\ pc'[w] # "idle" /\ pc[w] # "lock_audit"
           /\ pc'[w] \in InTransaction => pc[w] \in InTransaction
           /\ pc'[w] \in KeptKnown <=> pc[w] \in KeptKnown
BY DEF Quiet, TypeOK, At, CountProcessed, CountInvalid, SelectAudit, DeleteAudit,
   ReplaceChecks, ChecksReplaced, ReplaceAlerts, AlertsReplaced, AlertsPublished,
   MarkAlerts, tables, locals, InTransaction, KeptKnown

\* The DELETEs of the checks and of the alerts.
LEMMA DeleteStep ==
    ASSUME TypeOK, NEW w \in Writer, Quiet(w)
    PROVE  /\ pc'[w] = "await_checks" => seen'[w] = checks
           /\ pc'[w] \in ChecksCleared =>
                  \/ pc[w] \in ChecksCleared /\ cleared'[w].checks = cleared[w].checks
                  \/ pc[w] = "await_checks" /\ cleared'[w].checks = seen[w] \cap checks
           /\ pc'[w] = "await_alerts" => seen'[w] = alerts
           /\ pc'[w] = "commit" =>
                  pc[w] = "await_alerts" /\ cleared'[w].alerts = seen[w] \cap alerts
<1> USE DEF At, Began, ChecksCleared, tables, locals
<1>1. /\ pc \in [Writer -> ProgramPoint] /\ seen \in [Writer -> SUBSET Nat]
      /\ cleared \in [Writer -> [checks : SUBSET Attempt, alerts : SUBSET Attempt]]
  BY DEF TypeOK
<1>2. CASE ReplaceChecks(w)
  BY <1>1, <1>2 DEF ReplaceChecks
<1>3. CASE ChecksReplaced(w)
  BY <1>1, <1>3 DEF ChecksReplaced
<1>4. CASE ReplaceAlerts(w)
  BY <1>1, <1>4 DEF ReplaceAlerts
<1>5. CASE AlertsReplaced(w)
  BY <1>1, <1>5 DEF AlertsReplaced
<1>6. CASE \/ CountProcessed(w) \/ CountInvalid(w) \/ SelectAudit(w) \/ DeleteAudit(w)
           \/ AlertsPublished(w) \/ MarkAlerts(w)
  BY <1>1, <1>6 DEF CountProcessed, CountInvalid, SelectAudit, DeleteAudit, AlertsPublished,
     MarkAlerts
<1>7. QED
  BY <1>2, <1>3, <1>4, <1>5, <1>6 DEF Quiet

LEMMA EndStep ==
    ASSUME TypeOK, NEW w \in Writer, Ends(w)
    PROVE  /\ UNCHANGED <<audit, checks, alerts, nextId, attempts, attempt>>
           /\ held'[w] = {} /\ pc'[w] = "idle" /\ pc[w] # "idle"
<1>1. pc[w] # "idle"
  <2>1. ASSUME DeadlockVictim(w)
        PROVE  pc[w] # "idle"
    BY <2>1 DEF DeadlockVictim, Deadlocked, WaitsFor
  <2>2. QED
    BY <2>1 DEF Ends, AlertsMarked, At, Fail
<1>2. QED
  BY <1>1 DEF Ends, TypeOK, At, Release, AlertsMarked, DeadlockVictim, Fail, tables

LEMMA StartStep ==
    ASSUME TypeOK, NEW w \in Writer, Start(w)
    PROVE  /\ UNCHANGED <<audit, checks, alerts, nextId, kept, held, seen, cleared>>
           /\ pc[w] = "idle" /\ pc'[w] = "count_processed"
           /\ attempts' = attempts + 1 /\ attempt'[w] = attempts + 1
BY DEF Start, At, TypeOK, tables, locals

LEMMA LockRowStep ==
    ASSUME TypeOK, NEW w \in Writer, LockRow(w)
    PROVE  /\ UNCHANGED <<audit, checks, alerts, nextId, attempts, pc, attempt, seen,
                          kept, cleared>>
           /\ pc[w] \in {"lock_audit", "delete_audit"}
           /\ \E i \in Ids : /\ held'[w] = held[w] \cup {i}
                             /\ \A v \in Writer \ {w} : i \notin held[v]
BY NextRowsIn DEF LockRow, Unblocked, AuditLocks, TypeOK, tables, locals

LEMMA LockAuditStep ==
    ASSUME TypeOK, NEW w \in Writer, LockAudit(w)
    PROVE  /\ UNCHANGED <<audit, checks, alerts, attempts, attempt, held, cleared>>
           /\ pc[w] = "lock_audit" /\ pc'[w] \in {"delete_audit", "replace_checks"}
           /\ \/ kept'[w] = nextId /\ nextId' = nextId + 1
              \/ kept'[w] \in held[w] /\ nextId' = nextId
<1>1. held[w] \in SUBSET Nat /\ kept \in [Writer -> Nat] /\ pc \in [Writer -> ProgramPoint]
  BY DEF TypeOK
<1>2. held[w] # {} => Least(held[w]) \in held[w]
  BY <1>1, LeastIn
<1>3. QED
  BY <1>1, <1>2 DEF LockAudit, At, tables, locals

LEMMA CommitStep ==
    ASSUME TypeOK, NEW w \in Writer, Commit(w)
    PROVE  /\ UNCHANGED <<nextId, attempts, attempt, failing>>
           /\ pc[w] = "commit" /\ pc'[w] \in {"publish", "idle"} /\ held'[w] = {}
           /\ audit' = {row \in audit : row.id \notin held[w]}
                           \cup {[id |-> kept[w], by |-> attempt[w]]}
           /\ checks' = (checks \ cleared[w].checks) \cup {attempt[w]}
           /\ alerts' = (alerts \ cleared[w].alerts)
                            \cup (IF failing[attempt[w]] # {} THEN {attempt[w]} ELSE {})
BY DEF Commit, At, Release, TypeOK

\* Every step is one of these.
LEMMA StepCases ==
    ASSUME [Next]_vars
    PROVE  \/ UNCHANGED <<audit, checks, alerts, nextId, failing, attempts, pc, attempt,
                          seen, kept, held, cleared>>
           \/ \E w \in Writer : \/ Quiet(w) \/ Ends(w) \/ Start(w)
                                \/ LockRow(w) \/ LockAudit(w) \/ Commit(w)
<1> USE DEF tables, locals
<1>1. ASSUME NEW t \in Table, LoaderInserts(t)
      PROVE  UNCHANGED <<audit, checks, alerts, nextId, failing, attempts, pc, attempt,
                         seen, kept, held, cleared>>
  BY <1>1 DEF LoaderInserts
<1>2. ASSUME NEW w \in Writer, NEW c \in Check, DeliverAlert(w, c)
      PROVE  UNCHANGED <<audit, checks, alerts, nextId, failing, attempts, pc, attempt,
                         seen, kept, held, cleared>>
  BY <1>2 DEF DeliverAlert
<1>3. CASE UNCHANGED vars
  BY <1>3 DEF vars
<1>4. QED
  BY <1>1, <1>2, <1>3 DEF Next, Step, Quiet, Ends

-----------------------------------------------------------------------------
(***************************************************************************)
(* The tables tell of one attempt.                                         *)
(***************************************************************************)

LEMMA FreshStep ==
    ASSUME WriterInv, [Next]_vars
    PROVE  AttemptsFresh'
<1>1. TypeOK /\ AttemptsFresh
  BY DEF WriterInv, TypeInv
<1>2. /\ attempts \in Nat /\ \A w \in Writer : attempt[w] \in Nat
      /\ \A row \in audit : row.by \in Nat
      /\ \A a \in checks \cup alerts : a \in Nat
  BY <1>1, WriterAssumption DEF TypeOK, Attempt
<1>3. CASE UNCHANGED <<audit, checks, alerts, attempts, pc, attempt>>
  BY <1>1, <1>3 DEF AttemptsFresh
<1>4. ASSUME NEW w \in Writer, Start(w)
      PROVE  AttemptsFresh'
  BY <1>1, <1>2, <1>4, StartStep, AloneStep DEF AttemptsFresh, Alone
<1>5. ASSUME NEW w \in Writer, Commit(w)
      PROVE  AttemptsFresh'
  <2>1. Alone(w)
    BY <1>1, <1>5, AloneStep DEF Step
  <2>2. /\ pc[w] = "commit" /\ pc[w] \in InTransaction /\ pc'[w] \notin InTransaction
        /\ UNCHANGED <<attempts, attempt>>
    BY <1>1, <1>5, CommitStep DEF InTransaction
  <2>3. \A row \in audit' : row \in audit \/ row.by = attempt[w]
    BY <1>1, <1>5, CommitStep
  <2>4. \A a \in checks' \cup alerts' : a \in checks \cup alerts \/ a = attempt[w]
    BY <1>1, <1>5, CommitStep
  <2>5. \A v \in Writer \ {w} : pc'[v] = pc[v] /\ (pc[v] \in InTransaction => pc[v] # "idle")
    BY <2>1 DEF Alone, InTransaction
  <2>6. QED
    BY <1>1, <2>2, <2>3, <2>4, <2>5 DEF AttemptsFresh
<1>6. ASSUME NEW w \in Writer, Quiet(w) \/ Ends(w) \/ LockRow(w) \/ LockAudit(w)
      PROVE  AttemptsFresh'
  <2>1. Alone(w)
    BY <1>1, <1>6, AloneStep DEF Step, Quiet, Ends
  <2>2. /\ UNCHANGED <<audit, checks, alerts, attempts, attempt>>
        /\ pc'[w] # "idle" => pc[w] # "idle"
        /\ pc'[w] \in InTransaction => pc[w] \in InTransaction
    BY <1>1, <1>6, QuietStep, EndStep, LockRowStep, LockAuditStep DEF InTransaction
  <2>3. QED
    BY <1>1, <2>1, <2>2 DEF AttemptsFresh, Alone
<1>7. QED
  BY <1>3, <1>4, <1>5, <1>6, StepCases

LEMMA LocksStep ==
    ASSUME WriterInv, [Next]_vars
    PROVE  LocksHeld'
<1>1. TypeOK /\ LocksHeld
  BY DEF WriterInv, TypeInv
<1>2. CASE UNCHANGED <<audit, pc, held>>
  BY <1>1, <1>2 DEF LocksHeld, Ids
<1>3. ASSUME NEW w \in Writer, Quiet(w) \/ Ends(w) \/ Start(w) \/ LockAudit(w)
      PROVE  LocksHeld'
  <2>1. Alone(w)
    BY <1>1, <1>3, AloneStep DEF Step, Quiet, Ends
  <2>2. audit' = audit /\ Ids' = Ids
    BY <1>1, <1>3, QuietStep, EndStep, StartStep, LockAuditStep DEF Ids
  <2>3. held'[w] = {} \/ held'[w] = held[w]
    BY <1>1, <1>3, QuietStep, EndStep, StartStep, LockAuditStep
  <2>4. held'[w] # {} => pc'[w] \in {"lock_audit"} \cup KeptKnown
    BY <1>1, <1>3, QuietStep, EndStep, StartStep, LockAuditStep DEF LocksHeld, KeptKnown
  <2>5. QED
    BY <1>1, <2>1, <2>2, <2>3, <2>4 DEF LocksHeld, Alone
<1>4. ASSUME NEW w \in Writer, LockRow(w)
      PROVE  LocksHeld'
  <2>1. Alone(w)
    BY <1>1, <1>4, AloneStep DEF Step
  <2>2. audit' = audit /\ pc' = pc /\ Ids' = Ids /\ pc[w] \in {"lock_audit"} \cup KeptKnown
    BY <1>1, <1>4, LockRowStep DEF Ids, KeptKnown
  <2>3. PICK i \in Ids : /\ held'[w] = held[w] \cup {i}
                         /\ \A v \in Writer \ {w} : i \notin held[v]
    BY <1>1, <1>4, LockRowStep
  <2>4. QED
    BY <1>1, <2>1, <2>2, <2>3 DEF LocksHeld, Alone
<1>5. ASSUME NEW w \in Writer, Commit(w)
      PROVE  LocksHeld'
  <2>1. Alone(w) /\ held'[w] = {}
    BY <1>1, <1>5, AloneStep, CommitStep DEF Step
  <2>2. \A i \in Ids : i \notin held[w] => i \in Ids'
    BY <1>1, <1>5, CommitStep DEF Ids
  <2>3. QED
    BY <1>1, <2>1, <2>2 DEF LocksHeld, Alone
<1>6. QED
  BY <1>2, <1>3, <1>4, <1>5, StepCases

LEMMA KeptStep ==
    ASSUME WriterInv, [Next]_vars
    PROVE  KeptOwned'
<1>1. TypeOK /\ LocksHeld /\ KeptOwned
  BY DEF WriterInv, TypeInv
<1>2. /\ nextId \in Nat /\ \A w \in Writer : kept[w] \in Nat
      /\ \A i \in Ids : i \in Nat
  BY <1>1, IdsType DEF TypeOK
<1>3. CASE UNCHANGED <<audit, nextId, pc, held, kept>>
  BY <1>1, <1>3 DEF KeptOwned, Ids
<1>4. ASSUME NEW w \in Writer, Quiet(w) \/ Ends(w) \/ Start(w) \/ LockRow(w)
      PROVE  KeptOwned'
  <2>1. Alone(w)
    BY <1>1, <1>4, AloneStep DEF Step, Quiet, Ends
  <2>2. audit' = audit /\ Ids' = Ids /\ nextId' = nextId
    BY <1>1, <1>4, QuietStep, EndStep, StartStep, LockRowStep DEF Ids
  <2>3. pc'[w] \in KeptKnown =>
            pc[w] \in KeptKnown /\ kept'[w] = kept[w] /\ held[w] \subseteq held'[w]
    BY <1>1, <1>4, QuietStep, EndStep, StartStep, LockRowStep DEF KeptKnown
  <2>4. QED
    BY <1>1, <2>1, <2>2, <2>3 DEF KeptOwned, Alone
<1>5. ASSUME NEW w \in Writer, LockAudit(w)
      PROVE  KeptOwned'
  <2>1. Alone(w)
    BY <1>1, <1>5, AloneStep DEF Step
  <2>2. audit' = audit /\ Ids' = Ids /\ held' = held /\ nextId' >= nextId
    BY <1>1, <1>2, <1>5, LockAuditStep DEF Ids
  <2>3. /\ kept'[w] \in held[w] \/ kept'[w] = nextId
        /\ kept'[w] < nextId'
    BY <1>1, <1>2, <1>5, LockAuditStep DEF LocksHeld, KeptOwned
  <2>4. \A v \in Writer \ {w} : pc[v] \in KeptKnown => kept'[w] # kept[v]
    BY <1>1, <1>2, <2>3 DEF LocksHeld, KeptOwned
  <2>5. \A i \in Ids : i < nextId'
    BY <1>1, <1>2, <1>5, LockAuditStep DEF KeptOwned
  <2>6. kept'[w] \in held[w] \/ kept'[w] \notin Ids
    BY <1>1, <1>2, <2>3 DEF KeptOwned
  <2>7. \A v \in Writer \ {w} : pc[v] \in KeptKnown => kept[v] < nextId'
    BY <1>1, <1>2, <1>5, LockAuditStep DEF KeptOwned
  <2>8. QED
    BY <1>1, <2>1, <2>2, <2>3, <2>4, <2>5, <2>6, <2>7 DEF KeptOwned, Alone
<1>6. ASSUME NEW w \in Writer, Commit(w)
      PROVE  KeptOwned'
  <2>1. Alone(w) /\ nextId' = nextId /\ pc[w] \in KeptKnown /\ pc'[w] \notin KeptKnown
    BY <1>1, <1>6, AloneStep, CommitStep DEF Step, KeptKnown
  <2>2. \A i \in Ids' : i \in Ids \/ i = kept[w]
    BY <1>1, <1>6, CommitStep DEF Ids
  <2>3. QED
    BY <1>1, <2>1, <2>2 DEF KeptOwned, Alone
<1>7. QED
  BY <1>3, <1>4, <1>5, <1>6, StepCases

\* A batch whose audit row w has locked is one that w's DELETEs have found.
LEMMA LockedFound ==
    ASSUME WriterInv, NEW w \in Writer, pc[w] = "commit",
           NEW row \in audit, row.id \in held[w]
    PROVE  /\ row.by \in checks => row.by \in cleared[w].checks
           /\ row.by \in alerts => row.by \in cleared[w].alerts
BY DEF WriterInv, ChecksFound, AlertsFound, ChecksCleared

LEMMA BatchesStep ==
    ASSUME WriterInv, [Next]_vars
    PROVE  BatchesDescribed'
<1>1. TypeOK /\ BatchesDescribed
  BY DEF WriterInv, TypeInv
<1>2. CASE UNCHANGED <<audit, checks, alerts>>
  BY <1>1, <1>2 DEF BatchesDescribed
<1>3. ASSUME NEW w \in Writer, Commit(w)
      PROVE  BatchesDescribed'
  <2>1. /\ pc[w] = "commit"
        /\ audit' = {row \in audit : row.id \notin held[w]}
                        \cup {[id |-> kept[w], by |-> attempt[w]]}
        /\ checks' = (checks \ cleared[w].checks) \cup {attempt[w]}
        /\ alerts' \subseteq (alerts \ cleared[w].alerts) \cup {attempt[w]}
    BY <1>1, <1>3, CommitStep
  <2>2. \E row \in audit' : row.by = attempt[w]
    <3>1. [id |-> kept[w], by |-> attempt[w]] \in audit'
      BY <2>1, Zenon
    <3>2. [id |-> kept[w], by |-> attempt[w]].by = attempt[w]
      OBVIOUS
    <3>3. QED
      BY <3>1, <3>2
  <2>3. ASSUME NEW a \in checks', a # attempt[w]
        PROVE  \E row \in audit' : row.by = a
    <3>1. a \in checks /\ a \notin cleared[w].checks
      BY <2>1, <2>3
    <3>2. PICK row \in audit : row.by = a
      BY <1>1, <3>1 DEF BatchesDescribed
    <3>3. row.id \notin held[w]
      BY <2>1, <3>1, <3>2, LockedFound
    <3>4. QED
      BY <2>1, <3>2, <3>3
  <2>4. ASSUME NEW a \in alerts', a # attempt[w]
        PROVE  \E row \in audit' : row.by = a
    <3>1. a \in alerts /\ a \notin cleared[w].alerts
      BY <2>1, <2>4
    <3>2. PICK row \in audit : row.by = a
      BY <1>1, <3>1 DEF BatchesDescribed
    <3>3. row.id \notin held[w]
      BY <2>1, <3>1, <3>2, LockedFound
    <3>4. QED
      BY <2>1, <3>2, <3>3
  <2>5. QED
    BY <2>2, <2>3, <2>4 DEF BatchesDescribed
<1>4. ASSUME NEW w \in Writer,
             Quiet(w) \/ Ends(w) \/ Start(w) \/ LockRow(w) \/ LockAudit(w)
      PROVE  UNCHANGED <<audit, checks, alerts>>
  BY <1>1, <1>4, QuietStep, EndStep, StartStep, LockRowStep, LockAuditStep
<1>5. QED
  BY <1>2, <1>3, <1>4, StepCases

\* The rows a COMMIT leaves to the other writers are old ones.
LEMMA OthersRows ==
    ASSUME WriterInv, NEW w \in Writer, Commit(w), NEW v \in Writer \ {w},
           NEW row \in audit', row.id \in held[v]
    PROVE  row \in audit /\ row.by # attempt[w]
<1>1. TypeOK /\ LocksHeld /\ KeptOwned /\ AttemptsFresh
  BY DEF WriterInv, TypeInv
<1>2. /\ pc[w] = "commit"
      /\ row \in audit \/ row.id = kept[w]
  BY <1>1, CommitStep
<1>3. kept[w] \in held[w] \/ kept[w] \notin Ids
  BY <1>1, <1>2 DEF KeptOwned, KeptKnown
<1>4. kept[w] \notin held[v]
  BY <1>1, <1>3 DEF LocksHeld
<1>5. QED
  BY <1>1, <1>2, <1>4 DEF AttemptsFresh, InTransaction

LEMMA FoundStep ==
    ASSUME WriterInv, [Next]_vars
    PROVE  ChecksFound' /\ AlertsFound'
<1>1. TypeOK /\ ChecksFound /\ AlertsFound /\ LocksHeld /\ AttemptsFresh
  BY DEF WriterInv, TypeInv
<1>2. CASE UNCHANGED <<audit, checks, alerts, pc, seen, held, cleared>>
  BY <1>1, <1>2 DEF ChecksFound, AlertsFound
<1>3. ASSUME NEW w \in Writer, Quiet(w)
      PROVE  ChecksFound' /\ AlertsFound'
  <2>1. Alone(w)
    BY <1>1, <1>3, AloneStep DEF Step, Quiet
  <2>2. UNCHANGED <<audit, checks, alerts, held>>
    BY <1>1, <1>3, QuietStep
  <2>3. ASSUME NEW row \in audit, row.id \in held[w], row.by \in checks
        PROVE  /\ pc'[w] = "await_checks" => row.by \in seen'[w]
               /\ pc'[w] \in ChecksCleared => row.by \in cleared'[w].checks
    BY <1>1, <1>3, <2>3, DeleteStep DEF ChecksFound
  <2>4. ASSUME NEW row \in audit, row.id \in held[w], row.by \in alerts
        PROVE  /\ pc'[w] = "await_alerts" => row.by \in seen'[w]
               /\ pc'[w] = "commit" => row.by \in cleared'[w].alerts
    BY <1>1, <1>3, <2>4, DeleteStep DEF AlertsFound
  <2>5. ChecksFound'
    BY <1>1, <2>1, <2>2, <2>3 DEF ChecksFound, Alone
  <2>6. AlertsFound'
    BY <1>1, <2>1, <2>2, <2>4 DEF AlertsFound, Alone
  <2>7. QED
    BY <2>5, <2>6
<1>4. ASSUME NEW w \in Writer, Ends(w) \/ Start(w) \/ LockRow(w) \/ LockAudit(w)
      PROVE  ChecksFound' /\ AlertsFound'
  <2>1. Alone(w)
    BY <1>1, <1>4, AloneStep DEF Step, Ends
  <2>2. UNCHANGED <<audit, checks, alerts>>
    BY <1>1, <1>4, EndStep, StartStep, LockRowStep, LockAuditStep
  <2>3. pc'[w] \notin {"await_checks", "await_alerts"} \cup ChecksCleared
    BY <1>1, <1>4, EndStep, StartStep, LockRowStep, LockAuditStep DEF ChecksCleared
  <2>4. QED
    BY <1>1, <2>1, <2>2, <2>3 DEF ChecksFound, AlertsFound, Alone, ChecksCleared
<1>5. ASSUME NEW w \in Writer, Commit(w)
      PROVE  ChecksFound' /\ AlertsFound'
  <2>1. Alone(w)
    BY <1>1, <1>5, AloneStep DEF Step
  <2>2. /\ held'[w] = {}
        /\ checks' \subseteq checks \cup {attempt[w]}
        /\ alerts' \subseteq alerts \cup {attempt[w]}
    BY <1>1, <1>5, CommitStep
  <2>3. ASSUME NEW v \in Writer, NEW row \in audit', row.id \in held'[v]
        PROVE  /\ row \in audit /\ row.id \in held[v]
               /\ row.by \in checks' => row.by \in checks
               /\ row.by \in alerts' => row.by \in alerts
               /\ UNCHANGED <<pc[v], seen[v], cleared[v]>>
    <3>1. v # w /\ row.id \in held[v] /\ UNCHANGED <<pc[v], seen[v], cleared[v]>>
      BY <2>1, <2>2, <2>3 DEF Alone
    <3>2. QED
      BY <1>5, <2>2, <3>1, OthersRows
  <2>4. QED
    BY <1>1, <2>3 DEF ChecksFound, AlertsFound
<1>6. QED
  BY <1>2, <1>3, <1>4, <1>5, StepCases

\* Only an attempt in its transaction finds out which checks fail.
LEMMA FailingStep ==
    ASSUME TypeOK, NEW w \in Writer, Quiet(w), NEW a \in Attempt
    PROVE  \/ failing'[a] = failing[a]
           \/ a = attempt[w] /\ pc[w] \in InTransaction
BY DEF Quiet, TypeOK, At, CountProcessed, CountInvalid, SelectAudit, DeleteAudit,
   ReplaceChecks, ChecksReplaced, ReplaceAlerts, AlertsReplaced, AlertsPublished,
   MarkAlerts, InTransaction

LEMMA AgreeStep ==
    ASSUME WriterInv, [Next]_vars
    PROVE  TablesAgree'
<1>1. TypeOK /\ TablesAgree /\ BatchesDescribed /\ AttemptsFresh /\ KeptOwned
  BY DEF WriterInv, TypeInv
<1>2. \A row \in audit : row.by \in Attempt
  BY <1>1 DEF TypeOK
<1>3. CASE UNCHANGED <<audit, checks, alerts, failing>>
  BY <1>1, <1>3 DEF TablesAgree
<1>4. ASSUME NEW w \in Writer, Quiet(w)
      PROVE  TablesAgree'
  <2>1. UNCHANGED <<audit, checks, alerts>>
    BY <1>1, <1>4, QuietStep
  <2>2. \A row \in audit : failing'[row.by] = failing[row.by]
    BY <1>1, <1>2, <1>4, FailingStep DEF AttemptsFresh
  <2>3. QED
    BY <1>1, <2>1, <2>2 DEF TablesAgree
<1>5. ASSUME NEW w \in Writer, Ends(w) \/ Start(w) \/ LockRow(w) \/ LockAudit(w)
      PROVE  UNCHANGED <<audit, checks, alerts, failing>>
  BY <1>5 DEF Ends, AlertsMarked, DeadlockVictim, Fail, Start, LockRow, LockAudit, tables
<1>6. ASSUME NEW w \in Writer, Commit(w)
      PROVE  TablesAgree'
  <2> DEFINE new == [id |-> kept[w], by |-> attempt[w]]
  <2>1. /\ pc[w] = "commit" /\ failing' = failing
        /\ audit' = {row \in audit : row.id \notin held[w]} \cup {new}
        /\ checks' = (checks \ cleared[w].checks) \cup {attempt[w]}
        /\ alerts' = (alerts \ cleared[w].alerts)
                         \cup (IF failing[attempt[w]] # {} THEN {attempt[w]} ELSE {})
    BY <1>1, <1>6, CommitStep
  <2> SUFFICES ASSUME NEW row \in audit', audit' = {row}
               PROVE  /\ checks' = {row.by}
                      /\ alerts' = IF failing'[row.by] = {} THEN {} ELSE {row.by}
    BY DEF TablesAgree
  <2>2. row = new /\ row.by = attempt[w]
    <3>1. new \in audit'
      BY <2>1, Zenon
    <3>2. row = new
      BY <3>1
    <3>3. new.by = attempt[w]
      OBVIOUS
    <3>4. QED
      BY <3>2, <3>3
  <2>3. ASSUME NEW r \in audit
        PROVE  r.id \in held[w]
    <3>1. r.by # attempt[w]
      BY <1>1, <2>1 DEF AttemptsFresh, InTransaction
    <3>2. r # new
      BY <3>1
    <3>3. QED
      BY <2>1, <2>2, <3>2
  <2>4. ASSUME NEW a \in checks
        PROVE  a \in cleared[w].checks
    BY <1>1, <2>1, <2>3, LockedFound DEF BatchesDescribed
  <2>5. ASSUME NEW a \in alerts
        PROVE  a \in cleared[w].alerts
    BY <1>1, <2>1, <2>3, LockedFound DEF BatchesDescribed
  <2>6. checks' = {attempt[w]}
    BY <2>1, <2>4
  <2>7. alerts' = IF failing[attempt[w]] # {} THEN {attempt[w]} ELSE {}
    BY <2>1, <2>5
  <2>8. QED
    BY <2>1, <2>2, <2>6, <2>7
<1>7. QED
  BY <1>3, <1>4, <1>5, <1>6, StepCases

LEMMA WriterInit == Init => WriterInv
<1> SUFFICES ASSUME Init
             PROVE  WriterInv
  OBVIOUS
<1>1. TypeInv
  BY TypeInit
<1>2. /\ audit = {} /\ Ids = {} /\ checks = {} /\ alerts = {} /\ attempts = 0
      /\ \A w \in Writer : pc[w] = "idle" /\ attempt[w] = 0 /\ held[w] = {}
  BY DEF Init, Ids
<1>3. AttemptsFresh /\ LocksHeld /\ KeptOwned
  BY <1>2 DEF AttemptsFresh, LocksHeld, KeptOwned, InTransaction, KeptKnown
<1>4. BatchesDescribed /\ ChecksFound /\ AlertsFound /\ TablesAgree
  BY <1>2 DEF BatchesDescribed, ChecksFound, AlertsFound, TablesAgree
<1>5. QED
  BY <1>1, <1>3, <1>4 DEF WriterInv

\* Every step keeps the invariant.
LEMMA WriterStep == WriterInv /\ [Next]_vars => WriterInv'
BY TypeStep, FreshStep, LocksStep, KeptStep, BatchesStep, FoundStep, AgreeStep DEF WriterInv

\* However many writers of one run_id overlap, fail and are retried: while the
\* run has one audit row, its checks and alerts are those of the same attempt.
THEOREM TablesTellOneAttempt == Spec => []TablesAgree
<1>1. Spec => []WriterInv
  BY WriterStep, WriterInit, PTL DEF Spec
<1>2. WriterInv => TablesAgree
  BY DEF WriterInv
<1>3. QED
  BY <1>1, <1>2, PTL

-----------------------------------------------------------------------------
(***************************************************************************)
(* Flags.  An attempt flags alerts only after its own are delivered, and   *)
(* what it delivered is never reconsidered: an attempt decides once which  *)
(* alerts it raises, before it publishes any.                              *)
(***************************************************************************)

\* The program points before the attempt has decided on its alerts, those it
\* reaches only with alerts to publish, and those after it has published them.
Undecided == {"count_processed", "count_invalid"}
Raising   == {"publish", "mark", "await_mark"}
Delivered == {"mark", "await_mark"}

\* Attempt a has raised alerts and delivered them all.
AllDelivered(a) == failing[a] # {} /\ published[a] = failing[a]

FlagInv ==
    /\ \A a \in Attempt : a > attempts => failing[a] = {}
    /\ \A w \in Writer : pc[w] \in Undecided => failing[attempt[w]] = {}
    /\ \A w \in Writer : pc[w] \in Raising => failing[attempt[w]] # {}
    /\ \A w \in Writer : pc[w] \in Delivered => AllDelivered(attempt[w])
    /\ FlaggedAfterDelivery

LEMMA FlagInit == Init => FlagInv
BY DEF Init, FlagInv, FlaggedAfterDelivery, Undecided, Raising, Delivered

\* The attempt that a running writer is in.
LEMMA OwnAttempt ==
    ASSUME WriterInv, NEW w \in Writer, pc[w] # "idle"
    PROVE  /\ attempt[w] \in Attempt /\ attempt[w] <= attempts
           /\ \A v \in Writer \ {w} : attempt[v] # attempt[w]
           /\ attempts \in Nat
<1>1. attempt[w] \in 0..MaxAttempts /\ attempt[w] > 0 /\ attempts \in Nat
  BY DEF WriterInv, TypeInv, TypeOK, Numbered
<1>2. attempt[w] \in Attempt
  BY <1>1, WriterAssumption DEF Attempt
<1> QED
  BY <1>1, <1>2 DEF WriterInv, AttemptsFresh

\* What a step that neither starts an attempt, nor decides on its alerts, nor
\* delivers one of them makes of the flags.
LEMMA FlagSteps ==
    ASSUME TypeOK, NEW w \in Writer, Step(w) \/ Fail(w), ~CountInvalid(w),
           \A c \in Check : ~DeliverAlert(w, c)
    PROVE  /\ UNCHANGED <<failing, published, attempts, attempt>>
           /\ flagged' \subseteq flagged \/ (pc[w] \in Delivered)
           /\ pc'[w] \in Undecided => pc[w] \in Undecided
           /\ pc'[w] \in Raising => pc[w] \in Raising \/ (failing[attempt[w]] # {})
           /\ pc'[w] \in Delivered =>
                  \/ pc[w] \in Delivered
                  \/ pc[w] \in Raising /\ published[attempt[w]] = failing[attempt[w]]
<1> USE DEF tables, locals, At, Undecided, Raising, Delivered
<1>1. pc \in [Writer -> ProgramPoint]
  BY DEF TypeOK
<1>2. CASE CountProcessed(w) \/ SelectAudit(w) \/ LockRow(w) \/ LockAudit(w) \/ DeleteAudit(w)
  BY <1>1, <1>2 DEF CountProcessed, SelectAudit, LockRow, LockAudit, DeleteAudit
<1>3. CASE ReplaceChecks(w) \/ ChecksReplaced(w) \/ ReplaceAlerts(w) \/ AlertsReplaced(w)
  BY <1>1, <1>3 DEF ReplaceChecks, ChecksReplaced, ReplaceAlerts, AlertsReplaced
<1>4. CASE DeadlockVictim(w) \/ Fail(w)
  BY <1>1, <1>4 DEF DeadlockVictim, Fail
<1>5. CASE Commit(w)
  BY <1>1, <1>5 DEF Commit, StillFlagged
<1>6. CASE AlertsPublished(w) \/ MarkAlerts(w)
  BY <1>1, <1>6 DEF AlertsPublished, MarkAlerts, FlushComplete
<1>7. CASE AlertsMarked(w)
  BY <1>1, <1>7 DEF AlertsMarked
<1> QED
  BY <1>2, <1>3, <1>4, <1>5, <1>6, <1>7 DEF Step

LEMMA FlagStep == WriterInv /\ FlagInv /\ [Next]_vars => FlagInv'
<1> SUFFICES ASSUME WriterInv, FlagInv, [Next]_vars
             PROVE  FlagInv'
  OBVIOUS
<1> USE DEF tables, locals
<1>1. TypeOK
  BY DEF WriterInv, TypeInv
<1>2. /\ failing \in [Attempt -> SUBSET Check] /\ published \in [Attempt -> SUBSET Check]
      /\ pc \in [Writer -> ProgramPoint] /\ attempts \in Nat
      /\ attempt \in [Writer -> 0..MaxAttempts]
  BY <1>1 DEF TypeOK
<1>3. CASE UNCHANGED <<failing, published, flagged, attempts, attempt, pc>>
  BY <1>3 DEF FlagInv, AllDelivered, FlaggedAfterDelivery
<1>4. ASSUME NEW w \in Writer, Start(w)
      PROVE  FlagInv'
  <2>1. /\ UNCHANGED <<failing, published, flagged>> /\ attempts' = attempts + 1
        /\ attempt' = [attempt EXCEPT ![w] = attempts + 1] /\ attempts + 1 \in Attempt
        /\ pc' = [pc EXCEPT ![w] = "count_processed"]
    BY <1>2, <1>4, WriterAssumption DEF Start, At, Attempt
  <2>2. failing[attempts + 1] = {}
    BY <1>2, <2>1 DEF FlagInv
  <2>3. \A a \in Attempt : a > attempts' => failing'[a] = {}
    BY <1>2, <2>1 DEF FlagInv, Attempt
  <2>4. \A v \in Writer \ {w} : pc'[v] = pc[v] /\ attempt'[v] = attempt[v]
    BY <1>2, <2>1
  <2>5. pc'[w] = "count_processed" /\ attempt'[w] = attempts + 1
    BY <1>2, <2>1
  <2> QED
    BY <2>1, <2>2, <2>3, <2>4, <2>5 DEF FlagInv, AllDelivered, FlaggedAfterDelivery, Undecided,
       Raising, Delivered
<1>5. ASSUME NEW w \in Writer, CountInvalid(w)
      PROVE  FlagInv'
  <2> DEFINE n == [counted[w] EXCEPT !["invalid"] = warehouse["invalid"]]
  <2>1. /\ UNCHANGED <<published, flagged, attempts, attempt>>
        /\ failing' = [failing EXCEPT ![attempt[w]] = FailedChecks(n)]
        /\ pc[w] = "count_invalid" /\ pc' = [pc EXCEPT ![w] = "select_audit"]
    BY <1>5 DEF CountInvalid, At
  <2> HIDE DEF n
  <2>2. /\ attempt[w] \in Attempt /\ attempt[w] <= attempts
        /\ \A v \in Writer \ {w} : attempt[v] # attempt[w]
    BY <2>1, OwnAttempt
  <2>3. failing[attempt[w]] = {}
    BY <2>1 DEF FlagInv, Undecided
  <2>4. \A a \in Attempt : a # attempt[w] => failing'[a] = failing[a]
    BY <1>2, <2>1
  <2>5. \A v \in Writer \ {w} : pc[v] # "idle" => /\ pc'[v] = pc[v]
                                                  /\ failing'[attempt[v]] = failing[attempt[v]]
    BY <1>2, <2>1, <2>2, <2>4, OwnAttempt
  <2>6. \A v \in Writer : pc'[v] \in Undecided \cup Raising =>
            v # w /\ pc[v] = pc'[v] /\ pc[v] # "idle"
    BY <1>2, <2>1 DEF Undecided, Raising
  <2>7. FlaggedAfterDelivery'
    BY <2>1, <2>3, <2>4 DEF FlagInv, FlaggedAfterDelivery
  <2>8. \A a \in Attempt : a > attempts' => failing'[a] = {}
    <3>1. TAKE a \in Attempt
    <3>2. a > attempts => a # attempt[w]
      BY <1>2, <2>2, WriterAssumption DEF Attempt
    <3> QED
      BY <2>1, <2>4, <3>2 DEF FlagInv
  <2> QED
    BY <2>1, <2>5, <2>6, <2>7, <2>8 DEF FlagInv, AllDelivered, Raising, Delivered
<1>6. ASSUME NEW w \in Writer, NEW c \in Check, DeliverAlert(w, c)
      PROVE  FlagInv'
  <2>1. /\ UNCHANGED <<failing, flagged, attempts, attempt, pc>> /\ pc[w] = "publish"
        /\ published' = [published EXCEPT ![attempt[w]] = @ \cup {c}]
        /\ c \in failing[attempt[w]] /\ c \notin published[attempt[w]]
    BY <1>6 DEF DeliverAlert
  <2>2. attempt[w] \in Attempt /\ \A v \in Writer \ {w} : attempt[v] # attempt[w]
    BY <2>1, OwnAttempt
  <2>3. \A a \in Attempt : AllDelivered(a) => AllDelivered(a)'
    BY <1>2, <2>1 DEF AllDelivered
  <2>4. \A v \in Writer : pc[v] \in Delivered => attempt[v] \in Attempt
    BY OwnAttempt DEF Delivered
  <2> QED
    BY <2>1, <2>3, <2>4 DEF FlagInv, FlaggedAfterDelivery, AllDelivered
<1>7. ASSUME NEW w \in Writer, Step(w) \/ Fail(w), ~CountInvalid(w),
             \A c \in Check : ~DeliverAlert(w, c)
      PROVE  FlagInv'
  <2>1. Alone(w)
    BY <1>1, <1>7, AloneStep
  <2>2. /\ UNCHANGED <<failing, published, attempts, attempt>>
        /\ flagged' \subseteq flagged \/ pc[w] \in Delivered
        /\ pc'[w] \in Undecided => pc[w] \in Undecided
        /\ pc'[w] \in Raising => pc[w] \in Raising \/ failing[attempt[w]] # {}
        /\ pc'[w] \in Delivered =>
               \/ pc[w] \in Delivered
               \/ pc[w] \in Raising /\ published[attempt[w]] = failing[attempt[w]]
    BY <1>1, <1>7, FlagSteps
  <2>3. FlaggedAfterDelivery'
    <3>1. CASE flagged' \subseteq flagged
      BY <2>2, <3>1 DEF FlagInv, FlaggedAfterDelivery
    <3>2. CASE pc[w] \in Delivered
      <4>1. AllDelivered(attempt[w]) /\ attempt[w] \in Attempt
        BY <3>2, OwnAttempt DEF FlagInv, Delivered
      <4> QED
        BY <2>2, <4>1 DEF AllDelivered, FlaggedAfterDelivery
    <3> QED
      BY <2>2, <3>1, <3>2
  <2>4. \A v \in Writer \ {w} : pc'[v] = pc[v]
    BY <2>1 DEF Alone
  <2> QED
    BY <2>2, <2>3, <2>4 DEF FlagInv, AllDelivered
<1> QED
  <2>1. CASE UNCHANGED vars
    BY <1>3, <2>1 DEF vars
  <2>2. ASSUME NEW t \in Table, LoaderInserts(t)
        PROVE  FlagInv'
    BY <1>3, <2>2 DEF LoaderInserts
  <2>3. ASSUME NEW w \in Writer, Start(w) \/ Step(w) \/ Fail(w)
        PROVE  FlagInv'
    BY <2>3, <1>4, <1>5, <1>6, <1>7
  <2> QED
    BY <2>1, <2>2, <2>3 DEF Next

\* However writers overlap, fail and are retried: no alert of the run is
\* flagged as published before some attempt has delivered all of its own.
THEOREM FlagsFollowDelivery == Spec => []FlaggedAfterDelivery
<1>1. Init => WriterInv /\ FlagInv
  BY WriterInit, FlagInit
<1>2. WriterInv /\ FlagInv /\ [Next]_vars => (WriterInv /\ FlagInv)'
  BY WriterStep, FlagStep
<1>3. FlagInv => FlaggedAfterDelivery
  BY DEF FlagInv
<1> QED
  BY <1>1, <1>2, <1>3, PTL DEF Spec

-----------------------------------------------------------------------------
(***************************************************************************)
(* The audit row that stays.  Once the run has one audit row and nobody    *)
(* works on it, whoever comes finds it, locks it and writes it again under *)
(* its id: no second row is ever inserted beside it.                       *)
(***************************************************************************)

\* The run has the one audit row with id i, and whoever knows the row it is
\* going to write has locked that one.
OneRow(i) ==
    /\ \E row \in audit : audit = {row} /\ row.id = i
    /\ \A w \in Writer :
           /\ held[w] \subseteq {i}
           /\ pc[w] = "lock_audit" => seen[w] = {i}
           /\ pc[w] \in KeptKnown => held[w] = {i} /\ kept[w] = i

Kept == \E i \in Nat : OneRow(i)

\* There are finitely many audit rows.
LEMMA AuditFiniteInit == Init => IsFiniteSet(audit)
BY FS_EmptySet DEF Init

LEMMA AuditFiniteStep == TypeOK /\ IsFiniteSet(audit) /\ [Next]_vars => IsFiniteSet(audit)'
<1> SUFFICES ASSUME TypeOK, IsFiniteSet(audit), [Next]_vars
             PROVE  IsFiniteSet(audit')
  OBVIOUS
<1>1. ASSUME NEW w \in Writer, Commit(w)
      PROVE  IsFiniteSet(audit')
  <2> DEFINE rest == {row \in audit : row.id \notin held[w]}
  <2>1. IsFiniteSet(rest)
    BY FS_Subset
  <2>2. audit' = rest \cup {[id |-> kept[w], by |-> attempt[w]]}
    BY <1>1, CommitStep
  <2> HIDE DEF rest
  <2> QED
    BY <2>1, <2>2, FS_AddElement
<1>2. ASSUME NEW w \in Writer, Quiet(w) \/ Ends(w) \/ Start(w) \/ LockRow(w) \/ LockAudit(w)
      PROVE  audit' = audit
  BY <1>2, QuietStep, EndStep, StartStep, LockRowStep, LockAuditStep
<1> QED
  BY <1>1, <1>2, StepCases

\* A run that is settled has the row that stays.
LEMMA SettledKept == WriterInv /\ IsFiniteSet(audit) /\ Settled => Kept
<1> SUFFICES ASSUME WriterInv, IsFiniteSet(audit), Settled
             PROVE  Kept
  OBVIOUS
<1>1. PICK row : audit = {row}
  BY FS_Singleton DEF Settled
<1>2. row.id \in Nat /\ TypeOK /\ Numbered
  BY <1>1 DEF WriterInv, TypeInv, TypeOK
<1>3. \A w \in Writer : held[w] = {} /\ pc[w] # "lock_audit" /\ pc[w] \notin KeptKnown
  BY <1>2 DEF Settled, Numbered
<1>4. OneRow(row.id)
  BY <1>1, <1>3 DEF OneRow
<1> QED
  BY <1>2, <1>4 DEF Kept

\* No step adds a row or takes it away.
LEMMA KeptForever == WriterInv /\ Kept /\ [Next]_vars => Kept'
<1> SUFFICES ASSUME WriterInv, NEW i \in Nat, OneRow(i), [Next]_vars
             PROVE  OneRow(i)'
  BY DEF Kept
<1> USE DEF tables, locals
<1>1. TypeOK /\ Ids = {i}
  BY DEF WriterInv, TypeInv, OneRow, Ids
<1>2. /\ pc \in [Writer -> ProgramPoint] /\ seen \in [Writer -> SUBSET Nat]
      /\ kept \in [Writer -> Nat] /\ held \in [Writer -> SUBSET (Nat \ {0})]
  BY <1>1 DEF TypeOK
<1>3. CASE UNCHANGED <<audit, pc, seen, kept, held>>
  BY <1>3 DEF OneRow
<1>4. ASSUME NEW w \in Writer, Alone(w), audit' = audit,
             held'[w] \subseteq {i},
             pc'[w] = "lock_audit" => seen'[w] = {i},
             pc'[w] \in KeptKnown => held'[w] = {i} /\ kept'[w] = i
      PROVE  OneRow(i)'
  <2>1. /\ held'[w] \subseteq {i}
        /\ pc'[w] = "lock_audit" => seen'[w] = {i}
        /\ pc'[w] \in KeptKnown => held'[w] = {i} /\ kept'[w] = i
    BY <1>4
  <2>2. \A v \in Writer \ {w} :
            /\ held'[v] \subseteq {i}
            /\ pc'[v] = "lock_audit" => seen'[v] = {i}
            /\ pc'[v] \in KeptKnown => held'[v] = {i} /\ kept'[v] = i
    BY <1>4 DEF OneRow, Alone
  <2>3. \E row \in audit' : audit' = {row} /\ row.id = i
    BY <1>4 DEF OneRow
  <2> QED
    BY <2>1, <2>2, <2>3 DEF OneRow
<1>5. ASSUME NEW w \in Writer, Quiet(w)
      PROVE  OneRow(i)'
  <2>1. Alone(w)
    BY <1>1, <1>5, AloneStep DEF Quiet, Step
  <2>2. pc'[w] = "lock_audit" => seen'[w] = {i}
    <3>1. pc'[w] = "lock_audit" => SelectAudit(w)
      BY <1>2, <1>5 DEF Quiet, At, CountProcessed, CountInvalid, DeleteAudit, ReplaceChecks,
         ChecksReplaced, ReplaceAlerts, AlertsReplaced, AlertsPublished, MarkAlerts
    <3>2. SelectAudit(w) => seen'[w] = Ids
      BY <1>2 DEF SelectAudit, Began
    <3> QED
      BY <1>1, <3>1, <3>2
  <2>3. /\ audit' = audit /\ held'[w] = held[w] /\ kept'[w] = kept[w]
        /\ pc'[w] \in KeptKnown => pc[w] \in KeptKnown
    BY <1>1, <1>5, QuietStep
  <2> QED
    BY <1>4, <2>1, <2>2, <2>3 DEF OneRow
<1>6. ASSUME NEW w \in Writer, Ends(w) \/ Start(w)
      PROVE  OneRow(i)'
  <2>1. Alone(w)
    BY <1>1, <1>6, AloneStep DEF Ends, Step
  <2>2. /\ audit' = audit /\ held'[w] \subseteq {i}
        /\ pc'[w] \notin KeptKnown /\ pc'[w] # "lock_audit"
    BY <1>1, <1>6, EndStep, StartStep DEF KeptKnown, OneRow
  <2> QED
    BY <1>4, <2>1, <2>2
<1>7. ASSUME NEW w \in Writer, LockRow(w)
      PROVE  OneRow(i)'
  <2>1. Alone(w)
    BY <1>1, <1>7, AloneStep DEF Step
  <2>2. /\ audit' = audit /\ pc' = pc /\ seen' = seen /\ kept' = kept
        /\ held'[w] = held[w] \cup {i}
    BY <1>1, <1>7, LockRowStep
  <2> QED
    BY <1>4, <2>1, <2>2 DEF OneRow
<1>8. ASSUME NEW w \in Writer, LockAudit(w)
      PROVE  OneRow(i)'
  <2>1. Alone(w)
    BY <1>1, <1>8, AloneStep DEF Step
  <2>2. /\ audit' = audit /\ held' = held /\ pc[w] = "lock_audit"
        /\ pc'[w] # "lock_audit"
    BY <1>1, <1>8, LockAuditStep
  <2>3. held[w] = {i}
    <3>1. Pending(w) = {} /\ seen[w] = {i} /\ held[w] \subseteq {i}
      BY <1>8, <2>2 DEF LockAudit, OneRow
    <3> QED
      BY <1>1, <3>1 DEF Pending, Existing
  <2>4. kept'[w] = i
    <3>1. Least(held[w]) = i
      BY <2>3, LeastIn
    <3>2. kept'[w] = Least(held[w])
      BY <1>2, <1>8, <2>3 DEF LockAudit
    <3> QED
      BY <3>1, <3>2
  <2> QED
    BY <1>4, <2>1, <2>2, <2>3, <2>4
<1>9. ASSUME NEW w \in Writer, Commit(w)
      PROVE  OneRow(i)'
  <2>1. Alone(w)
    BY <1>1, <1>9, AloneStep DEF Step
  <2>2. /\ pc[w] = "commit" /\ pc'[w] \in {"publish", "idle"} /\ held'[w] = {}
        /\ audit' = {row \in audit : row.id \notin held[w]}
                        \cup {[id |-> kept[w], by |-> attempt[w]]}
    BY <1>1, <1>9, CommitStep
  <2>3. held[w] = {i} /\ kept[w] = i
    BY <2>2 DEF OneRow, KeptKnown
  <2>4. \A row \in audit : row.id = i
    BY DEF OneRow
  <2>5. audit' = {[id |-> i, by |-> attempt[w]]}
    BY <2>2, <2>3, <2>4
  <2>6. \A v \in Writer \ {w} :
            /\ held'[v] \subseteq {i}
            /\ pc'[v] = "lock_audit" => seen'[v] = {i}
            /\ pc'[v] \in KeptKnown => held'[v] = {i} /\ kept'[v] = i
    BY <2>1 DEF OneRow, Alone
  <2>7. \E row \in audit' : audit' = {row} /\ row.id = i
    BY <2>5
  <2> QED
    BY <2>2, <2>6, <2>7 DEF OneRow, KeptKnown
<1> QED
  BY <1>3, <1>5, <1>6, <1>7, <1>8, <1>9, StepCases

\* Once the run has one audit row and no writer is between its SELECT and its
\* COMMIT, it keeps exactly one forever, however many rewrites overlap, fail
\* and are retried.
THEOREM SettledRunKeepsRow == Spec => AuditRowKept
<1> DEFINE I == WriterInv /\ IsFiniteSet(audit)
<1>1. Init => I
  BY WriterInit, AuditFiniteInit
<1>2. I /\ [Next]_vars => I'
  <2>1. WriterInv => TypeOK
    BY DEF WriterInv, TypeInv
  <2> QED
    BY <2>1, WriterStep, AuditFiniteStep
<1>3. I /\ Settled => Kept
  BY SettledKept
<1>4. I /\ Kept /\ [Next]_vars => Kept'
  BY KeptForever
<1>5. Kept => Cardinality(audit) = 1
  BY FS_Singleton DEF Kept, OneRow
<1> HIDE DEF I
<1> QED
  BY <1>1, <1>2, <1>3, <1>4, <1>5, PTL DEF Spec, AuditRowKept

-----------------------------------------------------------------------------
(***************************************************************************)
(* No standstill.  A writer that waits for checks or alerts waits for one  *)
(* that is further on, and the last of these waits for nobody.  So if all  *)
(* wait, all wait for audit rows, each for a row that another one of them  *)
(* has locked: a deadlock, which PostgreSQL ends.                          *)
(***************************************************************************)

\* Where a writer may be that has locked checks, or alerts; and Kafka has only
\* alerts that their attempt has raised.
WaitInv ==
    /\ \A w \in Writer : cleared[w].checks # {} => pc[w] \in ChecksCleared
    /\ \A w \in Writer : cleared[w].alerts # {} => pc[w] = "commit"
    /\ \A a \in Attempt : published[a] \subseteq failing[a]

LEMMA WaitInit == Init => WaitInv
BY DEF Init, WaitInv, Unlocked

\* What a step makes of the locks of its writer.
LEMMA ClearedStep ==
    ASSUME TypeOK, WaitInv, NEW w \in Writer, Start(w) \/ Step(w) \/ Fail(w)
    PROVE  /\ cleared'[w].checks # {} => pc'[w] \in ChecksCleared
           /\ cleared'[w].alerts # {} => pc'[w] = "commit"
<1> USE DEF tables, locals, At, ChecksCleared
<1>1. /\ pc \in [Writer -> ProgramPoint]
      /\ cleared \in [Writer -> [checks : SUBSET Attempt, alerts : SUBSET Attempt]]
      /\ cleared[w].checks # {} => pc[w] \in ChecksCleared
      /\ cleared[w].alerts # {} => pc[w] = "commit"
  BY DEF TypeOK, WaitInv
<1>2. CASE Start(w) \/ CountProcessed(w) \/ CountInvalid(w) \/ SelectAudit(w) \/ LockRow(w)
  BY <1>1, <1>2 DEF Start, CountProcessed, CountInvalid, SelectAudit, LockRow
<1>3. CASE LockAudit(w) \/ DeleteAudit(w) \/ ReplaceChecks(w) \/ ReplaceAlerts(w)
  BY <1>1, <1>3 DEF LockAudit, DeleteAudit, ReplaceChecks, ReplaceAlerts
<1>4. CASE ChecksReplaced(w)
  <2>1. pc[w] = "await_checks" /\ pc'[w] = "replace_alerts"
    BY <1>1, <1>4 DEF ChecksReplaced
  <2>2. cleared'[w].alerts = cleared[w].alerts
    BY <1>1, <1>4 DEF ChecksReplaced
  <2> QED
    BY <1>1, <2>1, <2>2
<1>5. CASE AlertsReplaced(w)
  BY <1>1, <1>5 DEF AlertsReplaced
<1>6. CASE DeadlockVictim(w) \/ Commit(w) \/ AlertsMarked(w) \/ Fail(w)
  <2>1. cleared'[w] = Unlocked
    BY <1>1, <1>6 DEF DeadlockVictim, Commit, AlertsMarked, Fail, Release
  <2> QED
    BY <2>1 DEF Unlocked
<1>7. CASE (\E c \in Check : DeliverAlert(w, c)) \/ AlertsPublished(w) \/ MarkAlerts(w)
  BY <1>1, <1>7 DEF DeliverAlert, AlertsPublished, MarkAlerts
<1> QED
  BY <1>2, <1>3, <1>4, <1>5, <1>6, <1>7 DEF Step

\* What a step makes of the alerts that an attempt has raised and delivered.
LEMMA DeliveredStep ==
    ASSUME WriterInv, FlagInv, WaitInv, NEW w \in Writer, Start(w) \/ Step(w) \/ Fail(w),
           NEW a \in Attempt
    PROVE  published'[a] \subseteq failing'[a]
<1> USE DEF tables, locals, At
<1>1. /\ published \in [Attempt -> SUBSET Check] /\ failing \in [Attempt -> SUBSET Check]
      /\ published[a] \subseteq failing[a] /\ TypeOK
  BY DEF WriterInv, TypeInv, TypeOK, WaitInv
<1>2. CASE Start(w)
  BY <1>1, <1>2 DEF Start
<1>3. CASE CountInvalid(w)
  <2>1. pc[w] \in Undecided /\ failing[attempt[w]] = {} /\ published' = published
    BY <1>3 DEF CountInvalid, FlagInv, Undecided
  <2>2. \A b \in Attempt : b # attempt[w] => failing'[b] = failing[b]
    BY <1>1, <1>3 DEF CountInvalid
  <2> QED
    BY <1>1, <2>1, <2>2
<1>4. ASSUME NEW c \in Check, DeliverAlert(w, c)
      PROVE  published'[a] \subseteq failing'[a]
  BY <1>1, <1>4 DEF DeliverAlert
<1>5. CASE /\ Step(w) \/ Fail(w)
           /\ ~CountInvalid(w)
           /\ \A c \in Check : ~DeliverAlert(w, c)
  BY <1>1, <1>5, FlagSteps
<1> QED
  BY <1>2, <1>3, <1>4, <1>5

LEMMA WaitStep == WriterInv /\ FlagInv /\ WaitInv /\ [Next]_vars => WaitInv'
<1> SUFFICES ASSUME WriterInv, FlagInv, WaitInv, [Next]_vars
             PROVE  WaitInv'
  OBVIOUS
<1>1. CASE UNCHANGED <<pc, cleared, published, failing>>
  BY <1>1 DEF WaitInv
<1>2. ASSUME NEW w \in Writer, Start(w) \/ Step(w) \/ Fail(w)
      PROVE  WaitInv'
  <2>1. TypeOK
    BY DEF WriterInv, TypeInv
  <2>2. \A v \in Writer \ {w} : pc'[v] = pc[v] /\ cleared'[v] = cleared[v]
    BY <1>2, <2>1, AloneStep DEF Alone
  <2>3. /\ cleared'[w].checks # {} => pc'[w] \in ChecksCleared
        /\ cleared'[w].alerts # {} => pc'[w] = "commit"
    BY <1>2, <2>1, ClearedStep
  <2>4. \A a \in Attempt : published'[a] \subseteq failing'[a]
    BY <1>2, DeliveredStep
  <2> QED
    BY <2>2, <2>3, <2>4 DEF WaitInv
<1> QED
  BY <1>1, <1>2 DEF Next, vars, LoaderInserts, tables, locals

\* Who waits for alerts, or for checks, waits for one that is further on.
LEMMA FurtherOn ==
    ASSUME WriterInv, WaitInv, NEW w \in Writer, Waiting(w)
    PROVE  \/ /\ pc[w] \in {"lock_audit", "delete_audit"}
              /\ \E v \in Writer \ {w} : WaitsFor(w, v)
           \/ /\ pc[w] = "await_checks"
              /\ \E v \in Writer : pc[v] \in ChecksCleared
           \/ /\ pc[w] \in {"await_alerts", "await_mark"}
              /\ \E v \in Writer : pc[v] = "commit"
<1>1. CASE pc[w] = "await_checks"
  BY <1>1 DEF Waiting, Unblocked, CheckLocks, WaitInv
<1>2. CASE pc[w] \in {"await_alerts", "await_mark"}
  BY <1>2 DEF Waiting, Unblocked, AlertLocks, WaitInv
<1>3. CASE pc[w] \in {"lock_audit", "delete_audit"}
  <2>1. Pending(w) # {} /\ \A i \in NextRows(w) : ~Unblocked(w, {i}, AuditLocks)
    BY <1>3 DEF Waiting
  <2>2. PICK i : i \in NextRows(w)
    BY <2>1 DEF NextRows
  <2>3. PICK v \in Writer \ {w} : i \in held[v]
    BY <2>1, <2>2 DEF Unblocked, AuditLocks
  <2>4. WaitsFor(w, v)
    BY <1>3, <2>1, <2>2, <2>3 DEF WaitsFor
  <2> QED
    BY <1>3, <2>4
<1> QED
  BY <1>1, <1>2, <1>3 DEF Waiting

\* The guards of Step's actions: what ENABLED Step(w) is when written out.
Able(w) ==
    \/ pc[w] \in {"count_processed", "count_invalid", "select_audit", "replace_checks",
                  "replace_alerts", "commit", "mark"}
    \/ /\ pc[w] \in {"lock_audit", "delete_audit"}
       /\ Pending(w) = {} \/ \E i \in NextRows(w) : Unblocked(w, {i}, AuditLocks)
    \/ pc[w] = "await_checks" /\ Unblocked(w, seen[w] \cap checks, CheckLocks)
    \/ /\ pc[w] \in {"await_alerts", "await_mark"}
       /\ Unblocked(w, seen[w] \cap alerts, AlertLocks)
    \/ /\ pc[w] = "publish"
       /\ FlushComplete(w) \/ \E c \in Check : c \in failing[attempt[w]] \ published[attempt[w]]
    \/ Deadlocked(w)

\* While any writer runs, one of them meets the guard of a step of its own:
\* the writers stop only when all have ended.
SomebodyAble == (\E w \in Writer : pc[w] # "idle") => \E w \in Writer : Able(w)

\* However many writers run, wait and lock rows in opposite orders: while any
\* of them runs, one waits for nobody, or PostgreSQL finds a deadlock to end.
THEOREM SomebodyGoesOn == Spec => []SomebodyReady
<1>1. Init => WriterInv /\ FlagInv /\ WaitInv
  BY WriterInit, FlagInit, WaitInit
<1>2. WriterInv /\ FlagInv /\ WaitInv /\ [Next]_vars => (WriterInv /\ FlagInv /\ WaitInv)'
  BY WriterStep, FlagStep, WaitStep
<1>3. WriterInv /\ WaitInv => SomebodyReady
  <2> DEFINE Running == {w \in Writer : pc[w] # "idle"}
  <2> SUFFICES ASSUME WriterInv, WaitInv, NEW w \in Running,
                      \A v \in Writer : ~Ready(v)
               PROVE  FALSE
    BY DEF SomebodyReady
  <2>1. \A v \in Running : attempt[v] \in Attempt
    BY OwnAttempt
  <2>2. \A v \in Running : Waiting(v) /\ ~Deadlocked(v)
    BY <2>1 DEF Ready, WaitInv
  <2>3. \A v \in Running : pc[v] \in {"lock_audit", "delete_audit", "await_checks",
                                      "await_alerts", "await_mark"}
    BY <2>2 DEF Waiting
  <2>4. \A v \in Running : pc[v] \notin {"await_alerts", "await_mark"}
    <3>1. \A v \in Writer : pc[v] # "commit"
      BY <2>3
    <3> QED
      BY <2>2, <3>1, FurtherOn
  <2>5. \A v \in Running : pc[v] # "await_checks"
    <3>1. \A v \in Writer : pc[v] \notin ChecksCleared
      BY <2>3, <2>4 DEF ChecksCleared
    <3> QED
      BY <2>2, <3>1, FurtherOn
  <2>6. \A v \in Running : \E u \in Running \ {v} : WaitsFor(v, u)
    <3>1. TAKE v \in Running
    <3>2. PICK u \in Writer \ {v} : WaitsFor(v, u)
      BY <2>2, <2>3, <2>4, <2>5, FurtherOn
    <3>3. u \in Running
      BY <3>2 DEF WaitsFor, WriterInv, LocksHeld, KeptKnown
    <3> QED
      BY <3>2, <3>3
  <2>7. Deadlocked(w)
    BY <2>6 DEF Deadlocked
  <2> QED
    BY <2>2, <2>7
<1> QED
  BY <1>1, <1>2, <1>3, PTL DEF Spec

\* No combination of writers, locks and failures leaves all of those that run
\* without a step to take.
THEOREM NobodyIsStuck == Spec => []SomebodyAble
<1>1. Init => WriterInv /\ FlagInv /\ WaitInv
  BY WriterInit, FlagInit, WaitInit
<1>2. WriterInv /\ FlagInv /\ WaitInv /\ [Next]_vars => (WriterInv /\ FlagInv /\ WaitInv)'
  BY WriterStep, FlagStep, WaitStep
<1>3. ASSUME WriterInv, NEW w \in Writer, Ready(w)
      PROVE  Able(w)
  <2>1. /\ pc[w] \in ProgramPoint /\ pc[w] # "idle"
        /\ failing \in [Attempt -> SUBSET Check] /\ attempt[w] \in Attempt
    BY <1>3, OwnAttempt DEF WriterInv, TypeInv, TypeOK, Ready
  <2>2. CASE Waiting(w)
    BY <1>3, <2>2 DEF Ready, Able
  <2>3. CASE ~Waiting(w) /\ pc[w] = "publish"
    <3>1. published[attempt[w]] \subseteq failing[attempt[w]]
      BY <1>3, <2>3 DEF Ready
    <3>2. failing[attempt[w]] \subseteq Check
      BY <2>1
    <3> QED
      BY <2>3, <3>1, <3>2 DEF Able, FlushComplete
  <2>4. CASE ~Waiting(w) /\ pc[w] # "publish"
    BY <2>1, <2>4 DEF Waiting, Able, ProgramPoint
  <2> QED
    BY <2>2, <2>3, <2>4
<1>4. WriterInv /\ SomebodyReady => SomebodyAble
  BY <1>3 DEF SomebodyReady, SomebodyAble
<1>5. Spec => [](WriterInv)
  BY <1>1, <1>2, PTL DEF Spec
<1> QED
  BY <1>4, <1>5, SomebodyGoesOn, PTL

-----------------------------------------------------------------------------
(***************************************************************************)
(* No alarm is missed.  A writer that counts the invalid rows has counted  *)
(* no more processed rows than there are by then, and with more of them a  *)
(* check that passes still passes.                                         *)
(***************************************************************************)

\* More processed rows withdraw alarms and raise none, whatever the scale and
\* the threshold.
LEMMA AlarmsOnlyWithdrawn ==
    ASSUME NEW m \in [Table -> Nat], NEW n \in [Table -> Nat],
           m["processed"] <= n["processed"], m["invalid"] = n["invalid"]
    PROVE  FailedChecks(n) \subseteq FailedChecks(m)
<1> DEFINE K == 2 * Threshold + 1
           L == 2 * n["invalid"] * Scale
<1>1. /\ m["processed"] \in Nat /\ n["processed"] \in Nat
      /\ m["invalid"] \in Nat /\ n["invalid"] \in Nat
      /\ MinProcessed \in Nat /\ Scale \in Nat /\ Threshold \in Nat
  BY WriterAssumption DEF Table
<1>2. /\ Total(m) \in Nat /\ Total(n) \in Nat /\ Total(m) <= Total(n)
      /\ Total(m) = 0 => n["invalid"] = 0
  BY <1>1 DEF Total
<1>3. K \in Nat /\ K > 0 /\ L \in Int
  BY <1>1
<1>4. n["invalid"] = 0 => L = 0
  BY <1>1
<1>5. L = 2 * m["invalid"] * Scale
  OBVIOUS
<1>6. ASSUME RateExceeded(n)
      PROVE  RateExceeded(m)
  <2>1. L >= K * Total(n) /\ Total(n) > 0
    BY <1>6 DEF RateExceeded
  <2> HIDE DEF K, L
  <2>2. PICK d \in Nat : Total(n) = Total(m) + d
    <3>1. Total(n) - Total(m) \in Nat /\ Total(n) = Total(m) + (Total(n) - Total(m))
      BY <1>2
    <3> QED
      BY <3>1
  <2>3. K * Total(n) = K * Total(m) + K * d /\ K * d >= 0 /\ K * Total(m) \in Nat
    BY <1>2, <1>3, <2>2
  <2>4. L >= K * Total(m)
    BY <1>3, <2>1, <2>3
  <2>5. L > 0
    <3>1. K * Total(n) > 0
      BY <1>2, <1>3, <2>1
    <3> QED
      BY <1>2, <1>3, <2>1, <3>1
  <2>6. Total(m) > 0
    BY <1>2, <1>4, <2>5
  <2> QED
    BY <1>5, <2>4, <2>6 DEF RateExceeded, K
<1>7. n["processed"] < MinProcessed => m["processed"] < MinProcessed
  BY <1>1
<1>8. SUFFICES ASSUME NEW c \in FailedChecks(n)
               PROVE  c \in FailedChecks(m)
  OBVIOUS
<1>9. CASE c = "processed_records_present"
  BY <1>7, <1>9 DEF FailedChecks
<1>10. CASE c = "invalid_rate_threshold"
  BY <1>6, <1>10 DEF FailedChecks
<1> QED
  BY <1>9, <1>10 DEF FailedChecks, Check

\* What a writer has counted first is no more than there is by now.
CountsBehind ==
    \A w \in Writer :
        pc[w] = "count_invalid" => counted[w]["processed"] <= warehouse["processed"]

\* Rows are only added, and each writer counts for itself.
LEMMA CountsStep ==
    ASSUME TypeOK, CountsBehind, [Next]_vars
    PROVE  CountsBehind'
<1> USE DEF tables, locals
<1> SUFFICES ASSUME NEW w \in Writer, pc'[w] = "count_invalid"
             PROVE  counted'[w]["processed"] <= warehouse'["processed"]
  BY DEF CountsBehind
<1>1. /\ warehouse \in [Table -> 0..MaxRows] /\ warehouse["processed"] \in Nat
      /\ counted \in [Writer -> [Table -> 0..MaxRows]] /\ counted[w]["processed"] \in Nat
      /\ pc \in [Writer -> ProgramPoint]
  BY WriterAssumption DEF TypeOK, Table
<1>2. ASSUME NEW v \in Writer, CountProcessed(v)
      PROVE  counted'[w]["processed"] <= warehouse'["processed"]
  <2>1. CASE v = w
    BY <1>1, <1>2, <2>1 DEF CountProcessed, Table
  <2>2. CASE v # w
    BY <1>1, <1>2, <2>2 DEF CountProcessed, At, CountsBehind
  <2> QED
    BY <2>1, <2>2
<1>3. ASSUME NEW t \in Table, LoaderInserts(t)
      PROVE  counted'[w]["processed"] <= warehouse'["processed"]
  <2>1. warehouse'["processed"] >= warehouse["processed"]
    BY <1>1, <1>3 DEF LoaderInserts, Table
  <2>2. counted[w]["processed"] <= warehouse["processed"] /\ counted' = counted
    BY <1>3 DEF LoaderInserts, CountsBehind
  <2>3. warehouse'["processed"] \in Int
    BY <1>1, <1>3 DEF LoaderInserts, Table
  <2> QED
    BY <1>1, <2>1, <2>2, <2>3
<1>4. ASSUME NEW v \in Writer, CountInvalid(v)
      PROVE  counted'[w]["processed"] <= warehouse'["processed"]
  <2>1. pc[w] = "count_invalid" /\ v # w
    BY <1>1, <1>4 DEF CountInvalid, At
  <2>2. counted'[w] = counted[w] /\ warehouse' = warehouse
    BY <1>1, <1>4, <2>1 DEF CountInvalid
  <2> QED
    BY <2>1, <2>2 DEF CountsBehind
<1>5. ASSUME UNCHANGED <<warehouse, counted>>, pc[w] = "count_invalid"
      PROVE  counted'[w]["processed"] <= warehouse'["processed"]
  BY <1>5 DEF CountsBehind
<1>6. ASSUME NEW v \in Writer,
             \/ Start(v) \/ Fail(v) \/ Ends(v)
             \/ Quiet(v) /\ ~CountProcessed(v) /\ ~CountInvalid(v)
      PROVE  UNCHANGED <<warehouse, counted>> /\ pc[w] = "count_invalid"
  BY <1>1, <1>6 DEF Start, Fail, Ends, Quiet, SelectAudit, DeleteAudit, ReplaceChecks,
     ChecksReplaced, ReplaceAlerts, AlertsReplaced, AlertsPublished, MarkAlerts,
     AlertsMarked, DeadlockVictim, At
<1>7. ASSUME NEW v \in Writer,
             LockRow(v) \/ LockAudit(v) \/ Commit(v) \/ \E c \in Check : DeliverAlert(v, c)
      PROVE  UNCHANGED <<warehouse, counted>> /\ pc[w] = "count_invalid"
  BY <1>1, <1>7 DEF LockRow, LockAudit, Commit, DeliverAlert, At
<1>8. CASE UNCHANGED vars
  BY <1>5, <1>8 DEF vars
<1> QED
  BY <1>2, <1>3, <1>4, <1>5, <1>6, <1>7, <1>8 DEF Next, Step, Quiet, Ends

\* An attempt may raise an alarm that was never due, because its two counts
\* are of two moments, but it misses none that is due when it has counted, for
\* every threshold and however the loader and other writers work meanwhile.
THEOREM DueAlarmsRaised == Spec => NoAlarmMissed
<1>1. Init => WriterInv /\ CountsBehind
  BY WriterInit DEF Init, CountsBehind
<1>2. WriterInv /\ CountsBehind /\ [Next]_vars => (WriterInv /\ CountsBehind)'
  BY WriterStep, CountsStep DEF WriterInv, TypeInv
<1>3. ASSUME WriterInv, CountsBehind, NEW w \in Writer, CountInvalid(w)
      PROVE  FailedChecks(warehouse) \subseteq failing'[attempt[w]]
  <2> DEFINE n == [counted[w] EXCEPT !["invalid"] = warehouse["invalid"]]
  <2>1. /\ warehouse \in [Table -> 0..MaxRows] /\ counted[w] \in [Table -> 0..MaxRows]
        /\ failing \in [Attempt -> SUBSET Check]
    BY <1>3 DEF WriterInv, TypeInv, TypeOK
  <2>2. warehouse \in [Table -> Nat] /\ n \in [Table -> Nat]
    BY <2>1, WriterAssumption DEF Table
  <2>3. n["processed"] <= warehouse["processed"] /\ n["invalid"] = warehouse["invalid"]
    BY <1>3, <2>1 DEF CountInvalid, At, CountsBehind, Table
  <2>4. FailedChecks(warehouse) \subseteq FailedChecks(n)
    BY <2>2, <2>3, AlarmsOnlyWithdrawn
  <2>5. attempt[w] \in Attempt
    BY <1>3, OwnAttempt DEF CountInvalid, At
  <2>6. failing' = [failing EXCEPT ![attempt[w]] = FailedChecks(n)]
    BY <1>3 DEF CountInvalid
  <2> QED
    BY <2>1, <2>4, <2>5, <2>6
<1>4. WriterInv /\ CountsBehind /\ [Next]_vars
          => [\A w \in Writer :
                 CountInvalid(w) => FailedChecks(warehouse) \subseteq failing'[attempt[w]]]_vars
  BY <1>3
<1> QED
  BY <1>1, <1>2, <1>4, PTL DEF Spec, NoAlarmMissed

-----------------------------------------------------------------------------
(***************************************************************************)
(* What brings an attempt nearer to its end.  A writer never goes back to  *)
(* an earlier program point, and where it stays at one it has fewer rows   *)
(* to lock, or alerts to deliver, with every step of its own, and never    *)
(* more by a step of another.                                              *)
(***************************************************************************)

\* The program points a writer may still come through.
ToGo == [idle |-> 0, await_mark |-> 1, mark |-> 2, publish |-> 3, commit |-> 4,
         await_alerts |-> 5, replace_alerts |-> 6, await_checks |-> 7,
         replace_checks |-> 8, delete_audit |-> 9, lock_audit |-> 10,
         select_audit |-> 11, count_invalid |-> 12, count_processed |-> 13]

\* What is left to do at the present one.
Left(w) == CASE pc[w] \in {"lock_audit", "delete_audit"} -> Pending(w)
             [] pc[w] = "publish" -> failing[attempt[w]] \ published[attempt[w]]
             [] OTHER -> {}

Passes(w) == ToGo[pc'[w]] < ToGo[pc[w]]

\* A running attempt comes nearer to its end with each of its writer's steps,
\* and no other step takes it further away.
AttemptAdvances ==
    [][\A w \in Writer : pc[w] # "idle" =>
          \/ Passes(w)
          \/ /\ pc'[w] = pc[w]
             /\ Left(w)' \subseteq Left(w)
             /\ Step(w) => Left(w)' # Left(w)]_vars

\* The rows a SELECT or DELETE began with are not those inserted since.
SeenOld ==
    \A w \in Writer : pc[w] \in {"lock_audit", "delete_audit"} =>
        /\ \A i \in seen[w] : i < nextId
        /\ \A v \in Writer :
               pc[v] \in KeptKnown /\ kept[v] \notin Ids => kept[v] \notin seen[w]

\* A step of w that passes a program point, or ends the attempt.
LEMMA PassingStep ==
    ASSUME TypeOK, NEW w \in Writer, Quiet(w) \/ Ends(w) \/ LockAudit(w) \/ Commit(w)
    PROVE  Passes(w)
<1> USE DEF Passes, ToGo, At
<1>1. pc \in [Writer -> ProgramPoint]
  BY DEF TypeOK
<1>2. CASE \/ CountProcessed(w) \/ CountInvalid(w) \/ SelectAudit(w) \/ DeleteAudit(w)
           \/ AlertsPublished(w) \/ MarkAlerts(w)
  BY <1>1, <1>2 DEF CountProcessed, CountInvalid, SelectAudit, DeleteAudit,
     AlertsPublished, MarkAlerts
<1>3. CASE ReplaceChecks(w) \/ ChecksReplaced(w) \/ ReplaceAlerts(w) \/ AlertsReplaced(w)
  BY <1>1, <1>3 DEF ReplaceChecks, ChecksReplaced, ReplaceAlerts, AlertsReplaced
<1>4. CASE Ends(w)
  <2>1. pc'[w] = "idle" /\ pc[w] # "idle" /\ pc[w] \in ProgramPoint
    BY <1>1, <1>4, EndStep
  <2> QED
    BY <2>1 DEF ProgramPoint
<1>5. CASE LockAudit(w)
  <2>1. pc[w] = "lock_audit" /\ pc'[w] \in {"delete_audit", "replace_checks"}
    BY <1>5, LockAuditStep
  <2> QED
    BY <2>1
<1>6. CASE Commit(w)
  BY <1>1, <1>6, CommitStep
<1> QED
  BY <1>2, <1>3, <1>4, <1>5, <1>6 DEF Quiet

\* A step of w that does not.
LEMMA LeftStep ==
    ASSUME TypeInv, NEW w \in Writer,
           LockRow(w) \/ \E c \in Check : DeliverAlert(w, c), pc[w] # "idle"
    PROVE  pc'[w] = pc[w] /\ Left(w)' \subseteq Left(w) /\ Left(w)' # Left(w)
<1>1. CASE LockRow(w)
  <2>1. PICK i \in NextRows(w) : held' = [held EXCEPT ![w] = @ \cup {i}]
    BY <1>1 DEF LockRow
  <2>2. /\ i \in Pending(w) /\ pc' = pc /\ pc[w] \in {"lock_audit", "delete_audit"}
        /\ audit' = audit /\ seen' = seen /\ held'[w] = held[w] \cup {i}
    BY <1>1, <2>1, NextRowsIn DEF LockRow, tables, TypeInv, TypeOK
  <2>3. Pending(w)' = Pending(w) \ {i}
    BY <2>2 DEF Pending, Existing, Ids
  <2>4. Left(w) = Pending(w) /\ Left(w)' = Pending(w)'
    BY <2>2 DEF Left
  <2> QED
    BY <2>2, <2>3, <2>4
<1>2. ASSUME NEW c \in Check, DeliverAlert(w, c)
      PROVE  pc'[w] = pc[w] /\ Left(w)' \subseteq Left(w) /\ Left(w)' # Left(w)
  <2>1. /\ pc' = pc /\ pc[w] = "publish" /\ attempt' = attempt /\ failing' = failing
        /\ c \in failing[attempt[w]] \ published[attempt[w]]
        /\ published' = [published EXCEPT ![attempt[w]] = @ \cup {c}]
    BY <1>2 DEF DeliverAlert, locals
  <2>2. Left(w) = failing[attempt[w]] \ published[attempt[w]]
    BY <2>1 DEF Left
  <2>3. Left(w)' = failing[attempt[w]] \ published'[attempt[w]]
    BY <2>1 DEF Left
  <2>4. published'[attempt[w]] = published[attempt[w]] \cup {c}
    <3>1. attempt[w] \in Attempt /\ published \in [Attempt -> SUBSET Check]
      BY AttemptType DEF TypeInv, TypeOK
    <3> QED
      BY <2>1, <3>1
  <2> QED
    BY <2>1, <2>2, <2>3, <2>4
<1> QED
  BY <1>1, <1>2
LEMMA SeenInit == Init => SeenOld
BY DEF Init, SeenOld

\* An inserted row has an id of its own, and one that is deleted never returns.
LEMMA SeenStep ==
    ASSUME WriterInv, SeenOld, [Next]_vars
    PROVE  SeenOld'
<1>1. TypeOK /\ LocksHeld /\ KeptOwned
  BY DEF WriterInv, TypeInv
<1>2. nextId \in Nat /\ Ids \in SUBSET Nat /\ seen \in [Writer -> SUBSET Nat]
      /\ kept \in [Writer -> Nat]
  BY <1>1, IdsType DEF TypeOK
<1>3. CASE UNCHANGED <<audit, nextId, pc, seen, kept>>
  BY <1>3 DEF SeenOld, Ids
<1>4. ASSUME NEW u \in Writer, Quiet(u) \/ Ends(u) \/ Start(u) \/ LockRow(u)
                                \/ LockAudit(u) \/ Commit(u)
      PROVE  SeenOld'
  <2> SUFFICES ASSUME NEW w \in Writer, pc'[w] \in {"lock_audit", "delete_audit"}
               PROVE  /\ \A i \in seen'[w] : i < nextId'
                      /\ \A v \in Writer : pc'[v] \in KeptKnown /\ kept'[v] \notin Ids'
                                               => kept'[v] \notin seen'[w]
    BY DEF SeenOld
  <2>1. /\ \A v \in Writer \ {u} : pc'[v] = pc[v] /\ seen'[v] = seen[v] /\ kept'[v] = kept[v]
    BY <1>1, <1>4, AloneStep DEF Alone, Step, Quiet, Ends
  <2>2. \/ UNCHANGED audit
        \/ Commit(u) /\ Ids' = (Ids \ held[u]) \cup {kept[u]}
    <3>1. CASE Commit(u)
      <4>1. audit' = {row \in audit : row.id \notin held[u]}
                         \cup {[id |-> kept[u], by |-> attempt[u]]}
        BY <1>1, <3>1, CommitStep
      <4>2. \A row \in audit : row.id \in Ids
        BY DEF Ids
      <4>3. ASSUME NEW i \in Ids'
            PROVE  i \in (Ids \ held[u]) \cup {kept[u]}
        BY <4>1, <4>2, <4>3 DEF Ids
      <4>4. ASSUME NEW i \in (Ids \ held[u]) \cup {kept[u]}
            PROVE  i \in Ids'
        <5>1. CASE i = kept[u]
          <6>1. [id |-> kept[u], by |-> attempt[u]] \in audit'
            BY <4>1
          <6> QED
            BY <5>1, <6>1 DEF Ids
        <5>2. CASE i \in Ids \ held[u]
          <6>1. PICK row \in audit : row.id = i
            BY <5>2 DEF Ids
          <6>2. row \in audit'
            BY <4>1, <5>2, <6>1
          <6> QED
            BY <6>1, <6>2 DEF Ids
        <5> QED
          BY <4>4, <5>1, <5>2
      <4> QED
        BY <3>1, <4>3, <4>4
    <3>2. CASE ~Commit(u)
      BY <1>1, <1>4, <3>2, QuietStep, EndStep, StartStep, LockRowStep, LockAuditStep
    <3> QED
      BY <3>1, <3>2
  <2>3. \/ seen'[w] = Ids /\ Ids' = Ids
        \/ seen'[w] = seen[w] /\ pc[w] \in {"lock_audit", "delete_audit"}
    <3>1. CASE w # u
      BY <2>1, <3>1
    <3>2. CASE w = u
      <4> USE DEF At, Began, tables, locals
      <4>1. pc \in [Writer -> ProgramPoint] /\ seen \in [Writer -> SUBSET Nat]
        BY <1>1 DEF TypeOK
      <4>2. CASE Quiet(u)
        BY <3>2, <4>1, <4>2 DEF Quiet, CountProcessed, CountInvalid, SelectAudit,
           DeleteAudit, ReplaceChecks, ChecksReplaced, ReplaceAlerts, AlertsReplaced,
           AlertsPublished, MarkAlerts, Ids
      <4>3. CASE Ends(u) \/ Start(u) \/ Commit(u)
        BY <1>1, <3>2, <4>3, EndStep, StartStep, CommitStep
      <4>4. CASE LockRow(u)
        BY <1>1, <3>2, <4>4, LockRowStep
      <4>5. CASE LockAudit(u)
        BY <3>2, <4>1, <4>5 DEF LockAudit, Ids
      <4> QED
        BY <1>4, <4>2, <4>3, <4>4, <4>5
    <3> QED
      BY <3>1, <3>2
  <2>4. nextId' >= nextId
    BY <1>1, <1>2, <1>4, QuietStep, EndStep, StartStep, LockRowStep, LockAuditStep,
       CommitStep
  <2>5. ASSUME NEW v \in Writer, pc'[v] \in KeptKnown
        PROVE  \/ pc[v] \in KeptKnown /\ kept'[v] = kept[v] /\ ~(Commit(u) /\ v = u)
               \/ kept'[v] = nextId
               \/ kept'[v] \in Ids'
    <3>1. CASE v # u
      BY <2>1, <2>5, <3>1
    <3>2. CASE v = u /\ LockAudit(u)
      BY <1>1, <3>2, LockAuditStep DEF LocksHeld, Ids
    <3>3. CASE v = u /\ LockRow(u)
      <4>1. UNCHANGED <<audit, pc, kept>>
        BY <1>1, <3>3, LockRowStep
      <4>2. ~Commit(u)
        BY <1>1, <3>3, CommitStep, LockRowStep
      <4> QED
        BY <2>5, <3>3, <4>1, <4>2
    <3>4. CASE v = u /\ Quiet(u)
      <4>1. kept' = kept /\ pc[u] \in KeptKnown
        BY <1>1, <2>5, <3>4, QuietStep
      <4>2. ~Commit(u)
        BY <1>1, <2>5, <3>4, CommitStep DEF KeptKnown
      <4> QED
        BY <3>4, <4>1, <4>2
    <3>5. CASE v = u /\ (Ends(u) \/ Start(u) \/ Commit(u))
      BY <1>1, <2>5, <3>5, EndStep, StartStep, CommitStep DEF KeptKnown
    <3> QED
      BY <1>4, <3>1, <3>2, <3>3, <3>4, <3>5
  <2>6. \A i \in seen'[w] : i < nextId'
    <3>1. \A i \in Ids : i < nextId
      BY <1>1 DEF KeptOwned
    <3>2. seen'[w] = seen[w] /\ pc[w] \in {"lock_audit", "delete_audit"}
              => \A i \in seen'[w] : i < nextId
      BY DEF SeenOld
    <3>3. seen'[w] \subseteq Nat
      BY <1>2, <2>3
    <3>4. nextId' \in Nat
      BY <1>1, <1>2, <1>4, QuietStep, EndStep, StartStep, LockRowStep, LockAuditStep,
         CommitStep
    <3> QED
      BY <1>2, <2>3, <2>4, <3>1, <3>2, <3>3, <3>4
  <2>7. ASSUME NEW v \in Writer, pc'[v] \in KeptKnown, kept'[v] \notin Ids',
               kept'[v] \in seen'[w]
        PROVE  FALSE
    <3>1. seen'[w] = seen[w] /\ pc[w] \in {"lock_audit", "delete_audit"}
      BY <2>3, <2>7
    <3>2. kept'[v] < nextId
      BY <2>7, <3>1 DEF SeenOld
    <3>3. pc[v] \in KeptKnown /\ kept'[v] = kept[v] /\ ~(Commit(u) /\ v = u)
      BY <1>2, <2>5, <2>7, <3>2
    <3>4. kept[v] \in Ids
      BY <2>7, <3>1, <3>3 DEF SeenOld
    <3>5. Commit(u) /\ kept[v] \in held[u]
      BY <2>2, <2>7, <3>3, <3>4 DEF Ids
    <3>6. kept[v] \in held[v]
      BY <1>1, <3>3, <3>4 DEF KeptOwned
    <3> QED
      BY <1>1, <3>3, <3>5, <3>6 DEF LocksHeld
  <2> QED
    BY <2>6, <2>7
<1> QED
  BY <1>3, <1>4, StepCases
\* A step that is not w's takes w no further from its end.
LEMMA OthersStep ==
    ASSUME WriterInv, FlagInv, SeenOld, [Next]_vars, NEW w \in Writer, pc[w] # "idle",
           ~Step(w), ~Fail(w)
    PROVE  pc'[w] = pc[w] /\ Left(w)' \subseteq Left(w)
<1> USE DEF tables, locals
<1>1. TypeOK /\ LocksHeld
  BY DEF WriterInv, TypeInv
<1>2. ASSUME UNCHANGED <<audit, failing, pc, attempt, seen, held>>,
             \A a \in Attempt : published[a] \subseteq published'[a]
      PROVE  pc'[w] = pc[w] /\ Left(w)' \subseteq Left(w)
  <2>1. attempt[w] \in Attempt
    BY OwnAttempt
  <2>2. Pending(w)' = Pending(w)
    BY <1>2 DEF Pending, Existing, Ids
  <2>3. CASE pc[w] = "publish"
    <3>1. /\ Left(w) = failing[attempt[w]] \ published[attempt[w]]
          /\ Left(w)' = failing[attempt[w]] \ published'[attempt[w]]
      BY <1>2, <2>3 DEF Left
    <3> QED
      BY <1>2, <2>1, <3>1
  <2>4. CASE pc[w] # "publish"
    BY <1>2, <2>2, <2>4 DEF Left
  <2> QED
    BY <2>3, <2>4
<1>3. ASSUME NEW v \in Writer, Start(v) \/ Step(v) \/ Fail(v)
      PROVE  pc'[w] = pc[w] /\ Left(w)' \subseteq Left(w)
  <2>1. v # w
    BY <1>3 DEF Start, At
  <2>2. /\ pc'[w] = pc[w] /\ attempt'[w] = attempt[w] /\ seen'[w] = seen[w]
        /\ held'[w] = held[w]
    BY <1>1, <1>3, <2>1, AloneStep DEF Alone
  <2>3. attempt[w] \in Attempt /\ (pc[v] # "idle" => attempt[v] # attempt[w])
    BY <2>1, OwnAttempt
  <2>4. pc[w] \in {"lock_audit", "delete_audit"} => Pending(w)' \subseteq Pending(w)
    <3>1. CASE Commit(v)
      <4>1. audit' = {row \in audit : row.id \notin held[v]}
                         \cup {[id |-> kept[v], by |-> attempt[v]]}
        BY <1>1, <3>1, CommitStep
      <4>2. \A row \in audit : row.id \in Ids
        BY DEF Ids
      <4>3. Ids' \subseteq Ids \cup {kept[v]}
        BY <4>1, <4>2 DEF Ids
      <4>4. pc[v] \in KeptKnown
        BY <3>1 DEF Commit, At, KeptKnown
      <4>5. pc[w] \in {"lock_audit", "delete_audit"} =>
                kept[v] \in Ids \/ kept[v] \notin seen[w]
        BY <4>4 DEF SeenOld
      <4> QED
        BY <2>2, <4>3, <4>5 DEF Pending, Existing
    <3>2. CASE ~Commit(v)
      <4>1. audit' = audit
        <5>1. CASE Quiet(v) \/ Ends(v) \/ Start(v) \/ LockRow(v) \/ LockAudit(v)
          BY <1>1, <5>1, QuietStep, EndStep, StartStep, LockRowStep, LockAuditStep
        <5>2. CASE \E c \in Check : DeliverAlert(v, c)
          BY <5>2 DEF DeliverAlert
        <5> QED
          BY <1>3, <3>2, <5>1, <5>2 DEF Step, Quiet, Ends
      <4> QED
        BY <2>2, <4>1 DEF Pending, Existing, Ids
    <3> QED
      BY <3>1, <3>2
  <2>5. /\ failing'[attempt[w]] = failing[attempt[w]]
        /\ published[attempt[w]] \subseteq published'[attempt[w]]
    <3>1. /\ failing \in [Attempt -> SUBSET Check] /\ published \in [Attempt -> SUBSET Check]
      BY <1>1 DEF TypeOK
    <3>2. CASE Start(v)
      BY <3>2 DEF Start
    <3>3. CASE CountInvalid(v)
      BY <2>3, <3>1, <3>3 DEF CountInvalid, At
    <3>4. ASSUME NEW c \in Check, DeliverAlert(v, c)
          PROVE  /\ failing'[attempt[w]] = failing[attempt[w]]
                 /\ published[attempt[w]] \subseteq published'[attempt[w]]
      BY <2>3, <3>1, <3>4 DEF DeliverAlert
    <3>5. CASE /\ Step(v) \/ Fail(v)
               /\ ~CountInvalid(v)
               /\ \A c \in Check : ~DeliverAlert(v, c)
      BY <1>1, <3>5, FlagSteps
    <3> QED
      BY <1>3, <3>2, <3>3, <3>4, <3>5
  <2>6. CASE pc[w] \in {"lock_audit", "delete_audit"}
    BY <2>2, <2>4, <2>6 DEF Left
  <2>7. CASE pc[w] = "publish"
    <3>1. /\ Left(w) = failing[attempt[w]] \ published[attempt[w]]
          /\ Left(w)' = failing'[attempt[w]] \ published'[attempt[w]]
      BY <2>2, <2>7 DEF Left
    <3> QED
      BY <2>2, <2>5, <3>1
  <2>8. CASE pc[w] \notin {"lock_audit", "delete_audit", "publish"}
    BY <2>2, <2>8 DEF Left
  <2> QED
    BY <2>6, <2>7, <2>8
<1>4. ASSUME NEW t \in Table, LoaderInserts(t)
      PROVE  pc'[w] = pc[w] /\ Left(w)' \subseteq Left(w)
  BY <1>2, <1>4 DEF LoaderInserts
<1>5. CASE UNCHANGED vars
  BY <1>2, <1>5 DEF vars
<1> QED
  BY <1>3, <1>4, <1>5 DEF Next

\* Every attempt only goes forward: whatever overlaps, no step of any writer
\* or of the loader takes a running attempt away from its end, and each step
\* of its own brings it nearer.  With SomebodyGoesOn this is what AttemptEnds
\* needs beside the fairness.
THEOREM AttemptsGoForward == Spec => AttemptAdvances
<1>1. Init => WriterInv /\ FlagInv /\ SeenOld
  BY WriterInit, FlagInit, SeenInit
<1>2. WriterInv /\ FlagInv /\ SeenOld /\ [Next]_vars => (WriterInv /\ FlagInv /\ SeenOld)'
  BY WriterStep, FlagStep, SeenStep
<1>3. ASSUME WriterInv, FlagInv, SeenOld, [Next]_vars, NEW w \in Writer, pc[w] # "idle"
      PROVE  \/ Passes(w)
             \/ /\ pc'[w] = pc[w]
                /\ Left(w)' \subseteq Left(w)
                /\ Step(w) => Left(w)' # Left(w)
  <2>1. TypeInv /\ TypeOK
    BY <1>3 DEF WriterInv, TypeInv
  <2>2. CASE Quiet(w) \/ Ends(w) \/ LockAudit(w) \/ Commit(w)
    BY <2>1, <2>2, PassingStep
  <2>3. CASE LockRow(w) \/ \E c \in Check : DeliverAlert(w, c)
    BY <1>3, <2>1, <2>3, LeftStep
  <2>4. CASE ~Step(w) /\ ~Fail(w)
    BY <1>3, <2>4, OthersStep
  <2> QED
    BY <2>2, <2>3, <2>4 DEF Step, Quiet, Ends
<1>4. WriterInv /\ FlagInv /\ SeenOld /\ [Next]_vars
          => [\A w \in Writer : pc[w] # "idle" =>
                 \/ Passes(w)
                 \/ /\ pc'[w] = pc[w]
                    /\ Left(w)' \subseteq Left(w)
                    /\ Step(w) => Left(w)' # Left(w)]_vars
  BY <1>3
<1> QED
  BY <1>1, <1>2, <1>4, PTL DEF Spec, AttemptAdvances
=============================================================================
