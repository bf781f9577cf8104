--------------------------- MODULE AtLeastOnceLoad ---------------------------
(***************************************************************************)
(* What the warehouse loader promises, without batches, transactions,      *)
(* program points or failures: messages become rows, perhaps several times *)
(* each; a message that cannot become a row is given up and reported; and  *)
(* the consumer group's offset only ever stands behind messages that are   *)
(* stored or given up.  It may move back, which costs duplicates only.     *)
(***************************************************************************)
EXTENDS Integers, Sequences

CONSTANT MaxOffset  \* bound: messages published to each topic

Topic  == {"processed", "invalid"}
Offset == 0..(MaxOffset - 1)
Kind   == {"ok", "unmappable", "unstorable"}

VARIABLES log,        \* what each topic holds
          committed,  \* the group's offset on each topic
          rows,       \* how many rows each message has
          dropped     \* the messages given up

vars == <<log, committed, rows, dropped>>

Init == /\ log = [t \in Topic |-> <<>>]
        /\ committed = [t \in Topic |-> 0]
        /\ rows = [t \in Topic |-> [o \in Offset |-> 0]]
        /\ dropped = [t \in Topic |-> {}]

Accounted(t, o) == rows[t][o] > 0 \/ o \in dropped[t]

Publish(t, k) ==
    /\ Len(log[t]) < MaxOffset
    /\ log' = [log EXCEPT ![t] = Append(@, k)]
    /\ UNCHANGED <<committed, rows, dropped>>

\* Rows appear for published messages that PostgreSQL can hold; none goes away.
Store ==
    /\ rows' \in [Topic -> [Offset -> Nat]]
    /\ \A t \in Topic, o \in Offset :
          \/ rows'[t][o] = rows[t][o]
          \/ /\ rows'[t][o] > rows[t][o]
             /\ o < Len(log[t])
             /\ log[t][o + 1] = "ok"
    /\ UNCHANGED <<log, committed, dropped>>

\* A published message is given up.
GiveUp(t, o) ==
    /\ o < Len(log[t])
    /\ dropped' = [dropped EXCEPT ![t] = @ \cup {o}]
    /\ UNCHANGED <<log, committed, rows>>

\* The group's offsets move to where everything below is accounted for.
Acknowledge ==
    /\ committed' \in [Topic -> 0..MaxOffset]
    /\ \A t \in Topic : \A o \in 0..(committed'[t] - 1) : Accounted(t, o)
    /\ UNCHANGED <<log, rows, dropped>>

Next == \/ \E t \in Topic, k \in Kind : Publish(t, k)
        \/ Store
        \/ \E t \in Topic, o \in Offset : GiveUp(t, o)
        \/ Acknowledge

Spec == Init /\ [][Next]_vars
=============================================================================
