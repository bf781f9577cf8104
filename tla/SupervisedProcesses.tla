------------------------- MODULE SupervisedProcesses -------------------------
(***************************************************************************)
(* What a supervisor of concurrent processes promises: it passes judgement *)
(* once, when none of the processes it started is running any more, and    *)
(* passes the group only when every process was started and ended with     *)
(* zero.  It may be abandoned by an exception, and then says nothing of    *)
(* the processes it leaves behind.                                         *)
(***************************************************************************)
CONSTANT Proc

VARIABLES
    child,   \* what each process is doing, or how it ended
    verdict  \* the judgement of the group

vars == <<child, verdict>>

TypeOK ==
    /\ child \in [Proc -> {"unstarted", "running", "zero", "nonzero"}]
    /\ verdict \in {"none", "passed", "failed", "raised"}

Init ==
    /\ child = [p \in Proc |-> "unstarted"]
    /\ verdict = "none"

\* A process is started, while there is no judgement.
Start(p) ==
    /\ verdict = "none" /\ child[p] = "unstarted"
    /\ child' = [child EXCEPT ![p] = "running"]
    /\ UNCHANGED verdict

\* A process ends.
End(p) ==
    /\ child[p] = "running"
    /\ \E code \in {"zero", "nonzero"} : child' = [child EXCEPT ![p] = code]
    /\ UNCHANGED verdict

\* The group is judged.
Judge ==
    /\ verdict = "none"
    /\ \A p \in Proc : child[p] # "running"
    /\ verdict' = IF \A p \in Proc : child[p] = "zero" THEN "passed" ELSE "failed"
    /\ UNCHANGED child

\* An exception that nobody handles leaves the supervisor.
Abandon ==
    /\ verdict = "none" /\ verdict' = "raised"
    /\ UNCHANGED child

Next == (\E p \in Proc : Start(p) \/ End(p)) \/ Judge \/ Abandon

Spec == Init /\ [][Next]_vars
=============================================================================
