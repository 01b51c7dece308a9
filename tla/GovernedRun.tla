----------------------------- MODULE GovernedRun -----------------------------
(***************************************************************************)
(* What one governed task promises of its runs, whoever works on it and    *)
(* whatever process dies: a run is claimed once, starts its check at most  *)
(* once and only while it is the task's running one, and gets at most one  *)
(* recorded outcome; review-ready needs a started check.  RunLifecycle     *)
(* implements it.                                                          *)
(***************************************************************************)
EXTENDS Naturals

CONSTANT MaxRuns        \* bound on the runs of the task

Runs == 1..MaxRuns

Results == {"ReviewReady", "Failed", "Cancelled"}

VARIABLES
    status,     \* of the task
    run,        \* its latest run, 0 before the first
    launches,   \* how often each run started its check
    outcome     \* the recorded outcome of each run

vars == <<status, run, launches, outcome>>

TypeOK ==
    /\ status \in {"Approved", "Running"} \cup Results
    /\ run \in 0..MaxRuns
    /\ launches \in [Runs -> Nat]
    /\ outcome \in [Runs -> Results \cup {"none"}]

Init ==
    /\ status = "Approved"
    /\ run = 0
    /\ launches = [r \in Runs |-> 0]
    /\ outcome = [r \in Runs |-> "none"]

Claim ==
    /\ status = "Approved" /\ run < MaxRuns
    /\ status' = "Running"
    /\ run' = run + 1
    /\ UNCHANGED <<launches, outcome>>

Launch ==
    /\ status = "Running" /\ launches[run] = 0
    /\ launches' = [launches EXCEPT ![run] = 1]
    /\ UNCHANGED <<status, run, outcome>>

Record(result) ==
    /\ status = "Running" /\ outcome[run] = "none"
    /\ result = "ReviewReady" => launches[run] = 1
    /\ status' = result
    /\ outcome' = [outcome EXCEPT ![run] = result]
    /\ UNCHANGED <<run, launches>>

\* The task is cancelled before a run, or released for another one.
Withdraw ==
    /\ status = "Approved"
    /\ status' = "Cancelled"
    /\ UNCHANGED <<run, launches, outcome>>

Requeue ==
    /\ status = "Cancelled" /\ run # 0
    /\ status' = "Approved"
    /\ UNCHANGED <<run, launches, outcome>>

Next ==
    \/ Claim
    \/ Launch
    \/ \E result \in Results : Record(result)
    \/ Withdraw
    \/ Requeue

Spec == Init /\ [][Next]_vars
=============================================================================
