---------------------------- MODULE MCTaskStore ----------------------------
(* Small instances of TaskStore for TLC. *)
EXTENDS TaskStore

Decides(outcome, risk, architecture, criteria) ==
    [outcome |-> outcome, risk |-> risk, architecture |-> architecture,
     criteria |-> criteria]

\* A step with criteria and a consumer of it, or a single step.
Step(deps, contract) == [deps |-> deps, contract |-> contract]

ConsumerPlan == <<Step({}, TRUE), Step({1}, FALSE)>>

SinglePlan == <<Step({}, FALSE)>>

Shapes == {ConsumerPlan, SinglePlan}

AllOutcomes ==
    {Decides("Approved", FALSE, FALSE, "met"),
     Decides("Rejected", FALSE, FALSE, "unmet"),
     Decides("NeedsHumanReview", FALSE, FALSE, "unmet"),
     Decides("Rejected", TRUE, FALSE, "unmet")}

\* A reviewer that finds architecture failures, holds a task or approves it.
ArchitectureOutcomes ==
    {Decides("Approved", FALSE, FALSE, "met"),
     Decides("Approved", FALSE, FALSE, "none"),
     Decides("NeedsHumanReview", FALSE, FALSE, "none"),
     Decides("Rejected", FALSE, TRUE, "none"),
     Decides("Rejected", FALSE, TRUE, "unmet")}

Reviews == AllOutcomes \cup ArchitectureOutcomes

OnlyDecided(outcomes) == \A t \in Ids : tasks[t].decision \in outcomes \cup {NoDecision}

\* Three tasks, with a consumer of a planned one or without plan, under any
\* decision and redrafted scopes.
Consumers ==
    /\ Len(tasks) <= 3 /\ revision <= MaxReceipts - 2
    /\ \A t \in Ids : tasks[t].planned => tasks[t].contract \/ tasks[t].deps # {}
    /\ OnlyDecided(AllOutcomes)

\* One family of four tasks under a reviewer that looks at the architecture.
OneFamily ==
    /\ Cardinality(Roots) <= 1 /\ scope.revision = 0
    /\ \A t \in Ids : tasks[t].contract => tasks[t].architect
    /\ OnlyDecided(ArchitectureOutcomes)

Small == Consumers \/ OneFamily
=============================================================================
