------------------------------ MODULE TaskStore ------------------------------
(***************************************************************************)
(* The governed task state machine of tasks.rs.                            *)
(*                                                                         *)
(* A mission's tasks change only through TaskStore::transact_checked: under*)
(* the scope lock and the store lock it checks a request against the saved *)
(* snapshot, applies it to a copy, appends one receipt and saves.  One such*)
(* transaction is one action here.  Its guard joins the refusals of        *)
(* transact_checked with those of apply; the facts that the code reads back*)
(* from its receipts (the last decision on a task, whether its current run *)
(* finished review-ready, which tasks were routed to the Architect, which  *)
(* repair resolves a family) are fields of the task.  How a request reaches*)
(* its transaction (staleness, retries, crashes in a save) is the subject  *)
(* of SavedCommand, what a worker does between Start and Finish of         *)
(* RunLifecycle.                                                           *)
(***************************************************************************)
EXTENDS Naturals, Sequences, FiniteSets

CONSTANTS
    MaxTasks,       \* tasks.rs:MAX_TASKS
    MaxReceipts,    \* tasks.rs:MAX_RECEIPTS
    MaxRoots,       \* bound on the tasks that repair no other task
    MaxScope,       \* bound on the writes to the shared understanding
    Policies,       \* the policies /permit, /plan may set
    NoPolicy,       \* a task without a policy
    Baselines,      \* the commits a worker may start from
    NoBaseline,     \* a task that never ran
    Decisions,      \* the review decisions a reviewer may record
    PlanShapes      \* the plans a planner may save: sequences of steps
                    \* [deps |-> earlier steps, contract |-> BOOLEAN]

Outcomes == {"Approved", "NeedsRepair", "NeedsHumanReview", "Rejected"}

\* A decision; the criteria notes are abstracted to whether there are any and
\* whether all are met.  ApprovedWithLimitations differs from Approved in
\* wording only.
Decision == [outcome : Outcomes, risk : BOOLEAN, architecture : BOOLEAN,
             criteria : {"none", "met", "unmet"}]

NoDecision == [outcome |-> "None", risk |-> FALSE, architecture |-> FALSE,
               criteria |-> "none"]

ASSUME BoundsAssumption ==
    /\ MaxTasks \in Nat \ {0}
    /\ MaxReceipts \in Nat \ {0}
    /\ MaxRoots \in Nat
    /\ MaxScope \in Nat

ASSUME PolicyAssumption == NoPolicy \notin Policies

ASSUME BaselineAssumption == NoBaseline \notin Baselines

ASSUME DecisionAssumption == Decisions \subseteq Decision

ASSUME PlanAssumption ==
    \A shape \in PlanShapes :
        /\ shape \in Seq([deps : SUBSET Nat, contract : BOOLEAN])
        /\ shape # <<>>
        /\ \A i \in 1..Len(shape) : \A d \in shape[i].deps : d \in 1..(i - 1)

VARIABLES
    tasks,      \* the sequence of tasks; a task's id is its index
    revision,   \* the number of saved receipts
    scope       \* the shared understanding: its revision, and whether it is
                \* open (no brief, or a confirmed one)

vars == <<tasks, revision, scope>>

Statuses == {"Proposed", "Approved", "Cancelled", "Running", "ReviewReady",
             "NeedsHumanReview", "Accepted", "Failed", "Rejected"}

TaskIds == 1..MaxTasks

Input == [task : TaskIds, source : TaskIds, run : Nat]

Task == [status : Statuses, deps : SUBSET TaskIds, parent : 0..MaxTasks,
         policy : Policies \cup {NoPolicy},
         \* the run: its number among the task's runs (0: none), the claim's
         \* baseline and inputs, and whether Finish bound its evidence
         run : Nat, baseline : Baselines \cup {NoBaseline},
         inputs : SUBSET Input, evidence : BOOLEAN,
         \* the Plan receipt that created the task, if one did
         planned : BOOLEAN, contract : BOOLEAN, architect : BOOLEAN, bound : Nat,
         \* read back from later receipts
         passed : BOOLEAN, decision : Decisions \cup {NoDecision},
         assessed : {"none", "accept", "reject"},
         routed : BOOLEAN, resolves : BOOLEAN]

\* A task repairs, and depends on, earlier tasks only.
WellFormed(ts) ==
    /\ ts \in Seq(Task)
    /\ Len(ts) <= MaxTasks
    /\ \A t \in 1..Len(ts) :
          /\ ts[t].parent < t
          /\ \A d \in ts[t].deps : d < t

\* Every variable has its type and the task graph points backwards.
TypeOK ==
    /\ WellFormed(tasks)
    /\ revision \in 0..MaxReceipts
    /\ scope \in [revision : 0..MaxScope, open : BOOLEAN]

Init ==
    /\ tasks = <<>>
    /\ revision = 0
    /\ scope = [revision |-> 0, open |-> TRUE]

-----------------------------------------------------------------------------
(* What the code derives from a snapshot. *)

Ids == 1..Len(tasks)

\* A task and the tasks it repairs, down to the root of its family.
Lineage(t) ==
    LET up[i \in Ids] ==
            {i} \cup (IF tasks[i].parent = 0 THEN {} ELSE up[tasks[i].parent])
    IN  up[t]

RepairRoot(t) == CHOOSE r \in Lineage(t) : tasks[r].parent = 0

Family(t) == {u \in Ids : RepairRoot(u) = RepairRoot(t)}

\* The part of a lineage since the last Architect revision.
Attempt(t) ==
    LET up[i \in Ids] ==
            {i} \cup (IF tasks[i].parent = 0 \/ tasks[i].architect
                      THEN {} ELSE up[tasks[i].parent])
    IN  up[t]

ProposesRepair(d) == ~d.risk /\ d.outcome \in {"NeedsRepair", "Rejected"}

ArchitectureFailures(t) ==
    Cardinality({u \in Attempt(t) : /\ tasks[u].decision.architecture
                                    /\ ProposesRepair(tasks[u].decision)
                                    /\ tasks[u].run # 0})

\* Adopted Architect revisions of t; the last one counts.
Adoptions(t) == {a \in Ids : tasks[a].architect /\ tasks[a].parent = t}

Newest(S) == CHOOSE a \in S : \A b \in S : b <= a

ArchitectureRequired(t) ==
    /\ tasks[t].status = "Rejected"
    /\ tasks[t].routed
    /\ Adoptions(t) # {} =>
          LET a == tasks[Newest(Adoptions(t))]
          IN  a.status = "Cancelled" /\ a.run = 0
    /\ ArchitectureFailures(t) >= 2

ArchitectureObsolete(t) ==
    LET adopted == {a \in Family(t) : tasks[a].architect}
    IN  adopted # {} /\ Newest(adopted) \notin Lineage(t)

ArchitectureBlocked(t) == \E u \in Family(t) : ArchitectureRequired(u)

FamilyResolved(t) == \E s \in Family(t) : tasks[s].resolves

ResolvedBy(t) == {s \in Ids : tasks[s].resolves /\ t \in Lineage(s) \ {s}}

DependencySources(d) ==
    {s \in (IF tasks[d].status = "Accepted" THEN {d} ELSE ResolvedBy(d)) :
        tasks[s].status = "Accepted"}

\* The criteria a review must cover: those of the nearest planned ancestor.
Contract(t) ==
    LET up[i \in Ids] ==
            IF tasks[i].planned THEN tasks[i].contract
            ELSE IF tasks[i].parent = 0 THEN FALSE ELSE up[tasks[i].parent]
    IN  up[t]

Open == {"Proposed", "Approved", "Running", "ReviewReady"}

\* Fault: a held repair does not count as unresolved.
NoneHeld == {}

Held == {"NeedsHumanReview"}

\* Some repair of t (a direct child) is in one of these statuses.
RepairIn(t, statuses) ==
    \E u \in Ids : tasks[u].parent = t /\ tasks[u].status \in statuses

\* Fault: any task that ran can be requeued.
RequeueAnyRun(t) == tasks[t].run # 0 /\ tasks[t].policy # NoPolicy

CanRequeue(t) ==
    tasks[t].status = "Cancelled" /\ tasks[t].run # 0 /\ tasks[t].policy # NoPolicy

Repairable(t) == tasks[t].policy # NoPolicy /\ tasks[t].evidence

CanRepair(t) == tasks[t].status \in {"Failed", "Rejected", "Cancelled"} /\ Repairable(t)

RunningIn(ts) == {t \in 1..Len(ts) : ts[t].status = "Running"}

-----------------------------------------------------------------------------
(* The frame of a transaction. *)

ScopeOpen == scope.open

\* Fault: a plan may run under a later understanding.
AnyBinding(t) == TRUE

\* A plan drafted outside any understanding is bound to revision 0.
BindingCurrent(t) == tasks[t].planned => tasks[t].bound = scope.revision

\* One receipt is appended.
Receipt == revision < MaxReceipts /\ revision' = revision + 1 /\ UNCHANGED scope

\* Fault: the journal may fill up while workers run.
AnyCapacity == revision' <= MaxReceipts

\* Every transaction but Finish leaves a free receipt for each running worker.
CompletionCapacity == revision' + Cardinality(RunningIn(tasks')) <= MaxReceipts

\* Fault: a replaced branch goes on.
AnyBranch(t) == TRUE

\* apply's common guards.
NotSuperseded(t) == ~ArchitectureObsolete(t)
FamilyLive(t) == NotSuperseded(t) /\ ~FamilyResolved(t)
WorkAllowed(t) == FamilyLive(t) /\ ~ArchitectureBlocked(t)

\* What a transaction does to the tasks: replace one, add one, or both.
Become(t, task) == tasks' = [tasks EXCEPT ![t] = task]

Add(task) == tasks' = Append(tasks, task)

BecomeAndAdd(t, task, new) == tasks' = Append([tasks EXCEPT ![t] = task], new)

WithStatus(t, status) == [tasks[t] EXCEPT !.status = status]

NewTask(deps, policy, parent) ==
    [status |-> "Proposed", deps |-> deps, parent |-> parent,
     policy |-> policy,
     run |-> 0, baseline |-> NoBaseline, inputs |-> {}, evidence |-> FALSE,
     planned |-> FALSE, contract |-> FALSE, architect |-> FALSE, bound |-> 0,
     passed |-> FALSE, decision |-> NoDecision, assessed |-> "none",
     routed |-> FALSE, resolves |-> FALSE]

RepairTask(t) == NewTask(tasks[t].deps, tasks[t].policy, t)

-----------------------------------------------------------------------------
(* New tasks: /task, /plan, /repair and an adopted Architect revision. *)

Roots == {t \in Ids : tasks[t].parent = 0}

Propose(deps) ==
    /\ ScopeOpen /\ Receipt
    /\ Len(tasks) < MaxTasks /\ Cardinality(Roots) < MaxRoots
    /\ deps \subseteq Ids
    /\ Add(NewTask(deps, NoPolicy, 0))
    /\ CompletionCapacity

\* Fault: a step's dependencies are numbered one too high.
ShiftedTask(step, policy) ==
    [NewTask({Len(tasks) + d + 1 : d \in step.deps}, policy, 0)
        EXCEPT !.planned = TRUE, !.contract = step.contract, !.bound = scope.revision]

\* A step's dependencies are numbered within its plan.
PlannedTask(step, policy) ==
    [NewTask({Len(tasks) + d : d \in step.deps}, policy, 0)
        EXCEPT !.planned = TRUE, !.contract = step.contract, !.bound = scope.revision]

Plan(shape, policy) ==
    /\ ScopeOpen /\ Receipt
    /\ Len(tasks) + Len(shape) <= MaxTasks
    /\ Cardinality(Roots) + Len(shape) <= MaxRoots
    /\ tasks' = tasks \o [i \in 1..Len(shape) |-> PlannedTask(shape[i], policy)]
    /\ CompletionCapacity

Repair(t) ==
    /\ ScopeOpen /\ Receipt
    /\ CanRepair(t)
    /\ WorkAllowed(t)
    /\ ~RepairIn(t, Open \cup Held)
    /\ Len(tasks) < MaxTasks
    /\ Add(RepairTask(t))
    /\ CompletionCapacity

\* What an Architect revision of t must still be bound to when it is saved.
ArchitectureOrigin(t) ==
    /\ ArchitectureRequired(t)
    /\ ~FamilyResolved(t)
    /\ \A u \in Family(t) : tasks[u].status \notin Open \cup Held
    /\ tasks[t].evidence

\* The revised task repairs t, with a policy and criteria of its own.
RevisedTask(t, policy) ==
    [NewTask(tasks[t].deps, policy, t)
        EXCEPT !.planned = TRUE, !.contract = TRUE, !.architect = TRUE,
               !.bound = scope.revision]

AdoptArchitecture(t, policy) ==
    /\ ScopeOpen /\ Receipt
    /\ ArchitectureOrigin(t)
    /\ Len(tasks) < MaxTasks
    /\ Add(RevisedTask(t, policy))
    /\ CompletionCapacity

-----------------------------------------------------------------------------
(* Controls before and after a run. *)

Unstarted == {"Proposed", "Approved"}

Assign(t) ==
    /\ ScopeOpen /\ Receipt
    /\ tasks[t].run = 0 /\ tasks[t].status \in Unstarted
    /\ Become(t, WithStatus(t, "Proposed"))
    /\ CompletionCapacity

Permit(t, policy) ==
    /\ ScopeOpen /\ Receipt
    /\ tasks[t].status \in Unstarted
    /\ Become(t, [WithStatus(t, "Proposed") EXCEPT !.policy = policy])
    /\ CompletionCapacity

Approve(t) ==
    /\ ScopeOpen /\ Receipt
    /\ tasks[t].status = "Proposed" /\ tasks[t].policy # NoPolicy
    /\ Become(t, WithStatus(t, "Approved"))
    /\ CompletionCapacity

Cancel(t) ==
    /\ Receipt
    /\ tasks[t].status \in Unstarted
    /\ Become(t, WithStatus(t, "Cancelled"))
    /\ CompletionCapacity

Requeue(t) ==
    /\ ScopeOpen /\ Receipt
    /\ CanRequeue(t)
    /\ Become(t, WithStatus(t, "Approved"))
    /\ CompletionCapacity

-----------------------------------------------------------------------------
(* Runs: a worker claims an approved task and publishes one result. *)

Claim(t, baseline, inputs) ==
    [tasks[t] EXCEPT !.status = "Running", !.run = @ + 1, !.baseline = baseline,
                     !.inputs = inputs, !.evidence = FALSE, !.passed = FALSE]

\* A repair repeats the inputs its parent's run recorded, anything else takes
\* the accepted sources of its dependencies.
RunInputs(t) ==
    IF tasks[t].parent # 0 THEN tasks[tasks[t].parent].inputs
    ELSE UNION {{[task |-> d, source |-> s, run |-> tasks[s].run] :
                    s \in DependencySources(d)} : d \in tasks[t].deps}

InputAccepted(i) ==
    /\ tasks[i.source].status = "Accepted"
    /\ tasks[i.source].run = i.run
    /\ tasks[i.source].evidence

Start(t, baseline) ==
    /\ ScopeOpen /\ Receipt
    /\ tasks[t].status = "Approved" /\ tasks[t].policy # NoPolicy
    /\ BindingCurrent(t)
    /\ WorkAllowed(t)
    /\ {i.task : i \in RunInputs(t)} = tasks[t].deps
    /\ \A i \in RunInputs(t) : InputAccepted(i)
    /\ tasks[t].parent # 0 =>
          /\ tasks[tasks[t].parent].run # 0
          /\ baseline = tasks[tasks[t].parent].baseline
    /\ Become(t, Claim(t, baseline, RunInputs(t)))
    /\ CompletionCapacity

Finish(t, status) ==
    /\ Receipt
    /\ status \in {"ReviewReady", "Failed", "Cancelled"}
    /\ tasks[t].status = "Running"
    /\ Become(t, [WithStatus(t, status) EXCEPT !.evidence = TRUE,
                                               !.passed = (status = "ReviewReady")])

-----------------------------------------------------------------------------
(* Reviews. *)

Approves(d) == d.outcome = "Approved"

ValidDecision(d) == Approves(d) => ~d.architecture /\ ~d.risk /\ d.criteria # "unmet"

Covers(t, criteria) == (criteria # "none") = Contract(t)

OutcomeStatus(d) ==
    CASE d.risk \/ d.outcome = "NeedsHumanReview" -> "NeedsHumanReview"
      [] ~d.risk /\ Approves(d)                   -> "Accepted"
      [] ~d.risk /\ ProposesRepair(d)             -> "Rejected"

\* Retained evidence is required before any review of a task.
Reviewable(t) == tasks[t].status # "Running" /\ tasks[t].run # 0 /\ tasks[t].evidence

\* Fault: an approval is recorded whatever the run's check said.
AnyApproval(t, d) == TRUE

\* Approval needs the review-ready Finish receipt of the current run.
ApprovalEarned(t, d) == Approves(d) => tasks[t].passed

CanDecide(t, d) ==
    /\ Reviewable(t)
    /\ tasks[t].status \in {"ReviewReady", "Failed", "NeedsHumanReview"}
    /\ ValidDecision(d) /\ Covers(t, d.criteria)
    /\ ApprovalEarned(t, d)
    /\ FamilyLive(t)

Decided(t, d) == [tasks[t] EXCEPT !.status = OutcomeStatus(d), !.decision = d]

\* Fault: /accept skips the recorded criteria.
AnyVerdict(t, accept) == TRUE

\* A task with recorded criteria is accepted through /review only.
PlainVerdict(t, accept) == accept => ~Contract(t)

Verdict(accept) == IF accept THEN "Accepted" ELSE "Rejected"

Review(t, accept) ==
    /\ Receipt
    /\ tasks[t].status = "ReviewReady"
    /\ Reviewable(t) /\ FamilyLive(t)
    /\ PlainVerdict(t, accept)
    /\ Become(t, WithStatus(t, Verdict(accept)))
    /\ CompletionCapacity

Assess(t, accept, criteria) ==
    /\ Receipt
    /\ tasks[t].status = "ReviewReady"
    /\ Reviewable(t) /\ FamilyLive(t)
    /\ Covers(t, criteria) /\ (accept => criteria # "unmet")
    /\ Become(t, [WithStatus(t, Verdict(accept))
                    EXCEPT !.assessed = IF accept THEN "accept" ELSE "reject"])
    /\ CompletionCapacity

Decide(t, d) ==
    /\ Receipt
    /\ CanDecide(t, d)
    /\ ~(d.architecture /\ ProposesRepair(d))
    /\ Become(t, Decided(t, d))
    /\ CompletionCapacity

ReviewAndRepair(t, d) ==
    /\ ScopeOpen /\ Receipt
    /\ ProposesRepair(d) /\ ~d.architecture
    /\ CanDecide(t, d) /\ ~ArchitectureBlocked(t)
    /\ Repairable(t) /\ ~RepairIn(t, Open \cup Held)
    /\ Len(tasks) < MaxTasks
    /\ BecomeAndAdd(t, Decided(t, d), RepairTask(t))
    /\ CompletionCapacity

\* Failures recorded before this review; an Architect revision starts afresh.
PriorFailures(t) ==
    IF tasks[t].architect \/ tasks[t].parent = 0 THEN 0
    ELSE ArchitectureFailures(tasks[t].parent)

CanReviewArchitecture(t, d) ==
    /\ ScopeOpen
    /\ d.architecture /\ ProposesRepair(d)
    /\ CanDecide(t, d) /\ ~ArchitectureBlocked(t)
    /\ ~RepairIn(t, Open \cup Held)

\* The first architecture failure of an attempt proposes an ordinary repair...
RepairArchitecture(t, d) ==
    /\ Receipt
    /\ CanReviewArchitecture(t, d) /\ PriorFailures(t) = 0
    /\ Repairable(t) /\ Len(tasks) < MaxTasks
    /\ BecomeAndAdd(t, Decided(t, d), RepairTask(t))
    /\ CompletionCapacity

\* ... the next one routes the family to the Architect.
RouteToArchitect(t, d) ==
    /\ Receipt
    /\ CanReviewArchitecture(t, d) /\ PriorFailures(t) >= 1
    /\ Become(t, [Decided(t, d) EXCEPT !.routed = TRUE])
    /\ CompletionCapacity

\* The review that accepted t, if its contract demands one.
PassingReview(t) ==
    Contract(t) =>
        IF tasks[t].decision # NoDecision
        THEN Approves(tasks[t].decision) /\ tasks[t].decision.criteria = "met"
        ELSE tasks[t].assessed = "accept"

ResolveRepair(t) ==
    /\ ScopeOpen /\ Receipt
    /\ tasks[t].status = "Accepted" /\ tasks[t].parent # 0
    /\ tasks[t].passed
    /\ NotSuperseded(t) /\ ~ArchitectureBlocked(t) /\ ~FamilyResolved(t)
    /\ \A u \in Family(t) : tasks[u].status \notin Open \cup Held
    /\ PassingReview(t)
    /\ \A u \in Lineage(t) \ {t} :
          tasks[u].status \in {"Failed", "Rejected", "Cancelled"} /\ tasks[u].evidence
    /\ Become(t, [tasks[t] EXCEPT !.resolves = TRUE])
    /\ CompletionCapacity

\* The review branch of an accepted candidate is only recorded.
Branch(t) ==
    /\ Receipt
    /\ tasks[t].status = "Accepted" /\ tasks[t].passed
    /\ UNCHANGED tasks
    /\ CompletionCapacity

-----------------------------------------------------------------------------
(* The shared understanding, as far as tasks depend on it. *)

DraftScope ==
    /\ scope.revision + 2 <= MaxScope  \* its confirmation keeps a receipt
    /\ scope' = [revision |-> scope.revision + 1, open |-> FALSE]
    /\ UNCHANGED <<tasks, revision>>

ConfirmScope ==
    /\ ~scope.open /\ scope.revision < MaxScope
    /\ scope' = [revision |-> scope.revision + 1, open |-> TRUE]
    /\ UNCHANGED <<tasks, revision>>

NewWork ==
    \/ \E deps \in SUBSET Ids : Propose(deps)
    \/ \E shape \in PlanShapes, policy \in Policies : Plan(shape, policy)
    \/ \E t \in Ids : Repair(t)
    \/ \E t \in Ids, policy \in Policies : AdoptArchitecture(t, policy)

Control(t) ==
    \/ Assign(t)
    \/ \E policy \in Policies : Permit(t, policy)
    \/ Approve(t)
    \/ Cancel(t)
    \/ Requeue(t)
    \/ \E baseline \in Baselines : Start(t, baseline)
    \/ \E status \in Statuses : Finish(t, status)

ReviewStep(t) ==
    \/ \E accept \in BOOLEAN : Review(t, accept)
    \/ \E accept \in BOOLEAN, criteria \in {"none", "met", "unmet"} :
          Assess(t, accept, criteria)
    \/ \E d \in Decisions : Decide(t, d)
    \/ \E d \in Decisions : ReviewAndRepair(t, d)
    \/ \E d \in Decisions : RepairArchitecture(t, d)
    \/ \E d \in Decisions : RouteToArchitect(t, d)
    \/ ResolveRepair(t)
    \/ Branch(t)

Next ==
    \/ NewWork
    \/ \E t \in Ids : Control(t) \/ ReviewStep(t)
    \/ DraftScope
    \/ ConfirmScope

Spec == Init /\ [][Next]_vars

-----------------------------------------------------------------------------
(* Properties. *)

\* A task is accepted only on the evidence of its current run, which has a
\* review-ready Finish receipt.  Decide also takes failed and held work, and a
\* task may run again after a cancelled run, so no single guard says this.
AcceptedIsEarned ==
    \A t \in Ids : tasks[t].status = "Accepted" =>
        tasks[t].run # 0 /\ tasks[t].evidence /\ tasks[t].passed

\* Work that inherits acceptance criteria is accepted only by a recorded review
\* that found every one of them met, however it was accepted.
AcceptedMeetsContract ==
    \A t \in Ids : tasks[t].status = "Accepted" => PassingReview(t)

\* Every finished or running run rests on exactly the results it recorded: each
\* input's source is still accepted and has not run again since.
InputsStayExact ==
    \A t \in Ids : \A i \in tasks[t].inputs :
        /\ i.source \in Ids
        /\ tasks[i.source].status = "Accepted"
        /\ tasks[i.source].run = i.run
        /\ tasks[i.source].evidence
        /\ i.task \in tasks[t].deps

\* A family is resolved at most once, by an accepted repair whose unsuccessful
\* ancestors never become successful afterwards.
ResolutionIsFinal ==
    \A s \in Ids : tasks[s].resolves =>
        /\ tasks[s].status = "Accepted"
        /\ \A u \in Family(s) \ {s} : ~tasks[u].resolves
        /\ \A u \in Lineage(s) \ {s} : tasks[u].status # "Accepted"
        /\ \A u \in Family(s) : tasks[u].status \notin {"Running", "ReviewReady", "NeedsHumanReview"}

\* The result a consumer of d would be given, once there is one, never changes:
\* two consumers of the same dependency cannot build on different results.
DependencySourceStable ==
    [][\A d \in Ids : DependencySources(d) # {} =>
          DependencySources(d)' = DependencySources(d)]_vars

\* No repaired, reviewed, requeued or superseded path leads out of a final
\* outcome: an accepted or rejected run is never replaced or re-decided.
FinalOutcomes ==
    [][\A t \in Ids : tasks[t].status \in {"Accepted", "Rejected"} =>
          /\ tasks[t].status' = tasks[t].status
          /\ tasks[t].run' = tasks[t].run]_vars

\* Once an Architect revision is adopted, the branches of the family it
\* replaced do no further work and none of them is held or awaits review.
SupersededIsDormant ==
    \A t \in Ids : ArchitectureObsolete(t) =>
        tasks[t].status \notin {"Running", "ReviewReady", "NeedsHumanReview"}

\* A route to the Architect stays pending until a revision of the routed task
\* is adopted: no later review, repair or requeue unblocks the family.
RouteStaysPending ==
    \A t \in Ids : tasks[t].routed =>
        /\ Cardinality({u \in Lineage(t) : tasks[u].decision.architecture}) >= 2
        /\ Adoptions(t) = {} => ArchitectureRequired(t)

\* While a repair of p is held for human review, p gets no other repair.
HeldRepairIsExclusive ==
    [][\A p \in Ids : RepairIn(p, {"NeedsHumanReview"}) /\ Len(tasks') > Len(tasks) =>
          tasks'[Len(tasks')].parent # p]_vars

\* Whatever else is saved, there is a receipt left for every running worker's
\* result, so an outcome is never lost to a full journal.
ResultsHaveRoom ==
    revision + Cardinality(RunningIn(tasks)) <= MaxReceipts

\* No plan's task starts, and no task is created, while the understanding is
\* pending or (for a planned task) after it moved on.
WorkFollowsScope ==
    [][(\/ Len(tasks') > Len(tasks)
        \/ \E t \in Ids : tasks[t].status # "Running" /\ tasks'[t].status = "Running")
       => /\ scope.open
          /\ \A t \in Ids : /\ tasks[t].planned
                             /\ tasks[t].status # "Running"
                             /\ tasks'[t].status = "Running"
                            => tasks[t].bound = scope.revision]_vars

\* What becomes of a family through repairs, routes, revisions and requeues in
\* whatever order: it is resolved once and for all, a route stays pending until
\* it is answered, and the branches a revision replaced stay dormant.
LineagesHold ==
    /\ ResolutionIsFinal
    /\ SupersededIsDormant
    /\ RouteStaysPending

\* Nothing in a family is decided twice: consumers never get another result,
\* and a repair that a human holds gets no rival.
OneAnswerPerFamily == DependencySourceStable /\ HeldRepairIsExclusive
=============================================================================
