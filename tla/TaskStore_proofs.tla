--------------------------- MODULE TaskStore_proofs ---------------------------
(***************************************************************************)
(* Proofs about the task state machine, for any number of tasks, receipts, *)
(* policies, baselines, plans and review decisions; and, from              *)
(* "Repositories, field by field" on, about the git tools of a chat that   *)
(* write, for any files, branches, histories, calls and writes of others.  *)
(***************************************************************************)
EXTENDS TaskStore, GitWriteInvariant, FiniteSetTheorems, WellFoundedInduction, TLAPS

-----------------------------------------------------------------------------
(* What a transaction may do to the sequence of tasks. *)

\* Replacing a task by one with the same parent and dependencies.
LEMMA ReplaceWellFormed ==
    ASSUME NEW ts, WellFormed(ts), NEW t \in 1..Len(ts), NEW task \in Task,
           task.parent = ts[t].parent, task.deps = ts[t].deps
    PROVE  /\ WellFormed([ts EXCEPT ![t] = task])
           /\ Len([ts EXCEPT ![t] = task]) = Len(ts)
  BY DEF WellFormed

\* Adding a task whose parent and dependencies exist already.
LEMMA AppendWellFormed ==
    ASSUME NEW ts, WellFormed(ts), Len(ts) < MaxTasks, NEW task \in Task,
           task.parent <= Len(ts), \A d \in task.deps : d <= Len(ts)
    PROVE  WellFormed(Append(ts, task))
<1>1. ts \in Seq(Task) /\ Len(ts) \in Nat
  BY DEF WellFormed
<1>2. /\ Append(ts, task) \in Seq(Task)
      /\ Len(Append(ts, task)) = Len(ts) + 1
      /\ Append(ts, task)[Len(ts) + 1] = task
      /\ \A u \in 1..Len(ts) : Append(ts, task)[u] = ts[u]
  BY <1>1
<1>3. task.parent \in Nat /\ \A d \in task.deps : d \in Nat
  BY BoundsAssumption DEF Task, TaskIds
<1>4. ASSUME NEW u \in 1..(Len(ts) + 1)
      PROVE  /\ Append(ts, task)[u].parent < u
             /\ \A d \in Append(ts, task)[u].deps : d < u
  <2>1. CASE u = Len(ts) + 1
    BY <2>1, <1>1, <1>2, <1>3
  <2>2. CASE u # Len(ts) + 1
    <3>1. u \in 1..Len(ts)
      BY <2>2, <1>1
    <3> QED BY <3>1, <1>2 DEF WellFormed
  <2> QED BY <2>1, <2>2
<1> QED BY <1>1, <1>2, <1>4, BoundsAssumption DEF WellFormed

-----------------------------------------------------------------------------
(* The inductive invariant.  Accepted and review-ready work has passed, what*)
(* passed has run and is sealed, and recorded inputs are still accepted.    *)

Backed(task) ==
    /\ task.status \in {"Accepted", "ReviewReady"} => task.passed
    /\ task.passed => task.run # 0 /\ task.evidence
    /\ task.status = "Running" => task.run # 0

IInv ==
    /\ TypeOK
    /\ \A t \in Ids : Backed(tasks[t])
    /\ InputsStayExact

\* An accepted or rejected task keeps its outcome, run and evidence.
Kept(old, new) ==
    old.status \in {"Accepted", "Rejected"} =>
        new.status = old.status /\ new.run = old.run /\ new.evidence = old.evidence

Exact(i, deps) == InputAccepted(i) /\ i.source \in Ids /\ i.task \in deps

\* What every transaction may turn the existing task t into.
Legal(t, task) ==
    /\ task \in Task
    /\ task.parent = tasks[t].parent /\ task.deps = tasks[t].deps
    /\ Backed(task) /\ Kept(tasks[t], task)
    /\ \/ task.inputs = tasks[t].inputs
       \/ \A i \in task.inputs : Exact(i, task.deps)

\* What every transaction may add as task number n.
Fresh(n, task) ==
    /\ task \in Task
    /\ task.parent < n /\ \A d \in task.deps : d < n
    /\ Backed(task) /\ task.inputs = {}

Moves ==
    \/ UNCHANGED tasks
    \/ \E t \in Ids : \E task \in Task : Legal(t, task) /\ Become(t, task)
    \/ /\ Len(tasks) < MaxTasks
       /\ \E task \in Task : Fresh(Len(tasks) + 1, task) /\ Add(task)
    \/ /\ Len(tasks) < MaxTasks
       /\ \E t \in Ids : \E task, new \in Task :
             Legal(t, task) /\ Fresh(Len(tasks) + 1, new) /\ BecomeAndAdd(t, task, new)
    \/ \E news \in Seq(Task) :
          /\ Len(tasks) + Len(news) <= MaxTasks
          /\ \A i \in 1..Len(news) : Fresh(Len(tasks) + i, news[i])
          /\ tasks' = tasks \o news

-----------------------------------------------------------------------------
(* Every transaction is one of these moves. *)

LEMMA NewTaskFresh ==
    ASSUME NEW n \in Nat, NEW deps \in SUBSET TaskIds, \A d \in deps : d < n,
           NEW policy \in Policies \cup {NoPolicy},
           NEW parent \in 0..MaxTasks, parent < n
    PROVE  Fresh(n, NewTask(deps, policy, parent))
  BY DEF Fresh, Backed, NewTask, Task, Statuses, Input

LEMMA TaskAt ==
    ASSUME TypeOK, NEW t \in Ids
    PROVE  /\ tasks[t] \in Task
           /\ tasks[t].parent \in 0..MaxTasks /\ tasks[t].parent < t
           /\ \A d \in tasks[t].deps : d \in TaskIds /\ d < t
           /\ t \in TaskIds /\ t <= Len(tasks) /\ Len(tasks) \in Nat
<1>1. tasks \in Seq(Task) /\ Len(tasks) <= MaxTasks
  BY DEF TypeOK, WellFormed
<1>2. tasks[t] \in Task
  BY <1>1 DEF Ids
<1>3. tasks[t].parent \in 0..MaxTasks /\ tasks[t].deps \in SUBSET TaskIds
  BY <1>2 DEF Task
<1> QED BY <1>1, <1>2, <1>3, BoundsAssumption DEF TypeOK, WellFormed, Ids, TaskIds

LEMMA StatusTyped ==
    ASSUME NEW t, tasks[t] \in Task, NEW status \in Statuses
    PROVE  WithStatus(t, status) \in Task
  BY DEF WithStatus, Task

\* Changing only a task's status, to one its run has earned.
LEMMA StatusLegal ==
    ASSUME IInv, NEW t \in Ids, NEW status \in Statuses \ {"Running"},
           tasks[t].status \notin {"Accepted", "Rejected"},
           status \in {"Accepted", "ReviewReady"} => tasks[t].passed
    PROVE  Legal(t, WithStatus(t, status))
<1>1. tasks[t] \in Task /\ Backed(tasks[t])
  BY TaskAt DEF IInv
<1>2. WithStatus(t, status) \in Task
  BY <1>1, StatusTyped
<1> QED BY <1>1, <1>2 DEF Legal, Backed, Kept, WithStatus, Task

\* What a move may do to a task depends on these fields only.
SameRun(task, new) ==
    /\ new.status = task.status /\ new.run = task.run /\ new.passed = task.passed
    /\ new.evidence = task.evidence /\ new.inputs = task.inputs
    /\ new.parent = task.parent /\ new.deps = task.deps

LEMMA SameRunLegal ==
    ASSUME NEW t \in Ids, NEW task, Legal(t, task), NEW new \in Task, SameRun(task, new)
    PROVE  Legal(t, new)
  BY DEF Legal, Backed, Kept, SameRun

LEMMA SameRunFresh ==
    ASSUME NEW n, NEW task, Fresh(n, task), NEW new \in Task, SameRun(task, new)
    PROVE  Fresh(n, new)
  BY DEF Fresh, Backed, SameRun

\* Nothing a run has earned depends on the policy or on the marks of reviews.
LEMMA MarksLegal ==
    ASSUME NEW t \in Ids, NEW task, Legal(t, task)
    PROVE  /\ \A p \in Policies \cup {NoPolicy} : Legal(t, [task EXCEPT !.policy = p])
           /\ \A mark \in {"none", "accept", "reject"} :
                Legal(t, [task EXCEPT !.assessed = mark])
           /\ Legal(t, [task EXCEPT !.routed = TRUE])
           /\ Legal(t, [task EXCEPT !.resolves = TRUE])
<1>1. task \in Task
  BY DEF Legal
<1>2. ASSUME NEW p \in Policies \cup {NoPolicy}
      PROVE  Legal(t, [task EXCEPT !.policy = p])
  <2> DEFINE permitted == [task EXCEPT !.policy = p]
  <2>1. permitted \in Task /\ SameRun(task, permitted)
    BY <1>1 DEF Task, SameRun
  <2> QED BY <2>1, SameRunLegal
<1>3. ASSUME NEW mark \in {"none", "accept", "reject"}
      PROVE  Legal(t, [task EXCEPT !.assessed = mark])
  <2> DEFINE new == [task EXCEPT !.assessed = mark]
  <2>1. new \in Task /\ SameRun(task, new)
    BY <1>1 DEF Task, SameRun
  <2> QED BY <2>1, SameRunLegal
<1>4. Legal(t, [task EXCEPT !.routed = TRUE])
  <2> DEFINE new == [task EXCEPT !.routed = TRUE]
  <2>1. new \in Task /\ SameRun(task, new)
    BY <1>1 DEF Task, SameRun
  <2> QED BY <2>1, SameRunLegal
<1>5. Legal(t, [task EXCEPT !.resolves = TRUE])
  <2> DEFINE new == [task EXCEPT !.resolves = TRUE]
  <2>1. new \in Task /\ SameRun(task, new)
    BY <1>1 DEF Task, SameRun
  <2> QED BY <2>1, SameRunLegal
<1> QED BY <1>2, <1>3, <1>4, <1>5

\* The first disjuncts of a move, for use by the actions.
LEMMA BecomeMoves ==
    ASSUME NEW t \in Ids, NEW task, Legal(t, task), Become(t, task)
    PROVE  Moves
  BY DEF Moves, Legal

LEMMA AddMoves ==
    ASSUME NEW task, Fresh(Len(tasks) + 1, task), Len(tasks) < MaxTasks, Add(task)
    PROVE  Moves
  BY DEF Moves, Fresh

LEMMA RunControlsMove ==
    ASSUME IInv, NEW t \in Ids,
           \/ Assign(t)
           \/ \E policy \in Policies : Permit(t, policy)
           \/ Approve(t)
           \/ Cancel(t)
           \/ Requeue(t)
    PROVE  Moves
<1>1. tasks[t] \in Task /\ Backed(tasks[t])
  BY TaskAt DEF IInv
<1>2. tasks[t].status \notin {"Accepted", "Rejected"}
  BY DEF Assign, Permit, Approve, Cancel, Requeue, CanRequeue, Unstarted
<1>3. ASSUME NEW status \in {"Proposed", "Approved", "Cancelled"}
      PROVE  Legal(t, WithStatus(t, status))
  BY <1>2, StatusLegal DEF Statuses
<1>4. CASE Assign(t)
  BY <1>3, <1>4, BecomeMoves DEF Assign
<1>5. CASE \E policy \in Policies : Permit(t, policy)
  <2>1. PICK policy \in Policies : Permit(t, policy)
    BY <1>5
  <2> DEFINE task == [WithStatus(t, "Proposed") EXCEPT !.policy = policy]
  <2>2. Legal(t, task)
    BY <1>3, MarksLegal
  <2> QED BY <2>1, <2>2, BecomeMoves DEF Permit
<1>6. CASE Approve(t)
  BY <1>3, <1>6, BecomeMoves DEF Approve
<1>7. CASE Cancel(t)
  BY <1>3, <1>7, BecomeMoves DEF Cancel
<1>8. CASE Requeue(t)
  BY <1>3, <1>8, BecomeMoves DEF Requeue
<1> QED BY <1>4, <1>5, <1>6, <1>7, <1>8

\* A claimed task is a task.
LEMMA ClaimTyped ==
    ASSUME NEW t, tasks[t] \in Task, NEW baseline \in Baselines,
           NEW inputs \in SUBSET Input
    PROVE  Claim(t, baseline, inputs) \in Task
<1> DEFINE started == [tasks[t] EXCEPT !.status = "Running", !.run = @ + 1]
           based == [started EXCEPT !.baseline = baseline, !.inputs = inputs]
           claimed == [based EXCEPT !.evidence = FALSE, !.passed = FALSE]
<1>1. started \in Task
  <2>1. tasks[t].run + 1 \in Nat
    BY DEF Task
  <2> QED BY <2>1 DEF Task, Statuses
<1>2. based \in Task
  <2> HIDE DEF started
  <2> QED BY <1>1 DEF Task
<1>3. claimed \in Task
  <2> HIDE DEF based
  <2> QED BY <1>2, ZenonT(30) DEF Task
<1>4. claimed = Claim(t, baseline, inputs)
  BY DEF Claim, Task
<1> QED BY <1>3, <1>4

LEMMA StartMoves ==
    ASSUME IInv, NEW t \in Ids, NEW baseline \in Baselines, Start(t, baseline)
    PROVE  Moves
<1>1. tasks[t] \in Task /\ Backed(tasks[t])
  BY TaskAt DEF IInv
<1> DEFINE task == Claim(t, baseline, RunInputs(t))
<1>2. RunInputs(t) \subseteq Input /\ \A i \in RunInputs(t) : i.source \in Ids
  <2>1. CASE tasks[t].parent # 0
    <3> DEFINE p == tasks[t].parent
    <3>1. p \in Ids
      BY <2>1, TaskAt DEF IInv, Ids
    <3>2. tasks[p] \in Task
      BY <3>1, TaskAt DEF IInv
    <3>3. RunInputs(t) = tasks[p].inputs
      BY <2>1 DEF RunInputs
    <3>4. \A i \in tasks[p].inputs : i.source \in Ids
      BY <3>1 DEF IInv, InputsStayExact
    <3> QED BY <3>2, <3>3, <3>4 DEF Task
  <2>2. CASE tasks[t].parent = 0
    <3>1. ASSUME NEW d \in tasks[t].deps, NEW s \in DependencySources(d)
          PROVE  /\ d \in TaskIds /\ s \in Ids
                 /\ [task |-> d, source |-> s, run |-> tasks[s].run] \in Input
      <4>1. d \in TaskIds /\ d < t /\ t <= Len(tasks) /\ Len(tasks) \in Nat
        BY TaskAt DEF IInv
      <4>2. d \in Ids
        BY <4>1, BoundsAssumption DEF Ids, TaskIds
      <4>3. s \in Ids
        BY <4>2 DEF DependencySources, ResolvedBy
      <4>4. tasks[s] \in Task /\ s \in TaskIds
        BY <4>3, TaskAt DEF IInv
      <4> QED BY <4>1, <4>3, <4>4 DEF Input, Task
    <3> QED BY <2>2, <3>1 DEF RunInputs
  <2>3. tasks[t].parent \in Nat
    BY TaskAt, BoundsAssumption DEF IInv
  <2> QED BY <2>1, <2>2
<1>3. task \in Task
  BY <1>1, <1>2, ClaimTyped
<1>4. \A i \in task.inputs : Exact(i, task.deps)
  <2>1. task.inputs = RunInputs(t) /\ task.deps = tasks[t].deps
    BY <1>1 DEF Claim, Task
  <2>2. {i.task : i \in RunInputs(t)} = tasks[t].deps
        /\ \A i \in RunInputs(t) : InputAccepted(i)
    BY DEF Start
  <2> QED BY <1>2, <2>1, <2>2 DEF Exact
<1>5. task.run # 0
  BY <1>1 DEF Claim, Task
<1>6. Legal(t, task)
  BY <1>1, <1>3, <1>4, <1>5 DEF Legal, Backed, Kept, Claim, Task, Start
<1> QED BY <1>6, BecomeMoves DEF Start

LEMMA FinishMoves ==
    ASSUME IInv, NEW t \in Ids, NEW status \in Statuses, Finish(t, status)
    PROVE  Moves
<1> DEFINE task == [WithStatus(t, status) EXCEPT !.evidence = TRUE,
                                                 !.passed = (status = "ReviewReady")]
<1>1. tasks[t] \in Task /\ Backed(tasks[t])
  BY TaskAt DEF IInv
<1>2. WithStatus(t, status) \in Task
  BY <1>1, StatusTyped
<1>3. (status = "ReviewReady") \in BOOLEAN
  OBVIOUS
<1>4. task \in Task
  BY <1>2, <1>3, ZenonT(30) DEF Task
<1>5. /\ task.status = status /\ task.evidence
      /\ task.passed = (status = "ReviewReady")
      /\ task.run = tasks[t].run /\ task.inputs = tasks[t].inputs
      /\ task.parent = tasks[t].parent /\ task.deps = tasks[t].deps
  BY <1>1 DEF WithStatus, Task
<1>6. tasks[t].status = "Running" /\ status \in {"ReviewReady", "Failed", "Cancelled"}
  BY DEF Finish
<1>7. Legal(t, task)
  BY <1>1, <1>4, <1>5, <1>6 DEF Legal, Backed, Kept
<1> QED BY <1>7, BecomeMoves DEF Finish

\* What a decision makes of a task.
LEMMA OutcomeTyped ==
    ASSUME NEW d \in Decisions
    PROVE  /\ OutcomeStatus(d) \in {"NeedsHumanReview", "Accepted", "Rejected"}
           /\ OutcomeStatus(d) = "Accepted" => Approves(d)
<1>1. d \in Decision
  BY DecisionAssumption
<1> QED BY <1>1 DEF OutcomeStatus, ProposesRepair, Approves, Decision, Outcomes

LEMMA DecidedLegal ==
    ASSUME IInv, NEW t \in Ids, NEW d \in Decisions, CanDecide(t, d)
    PROVE  Legal(t, Decided(t, d))
<1>1. tasks[t] \in Task /\ Backed(tasks[t])
  BY TaskAt DEF IInv
<1>2. OutcomeStatus(d) \in Statuses \ {"Running", "ReviewReady"}
  BY OutcomeTyped DEF Statuses
<1>3. Decided(t, d) \in Task
  BY <1>1, <1>2 DEF Decided, Task
<1>4. tasks[t].status \notin {"Accepted", "Rejected"}
  BY DEF CanDecide
<1>5. OutcomeStatus(d) = "Accepted" => tasks[t].passed
  BY OutcomeTyped DEF CanDecide, ApprovalEarned
<1>6. /\ Decided(t, d).status = OutcomeStatus(d)
      /\ Decided(t, d).passed = tasks[t].passed
      /\ Decided(t, d).run = tasks[t].run
      /\ Decided(t, d).evidence = tasks[t].evidence
      /\ Decided(t, d).inputs = tasks[t].inputs
      /\ Decided(t, d).parent = tasks[t].parent
      /\ Decided(t, d).deps = tasks[t].deps
  BY <1>1 DEF Decided, Task
<1> QED BY <1>1, <1>2, <1>3, <1>4, <1>5, <1>6 DEF Legal, Backed, Kept

\* A plain verdict on review-ready work.
LEMMA VerdictLegal ==
    ASSUME IInv, NEW t \in Ids, NEW accept \in BOOLEAN,
           tasks[t].status = "ReviewReady"
    PROVE  Legal(t, WithStatus(t, Verdict(accept)))
<1>1. tasks[t].passed
  BY DEF IInv, Backed
<1>2. Verdict(accept) \in Statuses \ {"Running"}
  BY DEF Verdict, Statuses
<1> QED BY <1>1, <1>2, StatusLegal

LEMMA ReviewsMove ==
    ASSUME IInv, NEW t \in Ids,
           \/ \E accept \in BOOLEAN : Review(t, accept)
           \/ \E accept \in BOOLEAN, criteria \in {"none", "met", "unmet"} :
                 Assess(t, accept, criteria)
           \/ \E d \in Decisions : Decide(t, d) \/ RouteToArchitect(t, d)
           \/ ResolveRepair(t)
           \/ Branch(t)
    PROVE  Moves
<1>1. tasks[t] \in Task /\ Backed(tasks[t])
  BY TaskAt DEF IInv
<1>2. ASSUME NEW accept \in BOOLEAN, Review(t, accept)
      PROVE  Moves
  <2>1. Legal(t, WithStatus(t, Verdict(accept)))
    BY <1>2, VerdictLegal DEF Review
  <2> QED BY <1>2, <2>1, BecomeMoves DEF Review
<1>3. ASSUME NEW accept \in BOOLEAN, NEW criteria \in {"none", "met", "unmet"},
             Assess(t, accept, criteria)
      PROVE  Moves
  <2> DEFINE verdict == WithStatus(t, Verdict(accept))
             mark == IF accept THEN "accept" ELSE "reject"
             task == [verdict EXCEPT !.assessed = mark]
  <2>1. Legal(t, verdict)
    BY <1>3, VerdictLegal DEF Assess
  <2>2. Legal(t, task)
    <3>1. mark \in {"none", "accept", "reject"}
      OBVIOUS
    <3> HIDE DEF verdict, mark
    <3> QED BY <2>1, <3>1, MarksLegal
  <2> QED BY <1>3, <2>2, BecomeMoves DEF Assess
<1>4. ASSUME NEW d \in Decisions, Decide(t, d) \/ RouteToArchitect(t, d)
      PROVE  Moves
  <2>1. CanDecide(t, d)
    BY <1>4 DEF Decide, RouteToArchitect, CanReviewArchitecture
  <2> DEFINE decided == Decided(t, d)
             routed == [decided EXCEPT !.routed = TRUE]
  <2>2. Legal(t, decided)
    BY <2>1, DecidedLegal
  <2>3. Legal(t, routed)
    BY <2>2, MarksLegal
  <2> QED BY <1>4, <2>2, <2>3, BecomeMoves DEF Decide, RouteToArchitect
<1>5. CASE ResolveRepair(t)
  <2> DEFINE task == [tasks[t] EXCEPT !.resolves = TRUE]
  <2>1. Legal(t, tasks[t])
    BY <1>1 DEF Legal, Kept
  <2>2. Legal(t, task)
    BY <2>1, MarksLegal
  <2> QED BY <1>5, <2>2, BecomeMoves DEF ResolveRepair
<1>6. CASE Branch(t)
  BY <1>6 DEF Branch, Moves
<1> QED BY <1>2, <1>3, <1>4, <1>5, <1>6

\* A repair repeats the dependencies of the task it repairs.
LEMMA RepairFresh ==
    ASSUME TypeOK, NEW t \in Ids
    PROVE  Fresh(Len(tasks) + 1, RepairTask(t))
<1>1. tasks[t].deps \in SUBSET TaskIds /\ tasks[t].policy \in Policies \cup {NoPolicy}
  BY TaskAt DEF Task
<1>2. /\ Len(tasks) + 1 \in Nat /\ t \in 0..MaxTasks /\ t < Len(tasks) + 1
      /\ \A d \in tasks[t].deps : d < Len(tasks) + 1
  <2>1. t \in 1..MaxTasks /\ t <= Len(tasks) /\ Len(tasks) \in Nat
    BY TaskAt DEF TaskIds
  <2>2. \A d \in tasks[t].deps : d \in 1..MaxTasks /\ d < t
    BY TaskAt DEF TaskIds
  <2> QED BY <2>1, <2>2, BoundsAssumption
<1> QED BY <1>1, <1>2, NewTaskFresh DEF RepairTask

LEMMA RevisedFresh ==
    ASSUME TypeOK, NEW t \in Ids, NEW policy \in Policies
    PROVE  Fresh(Len(tasks) + 1, RevisedTask(t, policy))
<1> DEFINE new == NewTask(tasks[t].deps, policy, t)
<1>1. tasks[t].deps \in SUBSET TaskIds
  BY TaskAt DEF Task
<1>2. /\ Len(tasks) + 1 \in Nat /\ t \in 0..MaxTasks /\ t < Len(tasks) + 1
      /\ \A d \in tasks[t].deps : d < Len(tasks) + 1
  <2>1. t \in 1..MaxTasks /\ t <= Len(tasks) /\ Len(tasks) \in Nat
    BY TaskAt DEF TaskIds
  <2>2. \A d \in tasks[t].deps : d \in 1..MaxTasks /\ d < t
    BY TaskAt DEF TaskIds
  <2> QED BY <2>1, <2>2, BoundsAssumption
<1>3. Fresh(Len(tasks) + 1, new)
  BY <1>1, <1>2, NewTaskFresh
<1>4. scope.revision \in Nat
  BY BoundsAssumption DEF TypeOK
<1>5. RevisedTask(t, policy) =
        [new EXCEPT !.planned = TRUE, !.contract = TRUE, !.architect = TRUE,
                    !.bound = scope.revision]
  BY DEF RevisedTask
<1> HIDE DEF new
<1>6. new \in Task
  BY <1>3 DEF Fresh
<1>7. RevisedTask(t, policy) \in Task
  BY <1>4, <1>5, <1>6, ZenonT(30) DEF Task
<1>8. SameRun(new, RevisedTask(t, policy))
  BY <1>5, <1>6 DEF SameRun, Task
<1> QED BY <1>3, <1>7, <1>8, SameRunFresh

LEMMA PlannedFresh ==
    ASSUME TypeOK, NEW shape \in PlanShapes, NEW policy \in Policies,
           Len(tasks) + Len(shape) <= MaxTasks, NEW i \in 1..Len(shape)
    PROVE  Fresh(Len(tasks) + i, PlannedTask(shape[i], policy))
<1> DEFINE deps == {Len(tasks) + d : d \in shape[i].deps}
           new == NewTask(deps, policy, 0)
<1>1. shape \in Seq([deps : SUBSET Nat, contract : BOOLEAN]) /\ Len(tasks) \in Nat
  BY PlanAssumption DEF TypeOK, WellFormed
<1>2. shape[i].contract \in BOOLEAN /\ Len(shape) \in Nat
  <2> DEFINE Steps == [deps : SUBSET Nat, contract : BOOLEAN]
  <2>1. shape \in Seq(Steps)
    BY <1>1
  <2>2. shape[i] \in Steps /\ Len(shape) \in Nat
    <3> HIDE DEF Steps
    <3> QED BY <2>1
  <2> QED BY <2>2
<1>3. \A d \in shape[i].deps : d \in 1..(i - 1)
  BY PlanAssumption
<1>4. deps \subseteq TaskIds /\ \A d \in deps : d < Len(tasks) + i
  BY <1>1, <1>2, <1>3, BoundsAssumption DEF TaskIds
<1>5. Len(tasks) + i \in Nat /\ 0 < Len(tasks) + i /\ 0 \in 0..MaxTasks
  BY <1>1, BoundsAssumption
<1>6. Fresh(Len(tasks) + i, new)
  <2> HIDE DEF deps
  <2> QED BY <1>4, <1>5, NewTaskFresh
<1>7. scope.revision \in Nat
  BY BoundsAssumption DEF TypeOK
<1>8. PlannedTask(shape[i], policy) =
        [new EXCEPT !.planned = TRUE, !.contract = shape[i].contract,
                    !.bound = scope.revision]
  BY DEF PlannedTask
<1> HIDE DEF new
<1>9. new \in Task
  BY <1>6 DEF Fresh
<1>10. PlannedTask(shape[i], policy) \in Task
  BY <1>2, <1>7, <1>8, <1>9 DEF Task
<1>11. SameRun(new, PlannedTask(shape[i], policy))
  BY <1>8, <1>9 DEF SameRun, Task
<1> QED BY <1>6, <1>10, <1>11, SameRunFresh

LEMMA NewWorkMoves ==
    ASSUME IInv, NewWork
    PROVE  Moves
<1>1. TypeOK /\ Len(tasks) \in Nat
  BY DEF IInv, TypeOK, WellFormed
<1>2. ASSUME NEW deps \in SUBSET Ids, Propose(deps)
      PROVE  Moves
  <2>1. /\ deps \in SUBSET TaskIds /\ NoPolicy \in Policies \cup {NoPolicy}
        /\ \A d \in deps : d < Len(tasks) + 1
        /\ Len(tasks) + 1 \in Nat /\ 0 \in 0..MaxTasks /\ 0 < Len(tasks) + 1
    BY <1>1, BoundsAssumption DEF Ids, TaskIds, TypeOK, WellFormed
  <2>2. Fresh(Len(tasks) + 1, NewTask(deps, NoPolicy, 0))
    BY <2>1, NewTaskFresh
  <2> QED BY <1>2, <2>2, AddMoves DEF Propose
<1>3. ASSUME NEW shape \in PlanShapes, NEW policy \in Policies, Plan(shape, policy)
      PROVE  Moves
  <2> DEFINE news == [i \in 1..Len(shape) |-> PlannedTask(shape[i], policy)]
  <2>1. Len(tasks) + Len(shape) <= MaxTasks /\ tasks' = tasks \o news
    BY <1>3 DEF Plan
  <2>2. \A i \in 1..Len(shape) : Fresh(Len(tasks) + i, PlannedTask(shape[i], policy))
    BY <1>1, <2>1, PlannedFresh
  <2>3. Len(shape) \in Nat
    BY PlanAssumption
  <2>4. \A i \in 1..Len(shape) : news[i] = PlannedTask(shape[i], policy)
    OBVIOUS
  <2>5. \A i \in 1..Len(shape) : news[i] \in Task /\ Fresh(Len(tasks) + i, news[i])
    BY <2>2, <2>4 DEF Fresh
  <2>6. news \in Seq(Task) /\ Len(news) = Len(shape)
    <3>1. \A i \in 1..Len(shape) : PlannedTask(shape[i], policy) \in Task
      BY <2>4, <2>5
    <3> QED BY <2>3, <3>1
  <2> HIDE DEF news
  <2> QED BY <2>1, <2>5, <2>6 DEF Moves
<1>4. ASSUME NEW t \in Ids, Repair(t)
      PROVE  Moves
  BY <1>1, <1>4, RepairFresh, AddMoves DEF Repair
<1>5. ASSUME NEW t \in Ids, NEW policy \in Policies, AdoptArchitecture(t, policy)
      PROVE  Moves
  BY <1>1, <1>5, RevisedFresh, AddMoves DEF AdoptArchitecture
<1> QED BY <1>2, <1>3, <1>4, <1>5 DEF NewWork

\* A review that proposes a repair in the same transaction.
LEMMA ReviewAndRepairMoves ==
    ASSUME IInv, NEW t \in Ids, NEW d \in Decisions,
           ReviewAndRepair(t, d) \/ RepairArchitecture(t, d)
    PROVE  Moves
<1>1. CanDecide(t, d) /\ Len(tasks) < MaxTasks
      /\ BecomeAndAdd(t, Decided(t, d), RepairTask(t))
  BY DEF ReviewAndRepair, RepairArchitecture, CanReviewArchitecture
<1>2. Legal(t, Decided(t, d))
  BY <1>1, DecidedLegal
<1>3. Fresh(Len(tasks) + 1, RepairTask(t))
  BY RepairFresh DEF IInv
<1> QED BY <1>1, <1>2, <1>3 DEF Moves, Legal, Fresh

LEMMA EveryStepMoves ==
    ASSUME IInv, [Next]_vars
    PROVE  Moves
<1>1. CASE NewWork
  BY <1>1, NewWorkMoves
<1>2. ASSUME NEW t \in Ids, Control(t)
      PROVE  Moves
  BY <1>2, RunControlsMove, StartMoves, FinishMoves DEF Control
<1>3. ASSUME NEW t \in Ids, ReviewStep(t)
      PROVE  Moves
  BY <1>3, ReviewsMove, ReviewAndRepairMoves DEF ReviewStep
<1>4. CASE DraftScope \/ ConfirmScope \/ UNCHANGED vars
  BY <1>4 DEF DraftScope, ConfirmScope, vars, Moves
<1> QED BY <1>1, <1>2, <1>3, <1>4 DEF Next

-----------------------------------------------------------------------------
(* What a move preserves. *)

\* Task by task: an old task is turned into a legal one, a new one is fresh.
LEMMA MovesPointwise ==
    ASSUME IInv, Moves
    PROVE  /\ WellFormed(tasks')
           /\ Len(tasks) <= Len(tasks')
           /\ \A u \in Ids : Legal(u, tasks'[u])
           /\ \A u \in 1..Len(tasks') : u \notin Ids => Fresh(u, tasks'[u])
<1>1. WellFormed(tasks) /\ tasks \in Seq(Task) /\ Len(tasks) \in Nat
  BY DEF IInv, TypeOK, WellFormed
<1>2. \A u \in Ids : Legal(u, tasks[u])
  <2> SUFFICES ASSUME NEW u \in Ids
               PROVE  Legal(u, tasks[u])
    OBVIOUS
  <2>1. tasks[u] \in Task /\ Backed(tasks[u])
    BY TaskAt DEF IInv
  <2> QED BY <2>1 DEF Legal, Kept
<1>3. ASSUME NEW t \in Ids, NEW task \in Task, Legal(t, task)
      PROVE  LET ts == [tasks EXCEPT ![t] = task]
             IN  /\ WellFormed(ts) /\ ts \in Seq(Task) /\ Len(ts) = Len(tasks)
                 /\ \A u \in Ids : Legal(u, ts[u])
  <2> DEFINE ts == [tasks EXCEPT ![t] = task]
  <2>1. WellFormed(ts) /\ Len(ts) = Len(tasks)
    BY <1>1, <1>3, ReplaceWellFormed DEF Legal, Ids
  <2>2. \A u \in Ids : ts[u] = IF u = t THEN task ELSE tasks[u]
    BY <1>1 DEF Ids
  <2>3. \A u \in Ids : Legal(u, ts[u])
    BY <1>2, <1>3, <2>2
  <2> QED BY <2>1, <2>3 DEF WellFormed
<1>4. ASSUME NEW ts \in Seq(Task), WellFormed(ts), Len(ts) = Len(tasks),
             Len(tasks) < MaxTasks, NEW new \in Task, Fresh(Len(tasks) + 1, new)
      PROVE  LET added == Append(ts, new)
             IN  /\ WellFormed(added) /\ Len(added) = Len(tasks) + 1
                 /\ \A u \in Ids : added[u] = ts[u]
                 /\ added[Len(tasks) + 1] = new
  <2>1. new.parent \in Nat /\ \A d \in new.deps : d \in Nat
    BY BoundsAssumption DEF Task, TaskIds
  <2>2. new.parent <= Len(ts) /\ \A d \in new.deps : d <= Len(ts)
    BY <1>1, <1>4, <2>1 DEF Fresh
  <2>3. WellFormed(Append(ts, new))
    BY <1>4, <2>2, AppendWellFormed
  <2> QED BY <1>1, <1>4, <2>3 DEF Ids
<1>5. CASE UNCHANGED tasks
  BY <1>1, <1>2, <1>5 DEF Ids
<1>6. ASSUME NEW t \in Ids, NEW task \in Task, Legal(t, task), Become(t, task)
      PROVE  /\ WellFormed(tasks') /\ Len(tasks') = Len(tasks)
             /\ \A u \in Ids : Legal(u, tasks'[u])
  BY <1>3, <1>6 DEF Become
<1>7. CASE /\ Len(tasks) < MaxTasks
           /\ \E task \in Task : Fresh(Len(tasks) + 1, task) /\ Add(task)
  <2>1. PICK new \in Task : Fresh(Len(tasks) + 1, new) /\ Add(new)
    BY <1>7
  <2>2. /\ WellFormed(tasks') /\ Len(tasks') = Len(tasks) + 1
        /\ \A u \in Ids : tasks'[u] = tasks[u]
        /\ tasks'[Len(tasks) + 1] = new
    BY <1>1, <1>4, <1>7, <2>1 DEF Add
  <2>3. \A u \in 1..Len(tasks') : u \notin Ids => u = Len(tasks) + 1
    BY <1>1, <2>2 DEF Ids
  <2>4. \A u \in Ids : Legal(u, tasks'[u])
    BY <1>2, <2>2
  <2> QED BY <1>1, <2>1, <2>2, <2>3, <2>4
<1>8. CASE /\ Len(tasks) < MaxTasks
           /\ \E t \in Ids : \E task, new \in Task :
                 Legal(t, task) /\ Fresh(Len(tasks) + 1, new) /\ BecomeAndAdd(t, task, new)
  <2>1. PICK t \in Ids, task \in Task, new \in Task :
            Legal(t, task) /\ Fresh(Len(tasks) + 1, new) /\ BecomeAndAdd(t, task, new)
    BY <1>8
  <2> DEFINE ts == [tasks EXCEPT ![t] = task]
  <2>2. /\ WellFormed(ts) /\ ts \in Seq(Task) /\ Len(ts) = Len(tasks)
        /\ \A u \in Ids : Legal(u, ts[u])
    BY <1>3, <2>1
  <2>3. tasks' = Append(ts, new)
    BY <2>1 DEF BecomeAndAdd
  <2> HIDE DEF ts
  <2>4. /\ WellFormed(tasks') /\ Len(tasks') = Len(tasks) + 1
        /\ \A u \in Ids : tasks'[u] = ts[u]
        /\ tasks'[Len(tasks) + 1] = new
    BY <1>4, <1>8, <2>1, <2>2, <2>3
  <2>5. \A u \in 1..Len(tasks') : u \notin Ids => u = Len(tasks) + 1
    BY <1>1, <2>4 DEF Ids
  <2>6. \A u \in Ids : Legal(u, tasks'[u])
    BY <2>2, <2>4
  <2> QED BY <1>1, <2>1, <2>4, <2>5, <2>6
<1>9. CASE \E news \in Seq(Task) :
              /\ Len(tasks) + Len(news) <= MaxTasks
              /\ \A i \in 1..Len(news) : Fresh(Len(tasks) + i, news[i])
              /\ tasks' = tasks \o news
  <2>1. PICK news \in Seq(Task) :
              /\ Len(tasks) + Len(news) <= MaxTasks
              /\ \A i \in 1..Len(news) : Fresh(Len(tasks) + i, news[i])
              /\ tasks' = tasks \o news
    BY <1>9
  <2>2. /\ Len(news) \in Nat /\ tasks' \in Seq(Task)
        /\ Len(tasks') = Len(tasks) + Len(news)
        /\ \A u \in Ids : tasks'[u] = tasks[u]
        /\ \A u \in 1..Len(tasks') : u \notin Ids => tasks'[u] = news[u - Len(tasks)]
    BY <1>1, <2>1 DEF Ids
  <2>3. ASSUME NEW u \in 1..Len(tasks'), u \notin Ids
        PROVE  Fresh(u, tasks'[u])
    <3>1. u - Len(tasks) \in 1..Len(news) /\ Len(tasks) + (u - Len(tasks)) = u
      BY <1>1, <2>2, <2>3 DEF Ids
    <3> QED BY <2>1, <2>2, <2>3, <3>1
  <2>4. WellFormed(tasks')
    <3>1. ASSUME NEW u \in 1..Len(tasks')
          PROVE  tasks'[u].parent < u /\ \A d \in tasks'[u].deps : d < u
      <4>1. CASE u \in Ids
        BY <1>1, <2>2, <4>1 DEF WellFormed, Ids
      <4>2. CASE u \notin Ids
        BY <2>3, <4>2 DEF Fresh
      <4> QED BY <4>1, <4>2
    <3> QED BY <2>1, <2>2, <3>1 DEF WellFormed
  <2>5. \A u \in Ids : Legal(u, tasks'[u])
    BY <1>2, <2>2
  <2> QED BY <1>1, <2>2, <2>3, <2>4, <2>5
<1> QED
  <2>1. CASE \E t \in Ids : \E task \in Task : Legal(t, task) /\ Become(t, task)
    <3>1. /\ WellFormed(tasks') /\ Len(tasks') = Len(tasks)
          /\ \A u \in Ids : Legal(u, tasks'[u])
      BY <1>6, <2>1
    <3> QED BY <1>1, <3>1 DEF Ids
  <2> QED BY <1>5, <1>7, <1>8, <1>9, <2>1 DEF Moves

\* An accepted run's outcome and evidence outlive every move, so an exact
\* input stays exact.
LEMMA MovesKeepExact ==
    ASSUME IInv, Moves, NEW i, Exact(i, {i.task})
    PROVE  /\ i.source \in Ids'
           /\ tasks'[i.source].status = "Accepted"
           /\ tasks'[i.source].run = i.run
           /\ tasks'[i.source].evidence
<1>1. i.source \in Ids /\ InputAccepted(i)
  BY DEF Exact
<1>2. Kept(tasks[i.source], tasks'[i.source])
  BY <1>1, MovesPointwise DEF Legal
<1>3. i.source \in Ids'
  <2>1. Len(tasks) \in Nat /\ Len(tasks') \in Nat /\ Len(tasks) <= Len(tasks')
    BY MovesPointwise DEF IInv, TypeOK, WellFormed
  <2> QED BY <1>1, <2>1 DEF Ids
<1> QED BY <1>1, <1>2, <1>3 DEF InputAccepted, Kept

LEMMA MovesKeepBacked ==
    ASSUME IInv, Moves
    PROVE  (\A t \in Ids : Backed(tasks[t]))'
<1> SUFFICES ASSUME NEW t \in Ids'
             PROVE  Backed(tasks'[t])
  BY DEF Backed
<1> QED BY MovesPointwise DEF Legal, Fresh, Ids

LEMMA MovesKeepInputs ==
    ASSUME IInv, Moves
    PROVE  InputsStayExact'
<1> SUFFICES ASSUME NEW t \in Ids', NEW i \in tasks'[t].inputs
             PROVE  /\ i.source \in Ids'
                    /\ tasks'[i.source].status = "Accepted"
                    /\ tasks'[i.source].run = i.run
                    /\ tasks'[i.source].evidence
                    /\ i.task \in tasks'[t].deps
  BY DEF InputsStayExact
<1>1. t \in Ids
  BY MovesPointwise DEF Fresh, Ids
<1>2. Legal(t, tasks'[t])
  BY <1>1, MovesPointwise
<1>3. Exact(i, tasks'[t].deps)
  <2>1. CASE tasks'[t].inputs = tasks[t].inputs
    BY <1>1, <1>2, <2>1 DEF IInv, InputsStayExact, Exact, InputAccepted, Legal
  <2>2. CASE \A j \in tasks'[t].inputs : Exact(j, tasks'[t].deps)
    BY <2>2
  <2> QED BY <1>2, <2>1, <2>2 DEF Legal
<1>4. Exact(i, {i.task}) /\ i.task \in tasks'[t].deps
  BY <1>3 DEF Exact
<1> QED BY <1>4, MovesKeepExact

LEMMA Initially == Init => IInv
<1> SUFFICES ASSUME Init
             PROVE  IInv
  OBVIOUS
<1>1. Len(tasks) = 0 /\ tasks \in Seq(Task) /\ Ids = {}
  BY DEF Init, Ids
<1>2. TypeOK
  BY <1>1, BoundsAssumption DEF Init, TypeOK, WellFormed
<1> QED BY <1>1, <1>2 DEF IInv, InputsStayExact

\* Every transaction counts one receipt or one write to the understanding.
LEMMA CountersTyped ==
    ASSUME TypeOK, [Next]_vars
    PROVE  revision' \in 0..MaxReceipts /\ scope' \in [revision : 0..MaxScope, open : BOOLEAN]
<1>1. /\ revision \in 0..MaxReceipts
      /\ scope \in [revision : 0..MaxScope, open : BOOLEAN]
  BY DEF TypeOK
<1>2. CASE Receipt
  BY <1>1, <1>2, BoundsAssumption DEF Receipt
<1>3. CASE DraftScope
  BY <1>1, <1>3, BoundsAssumption DEF DraftScope
<1>4. CASE ConfirmScope
  BY <1>1, <1>4, BoundsAssumption DEF ConfirmScope
<1>5. CASE UNCHANGED vars
  BY <1>1, <1>5 DEF vars
<1>6. Next => Receipt \/ DraftScope \/ ConfirmScope
  BY DEF Next, NewWork, Control, ReviewStep, Propose, Plan, Repair, AdoptArchitecture,
         Assign, Permit, Approve, Cancel, Requeue, Start, Finish, Review, Assess, Decide,
         ReviewAndRepair, RepairArchitecture, RouteToArchitect, ResolveRepair, Branch
<1> QED BY <1>2, <1>3, <1>4, <1>5, <1>6

LEMMA Inductive == IInv /\ [Next]_vars => IInv'
<1> SUFFICES ASSUME IInv, [Next]_vars
             PROVE  IInv'
  OBVIOUS
<1>1. Moves
  BY EveryStepMoves
<1>2. TypeOK'
  BY <1>1, MovesPointwise, CountersTyped DEF IInv, TypeOK
<1> QED BY <1>1, <1>2, MovesKeepBacked, MovesKeepInputs DEF IInv

LEMMA Invariant == Spec => []IInv
<1> QED BY Initially, Inductive, PTL DEF Spec

-----------------------------------------------------------------------------
(* The theorems. *)

\* Every task, receipt count and understanding has its type, and repairs and
\* dependencies point to earlier tasks.
THEOREM TypeCorrect == Spec => []TypeOK
<1>1. IInv => TypeOK
  BY DEF IInv
<1> QED BY <1>1, Invariant, PTL

\* Only work whose current run finished review-ready, with sealed evidence, is
\* ever accepted.
THEOREM AcceptanceEarned == Spec => []AcceptedIsEarned
<1>1. IInv => AcceptedIsEarned
  BY DEF IInv, Backed, AcceptedIsEarned
<1> QED BY <1>1, Invariant, PTL

\* The results a run was built on are still accepted and were never replaced.
THEOREM InputsExact == Spec => []InputsStayExact
<1>1. IInv => InputsStayExact
  BY DEF IInv
<1> QED BY <1>1, Invariant, PTL

\* Accepted and rejected are final, and so is the run they were decided on.
THEOREM OutcomesFinal == Spec => FinalOutcomes
<1>1. IInv /\ [Next]_vars =>
        [\A t \in Ids : tasks[t].status \in {"Accepted", "Rejected"} =>
              /\ tasks[t].status' = tasks[t].status
              /\ tasks[t].run' = tasks[t].run]_vars
  <2> SUFFICES ASSUME IInv, [Next]_vars, NEW t \in Ids,
                      tasks[t].status \in {"Accepted", "Rejected"}
               PROVE  /\ tasks[t].status' = tasks[t].status
                      /\ tasks[t].run' = tasks[t].run
    OBVIOUS
  <2>1. Kept(tasks[t], tasks'[t])
    BY EveryStepMoves, MovesPointwise DEF Legal
  <2> QED BY <2>1 DEF Kept
<1> QED BY <1>1, Invariant, PTL DEF Spec, FinalOutcomes

\* A finished run gives back the receipt that was kept for it.
LEMMA FinishReleases ==
    ASSUME TypeOK, NEW t \in Ids, NEW status \in Statuses, Finish(t, status)
    PROVE  Cardinality(RunningIn(tasks')) = Cardinality(RunningIn(tasks)) - 1
<1>1. tasks \in Seq(Task) /\ Len(tasks) \in Nat /\ IsFiniteSet(1..Len(tasks))
  BY FS_Interval DEF TypeOK, WellFormed
<1>2. IsFiniteSet(RunningIn(tasks))
  <2>1. RunningIn(tasks) \subseteq 1..Len(tasks)
    BY DEF RunningIn
  <2> QED BY <1>1, <2>1, FS_Subset
<1>3. RunningIn(tasks') = RunningIn(tasks) \ {t}
  <2> DEFINE task == [WithStatus(t, status) EXCEPT !.evidence = TRUE,
                                                   !.passed = (status = "ReviewReady")]
  <2>1. tasks' = [tasks EXCEPT ![t] = task] /\ status # "Running"
    BY DEF Finish, Become
  <2>2. task.status = status
    <3>1. tasks[t] \in Task
      BY TaskAt
    <3> QED BY <3>1 DEF WithStatus, Task
  <2> HIDE DEF task
  <2>3. Len(tasks') = Len(tasks) /\ t \in 1..Len(tasks)
    BY <1>1, <2>1 DEF Ids
  <2>4. \A u \in 1..Len(tasks) : tasks'[u] = IF u = t THEN task ELSE tasks[u]
    BY <1>1, <2>1
  <2> QED BY <2>1, <2>2, <2>3, <2>4 DEF RunningIn
<1>4. t \in RunningIn(tasks)
  BY DEF Finish, RunningIn, Ids
<1> QED BY <1>2, <1>3, <1>4, FS_RemoveElement

\* Whatever is saved, every running worker's result still fits in the journal.
THEOREM ResultsFit == Spec => []ResultsHaveRoom
<1>1. Init => ResultsHaveRoom
  <2> SUFFICES ASSUME Init
               PROVE  ResultsHaveRoom
    OBVIOUS
  <2>1. RunningIn(tasks) = {}
    BY DEF Init, RunningIn
  <2> QED BY <2>1, FS_EmptySet, BoundsAssumption DEF Init, ResultsHaveRoom
<1>2. IInv /\ ResultsHaveRoom /\ [Next]_vars => ResultsHaveRoom'
  <2> SUFFICES ASSUME IInv, ResultsHaveRoom, [Next]_vars
               PROVE  ResultsHaveRoom'
    OBVIOUS
  <2>1. CASE CompletionCapacity
    BY <2>1 DEF CompletionCapacity, ResultsHaveRoom
  <2>2. ASSUME NEW t \in Ids, NEW status \in Statuses, Finish(t, status)
        PROVE  ResultsHaveRoom'
    <3>1. revision' = revision + 1
      BY <2>2 DEF Finish, Receipt
    <3>2. Cardinality(RunningIn(tasks')) = Cardinality(RunningIn(tasks)) - 1
      BY <2>2, FinishReleases DEF IInv
    <3>3. Cardinality(RunningIn(tasks)) \in Nat /\ revision \in Nat
      <4>1. RunningIn(tasks) \subseteq 1..Len(tasks) /\ Len(tasks) \in Nat
        BY DEF RunningIn, IInv, TypeOK, WellFormed
      <4>2. IsFiniteSet(1..Len(tasks))
        BY <4>1, FS_Interval
      <4>3. IsFiniteSet(RunningIn(tasks))
        BY <4>1, <4>2, FS_Subset
      <4> QED BY <4>3, FS_CardinalityType, BoundsAssumption DEF IInv, TypeOK
    <3> QED BY <3>1, <3>2, <3>3, BoundsAssumption DEF ResultsHaveRoom
  <2>3. CASE UNCHANGED vars \/ DraftScope \/ ConfirmScope
    BY <2>3 DEF vars, DraftScope, ConfirmScope, ResultsHaveRoom
  <2>4. Next => \/ CompletionCapacity
                \/ \E t \in Ids, status \in Statuses : Finish(t, status)
                \/ DraftScope \/ ConfirmScope
    BY DEF Next, NewWork, Control, ReviewStep, Propose, Plan, Repair, AdoptArchitecture,
           Assign, Permit, Approve, Cancel, Requeue, Start, Review, Assess, Decide,
           ReviewAndRepair, RepairArchitecture, RouteToArchitect, ResolveRepair, Branch
  <2> QED BY <2>1, <2>2, <2>3, <2>4
<1> QED BY <1>1, <1>2, Invariant, PTL DEF Spec
-----------------------------------------------------------------------------
(* Work and the shared understanding. *)

\* Task t starts in this step.
Starts(t) == tasks[t].status # "Running" /\ tasks'[t].status = "Running"

LEMMA BecomeReplaces ==
    ASSUME TypeOK, NEW t \in Ids, NEW task, Become(t, task)
    PROVE  /\ Len(tasks') = Len(tasks)
           /\ \A u \in Ids : tasks'[u] = IF u = t THEN task ELSE tasks[u]
  BY DEF Become, TypeOK, WellFormed, Ids

\* A task that does not start, in a step that adds none.
LEMMA BecomeRests ==
    ASSUME TypeOK, NEW t \in Ids, NEW task, Become(t, task), task.status # "Running"
    PROVE  Len(tasks') = Len(tasks) /\ \A u \in Ids : ~Starts(u)
  BY BecomeReplaces DEF Starts

LEMMA AddRests ==
    ASSUME TypeOK, NEW new, Add(new)
    PROVE  \A u \in Ids : ~Starts(u)
  BY DEF Add, Starts, Ids, TypeOK, WellFormed

LEMMA BecomeAndAddRests ==
    ASSUME TypeOK, NEW t \in Ids, NEW task, NEW new, BecomeAndAdd(t, task, new),
           task \in Task, task.status # "Running"
    PROVE  \A u \in Ids : ~Starts(u)
<1> DEFINE ts == [tasks EXCEPT ![t] = task]
<1>1. ts \in Seq(Task) /\ Len(ts) = Len(tasks) /\ Len(ts) \in Nat
      /\ \A u \in Ids : ts[u] = IF u = t THEN task ELSE tasks[u]
  BY DEF TypeOK, WellFormed, Ids
<1>2. tasks' = Append(ts, new)
  BY DEF BecomeAndAdd
<1> HIDE DEF ts
<1>3. \A u \in Ids : tasks'[u] = ts[u]
  BY <1>1, <1>2 DEF Ids
<1> QED BY <1>1, <1>3 DEF Starts

\* What starts or adds work does so while the understanding is open, and starts
\* a plan's task under the revision the plan was made for.
FollowsScope ==
    /\ Len(tasks') > Len(tasks) => scope.open
    /\ \A t \in Ids : Starts(t) => scope.open /\ BindingCurrent(t)

LEMMA NewWorkFollows ==
    ASSUME TypeOK, NewWork
    PROVE  FollowsScope
<1>1. scope.open
  BY DEF NewWork, Propose, Plan, Repair, AdoptArchitecture, ScopeOpen
<1>2. ASSUME NEW shape \in PlanShapes, NEW policy \in Policies, Plan(shape, policy)
      PROVE  \A u \in Ids : ~Starts(u)
  <2> DEFINE news == [i \in 1..Len(shape) |-> PlannedTask(shape[i], policy)]
  <2>1. Len(shape) \in Nat /\ tasks' = tasks \o news /\ tasks \in Seq(Task)
    BY <1>2, PlanAssumption DEF Plan, TypeOK, WellFormed
  <2>2. \A u \in Ids : tasks'[u] = tasks[u]
    BY <2>1 DEF Ids
  <2> QED BY <2>2 DEF Starts
<1>3. \A u \in Ids : ~Starts(u)
  BY <1>2, AddRests DEF NewWork, Propose, Repair, AdoptArchitecture
<1> QED BY <1>1, <1>3 DEF FollowsScope

LEMMA ControlFollows ==
    ASSUME IInv, NEW t \in Ids, Control(t)
    PROVE  FollowsScope
<1>1. tasks[t] \in Task /\ TypeOK
  BY TaskAt DEF IInv
<1>2. \A status \in Statuses : WithStatus(t, status).status = status
  BY <1>1 DEF WithStatus, Task
<1>3. ASSUME NEW status \in Statuses \ {"Running"}, NEW task,
             task.status = status, Become(t, task)
      PROVE  FollowsScope
  <2>1. Len(tasks') = Len(tasks) /\ \A u \in Ids : ~Starts(u)
    BY <1>1, <1>3, BecomeRests
  <2> QED BY <1>1, <2>1 DEF FollowsScope, TypeOK, WellFormed
<1>4. CASE Assign(t) \/ Approve(t) \/ Cancel(t) \/ Requeue(t)
  <2>1. \E status \in {"Proposed", "Approved", "Cancelled"} : Become(t, WithStatus(t, status))
    BY <1>4 DEF Assign, Approve, Cancel, Requeue
  <2> QED BY <1>2, <1>3, <2>1 DEF Statuses
<1>5. ASSUME NEW policy \in Policies, Permit(t, policy)
      PROVE  FollowsScope
  <2> DEFINE task == [WithStatus(t, "Proposed") EXCEPT !.policy = policy]
  <2>1. task.status = "Proposed"
    BY <1>1 DEF WithStatus, Task
  <2> QED BY <1>3, <1>5, <2>1 DEF Permit, Statuses
<1>6. ASSUME NEW status \in Statuses, Finish(t, status)
      PROVE  FollowsScope
  <2> DEFINE task == [WithStatus(t, status) EXCEPT !.evidence = TRUE,
                                                   !.passed = (status = "ReviewReady")]
  <2>1. task.status = status
    BY <1>1 DEF WithStatus, Task
  <2> QED BY <1>3, <1>6, <2>1 DEF Finish
<1>7. ASSUME NEW baseline \in Baselines, Start(t, baseline)
      PROVE  FollowsScope
  <2>1. /\ Len(tasks') = Len(tasks) /\ Len(tasks) \in Nat
        /\ \A u \in Ids : u # t => tasks'[u] = tasks[u]
    BY <1>1, <1>7, BecomeReplaces DEF Start, TypeOK, WellFormed
  <2> QED BY <1>7, <2>1 DEF Start, ScopeOpen, FollowsScope, Starts
<1> QED BY <1>4, <1>5, <1>6, <1>7 DEF Control

LEMMA ReviewFollows ==
    ASSUME IInv, NEW t \in Ids, ReviewStep(t)
    PROVE  FollowsScope
<1>1. tasks[t] \in Task /\ TypeOK /\ Len(tasks) \in Nat
  BY TaskAt DEF IInv
<1>2. ASSUME NEW task, Become(t, task), task.status # "Running"
      PROVE  FollowsScope
  <2>1. Len(tasks') = Len(tasks) /\ \A u \in Ids : ~Starts(u)
    BY <1>1, <1>2, BecomeRests
  <2> QED BY <1>1, <2>1 DEF FollowsScope
<1>3. ASSUME NEW accept \in BOOLEAN
      PROVE  WithStatus(t, Verdict(accept)).status # "Running"
  BY <1>1 DEF WithStatus, Verdict, Task
<1>4. ASSUME NEW d \in Decisions, CanDecide(t, d)
      PROVE  Decided(t, d) \in Task /\ Decided(t, d).status # "Running"
  <2>1. OutcomeStatus(d) \in {"NeedsHumanReview", "Accepted", "Rejected"}
    BY OutcomeTyped
  <2>2. Decided(t, d).status = OutcomeStatus(d)
    BY <1>1 DEF Decided, Task
  <2>3. Decided(t, d) \in Task
    BY <1>4, DecidedLegal DEF Legal
  <2> QED BY <2>1, <2>2, <2>3
<1>5. CASE \E accept \in BOOLEAN : Review(t, accept)
  BY <1>2, <1>3, <1>5 DEF Review
<1>6. ASSUME NEW accept \in BOOLEAN, NEW criteria \in {"none", "met", "unmet"},
             Assess(t, accept, criteria)
      PROVE  FollowsScope
  <2> DEFINE verdict == WithStatus(t, Verdict(accept))
             task == [verdict EXCEPT !.assessed = IF accept THEN "accept" ELSE "reject"]
  <2>1. verdict \in Task
    <3>1. Verdict(accept) \in Statuses
      BY DEF Verdict, Statuses
    <3> QED BY <1>1, <3>1, StatusTyped
  <2>2. verdict.status # "Running"
    BY <1>3
  <2> HIDE DEF verdict
  <2>3. task.status # "Running"
    BY <2>1, <2>2 DEF Task
  <2>4. Become(t, task)
    BY <1>6 DEF Assess, verdict
  <2> QED BY <1>2, <2>3, <2>4
<1>7. ASSUME NEW d \in Decisions, Decide(t, d) \/ RouteToArchitect(t, d)
      PROVE  FollowsScope
  <2> DEFINE decided == Decided(t, d)
             routed == [decided EXCEPT !.routed = TRUE]
  <2>1. CanDecide(t, d) /\ (Become(t, decided) \/ Become(t, routed))
    BY <1>7 DEF Decide, RouteToArchitect, CanReviewArchitecture
  <2>2. decided \in Task /\ decided.status # "Running"
    BY <1>4, <2>1
  <2> HIDE DEF decided
  <2>3. routed.status # "Running"
    BY <2>2 DEF Task
  <2> QED BY <1>2, <2>1, <2>2, <2>3
<1>8. ASSUME NEW d \in Decisions, ReviewAndRepair(t, d) \/ RepairArchitecture(t, d)
      PROVE  FollowsScope
  <2>1. /\ CanDecide(t, d) /\ scope.open
        /\ BecomeAndAdd(t, Decided(t, d), RepairTask(t))
    BY <1>8 DEF ReviewAndRepair, RepairArchitecture, CanReviewArchitecture, ScopeOpen
  <2>2. \A u \in Ids : ~Starts(u)
    BY <1>1, <1>4, <2>1, BecomeAndAddRests
  <2> QED BY <2>1, <2>2 DEF FollowsScope
<1>9. CASE ResolveRepair(t)
  <2> DEFINE task == [tasks[t] EXCEPT !.resolves = TRUE]
  <2>1. task.status = tasks[t].status /\ tasks[t].status = "Accepted"
    BY <1>1, <1>9 DEF ResolveRepair, Task
  <2> QED BY <1>2, <1>9, <2>1 DEF ResolveRepair
<1>10. CASE Branch(t)
  BY <1>1, <1>10 DEF Branch, FollowsScope, Starts
<1> QED BY <1>5, <1>6, <1>7, <1>8, <1>9, <1>10 DEF ReviewStep

\* Whatever the order of drafts, confirmations, plans, reviews and requeues, no
\* work is added or started while the understanding is pending, and no plan's
\* task is started after the understanding moved on.
THEOREM ScopeFollowed == Spec => WorkFollowsScope
<1>1. IInv /\ [Next]_vars =>
        [(\/ Len(tasks') > Len(tasks)
          \/ \E t \in Ids : tasks[t].status # "Running" /\ tasks'[t].status = "Running")
         => /\ scope.open
            /\ \A t \in Ids : /\ tasks[t].planned
                               /\ tasks[t].status # "Running"
                               /\ tasks'[t].status = "Running"
                              => tasks[t].bound = scope.revision]_vars
  <2> SUFFICES ASSUME IInv, Next PROVE FollowsScope
    BY DEF FollowsScope, Starts, BindingCurrent
  <2>1. CASE DraftScope \/ ConfirmScope
    BY <2>1 DEF DraftScope, ConfirmScope, FollowsScope, Starts, IInv, TypeOK, WellFormed
  <2> QED BY <2>1, NewWorkFollows, ControlFollows, ReviewFollows DEF Next, IInv
<1> QED BY <1>1, Invariant, PTL DEF Spec, WorkFollowsScope

-----------------------------------------------------------------------------
(* Families.  What the model computes along a lineage is unfolded by strong *)
(* induction on the number of the task.                                     *)

\* Every set of natural numbers that is not empty has a least element.
LEMMA LeastNumber ==
    ASSUME NEW S \in SUBSET Nat, S # {}
    PROVE  \E x \in S : \A y \in S : x <= y
<1> DEFINE Less == {p \in Nat \X Nat : p[1] < p[2]}
<1>1. IsWellFoundedOn(Less, Nat)
  BY NatLessThanWellFounded DEF OpToRel
<1>2. PICK x \in S : \A y \in S : <<y, x>> \notin Less
  BY <1>1, WFMin
<1>3. ASSUME NEW y \in S PROVE x <= y
  <2>1. <<y, x>> \in Nat \X Nat /\ <<y, x>>[1] = y /\ <<y, x>>[2] = x
    OBVIOUS
  <2>2. ~(y < x)
    BY <1>2, <2>1
  <2> QED BY <2>2
<1> QED BY <1>3

LEMMA Climb ==
    ASSUME NEW n \in Nat, NEW S,
           \A i \in 1..n : (\A j \in 1..(i - 1) : j \in S) => i \in S
    PROVE  \A i \in 1..n : i \in S
<1> DEFINE T == {i \in 1..n : i \notin S}
<1> SUFFICES ASSUME T # {} PROVE FALSE
  OBVIOUS
<1>1. PICK x \in T : \A y \in T : x <= y
  <2>1. T \in SUBSET Nat
    OBVIOUS
  <2> HIDE DEF T
  <2> QED BY <2>1, LeastNumber
<1>2. ASSUME NEW j \in 1..(x - 1) PROVE j \in S
  <2>1. j \in 1..n /\ ~(x <= j)
    BY <1>1
  <2> QED BY <1>1, <2>1
<1> QED BY <1>1, <1>2

\* The function f collects the tasks upwards until one where it stops.
Collects(f, n, up, stop) ==
    \A i \in 1..n : f[i] = {i} \cup (IF i \in stop THEN {} ELSE f[up[i]])

LEMMA CollectExists ==
    ASSUME NEW n \in Nat, NEW up, NEW stop,
           \A i \in 1..n : i \notin stop => up[i] \in 1..(i - 1)
    PROVE  \E f : Collects(f, n, up, stop)
<1> DEFINE Part(f, k) ==
              \A i \in 1..k : f[i] = {i} \cup (IF i \in stop THEN {} ELSE f[up[i]])
           S == {k \in 1..(n + 1) : \E f : Part(f, k - 1)}
<1>1. ASSUME NEW k \in 1..(n + 1), \A j \in 1..(k - 1) : j \in S
      PROVE  k \in S
  <2>1. CASE k = 1
    <3>1. Part(<<>>, 0)
      OBVIOUS
    <3> QED BY <2>1, <3>1
  <2>2. CASE k # 1
    <3>1. k - 1 \in 1..n /\ k - 1 \in 1..(k - 1) /\ (k - 1) - 1 = k - 2
      BY <2>2
    <3>2. PICK f : Part(f, k - 2)
      <4>1. k - 1 \in S
        BY <1>1, <3>1
      <4>2. \E f : Part(f, (k - 1) - 1)
        BY <4>1
      <4> HIDE DEF Part
      <4> QED BY <3>1, <4>2
    <3> DEFINE i0 == k - 1
               top == {i0} \cup (IF i0 \in stop THEN {} ELSE f[up[i0]])
               g == [i \in 1..i0 |-> IF i = i0 THEN top ELSE f[i]]
    <3>3. ASSUME NEW i \in 1..i0
          PROVE  g[i] = {i} \cup (IF i \in stop THEN {} ELSE g[up[i]])
      <4>1. i \notin stop => up[i] \in 1..(i - 1)
        BY <3>1
      <4>2. CASE i = i0
        BY <3>1, <4>1, <4>2
      <4>3. CASE i # i0
        <5>1. i \in 1..(k - 2)
          BY <3>1, <4>3
        <5>2. i \notin stop => up[i] \in 1..i0 /\ up[i] # i0
          BY <3>1, <4>1, <5>1
        <5>3. g[i] = f[i] /\ (i \notin stop => g[up[i]] = f[up[i]])
          BY <4>3, <5>2
        <5> HIDE DEF g, i0
        <5> QED BY <3>2, <5>1, <5>3
      <4> QED BY <4>2, <4>3
    <3>4. Part(g, k - 1)
      BY <3>3
    <3> QED BY <3>4
  <2> QED BY <2>1, <2>2
<1>2. n + 1 \in S
  <2>1. n + 1 \in Nat /\ n + 1 \in 1..(n + 1)
    OBVIOUS
  <2> HIDE DEF S
  <2> QED BY <1>1, <2>1, Climb
<1>3. PICK f : Part(f, n)
  BY <1>2
<1> QED BY <1>3 DEF Collects

\* The families of any sequence of tasks.
LineageIn(ts, t) ==
    LET up[i \in 1..Len(ts)] ==
            {i} \cup (IF ts[i].parent = 0 THEN {} ELSE up[ts[i].parent])
    IN  up[t]

AttemptIn(ts, t) ==
    LET up[i \in 1..Len(ts)] ==
            {i} \cup (IF ts[i].parent = 0 \/ ts[i].architect
                      THEN {} ELSE up[ts[i].parent])
    IN  up[t]

RootIn(ts, t) == CHOOSE r \in LineageIn(ts, t) : ts[r].parent = 0

FamilyIn(ts, t) == {u \in 1..Len(ts) : RootIn(ts, u) = RootIn(ts, t)}

LEMMA FamiliesRead ==
    ASSUME NEW t
    PROVE  /\ Lineage(t) = LineageIn(tasks, t) /\ Lineage(t)' = LineageIn(tasks', t)
           /\ Attempt(t) = AttemptIn(tasks, t) /\ Attempt(t)' = AttemptIn(tasks', t)
           /\ RepairRoot(t) = RootIn(tasks, t) /\ RepairRoot(t)' = RootIn(tasks', t)
           /\ Family(t) = FamilyIn(tasks, t) /\ Family(t)' = FamilyIn(tasks', t)
<1>1. Lineage(t) = LineageIn(tasks, t) /\ Lineage(t)' = LineageIn(tasks', t)
  BY Zenon DEF Lineage, LineageIn, Ids
<1>2. Attempt(t) = AttemptIn(tasks, t) /\ Attempt(t)' = AttemptIn(tasks', t)
  BY Zenon DEF Attempt, AttemptIn, Ids
<1>3. \A u : RepairRoot(u) = RootIn(tasks, u) /\ RepairRoot(u)' = RootIn(tasks', u)
  BY Zenon DEF RepairRoot, RootIn, Lineage, LineageIn, Ids
<1>4. Family(t) = FamilyIn(tasks, t) /\ Family(t)' = FamilyIn(tasks', t)
  BY <1>3 DEF Family, FamilyIn, Ids
<1> QED BY <1>1, <1>2, <1>3, <1>4

LEMMA ParentAt ==
    ASSUME NEW ts, WellFormed(ts), NEW t \in 1..Len(ts)
    PROVE  /\ Len(ts) \in Nat /\ t \in Nat
           /\ ts[t].parent # 0 => ts[t].parent \in 1..(t - 1) /\ ts[t].parent \in 1..Len(ts)
<1>1. ts[t] \in Task /\ ts[t].parent < t /\ Len(ts) \in Nat
  BY DEF WellFormed
<1>2. ts[t].parent \in Nat
  BY <1>1, BoundsAssumption DEF Task
<1> QED BY <1>1, <1>2

LEMMA LineageUnfolds ==
    ASSUME NEW ts, WellFormed(ts), NEW t \in 1..Len(ts)
    PROVE  LineageIn(ts, t) =
              {t} \cup (IF ts[t].parent = 0 THEN {} ELSE LineageIn(ts, ts[t].parent))
<1> DEFINE n == Len(ts)
           stop == {i \in 1..n : ts[i].parent = 0}
           up == [i \in 1..n |-> ts[i].parent]
<1>1. \A i \in 1..n : i \notin stop => up[i] \in 1..(i - 1)
  BY ParentAt
<1>2. \E f : Collects(f, n, up, stop)
  <2>1. n \in Nat
    BY ParentAt
  <2> HIDE DEF stop, up, n
  <2> QED BY <1>1, <2>1, CollectExists
<1>3. \E f : f = [i \in 1..n |-> {i} \cup (IF ts[i].parent = 0 THEN {} ELSE f[ts[i].parent])]
  <2>1. PICK f : \A i \in 1..n : f[i] = {i} \cup (IF i \in stop THEN {} ELSE f[up[i]])
    BY <1>2 DEF Collects
  <2> DEFINE g == [i \in 1..n |-> f[i]]
  <2>2. ASSUME NEW i \in 1..n
        PROVE  g[i] = {i} \cup (IF ts[i].parent = 0 THEN {} ELSE g[ts[i].parent])
    <3>1. ts[i].parent # 0 => ts[i].parent \in 1..n
      BY ParentAt
    <3> QED BY <2>1, <3>1
  <2>3. g = [i \in 1..n |-> {i} \cup (IF ts[i].parent = 0 THEN {} ELSE g[ts[i].parent])]
    BY <2>2
  <2> QED BY <2>3
<1>4. PICK f : f = (CHOOSE g : g = [i \in 1..n |->
                       {i} \cup (IF ts[i].parent = 0 THEN {} ELSE g[ts[i].parent])])
  OBVIOUS
<1>5. f = [i \in 1..n |-> {i} \cup (IF ts[i].parent = 0 THEN {} ELSE f[ts[i].parent])]
  BY <1>3, <1>4
<1>6. \A u : LineageIn(ts, u) = f[u]
  BY <1>4, Zenon DEF LineageIn
<1> QED BY <1>5, <1>6

LEMMA AttemptUnfolds ==
    ASSUME NEW ts, WellFormed(ts), NEW t \in 1..Len(ts)
    PROVE  AttemptIn(ts, t) =
              {t} \cup (IF ts[t].parent = 0 \/ ts[t].architect
                        THEN {} ELSE AttemptIn(ts, ts[t].parent))
<1> DEFINE n == Len(ts)
           stop == {i \in 1..n : ts[i].parent = 0 \/ ts[i].architect}
           up == [i \in 1..n |-> ts[i].parent]
<1>1. \A i \in 1..n : i \notin stop => up[i] \in 1..(i - 1)
  BY ParentAt
<1>2. \E f : Collects(f, n, up, stop)
  <2>1. n \in Nat
    BY ParentAt
  <2> HIDE DEF stop, up, n
  <2> QED BY <1>1, <2>1, CollectExists
<1>3. \E f : f = [i \in 1..n |-> {i} \cup (IF ts[i].parent = 0 \/ ts[i].architect
                                            THEN {} ELSE f[ts[i].parent])]
  <2>1. PICK f : \A i \in 1..n : f[i] = {i} \cup (IF i \in stop THEN {} ELSE f[up[i]])
    BY <1>2 DEF Collects
  <2> DEFINE g == [i \in 1..n |-> f[i]]
  <2>2. ASSUME NEW i \in 1..n
        PROVE  g[i] = {i} \cup (IF ts[i].parent = 0 \/ ts[i].architect
                                 THEN {} ELSE g[ts[i].parent])
    <3>1. ts[i].parent # 0 => ts[i].parent \in 1..n
      BY ParentAt
    <3> QED BY <2>1, <3>1
  <2>3. g = [i \in 1..n |-> {i} \cup (IF ts[i].parent = 0 \/ ts[i].architect
                                       THEN {} ELSE g[ts[i].parent])]
    BY <2>2
  <2> QED BY <2>3
<1>4. PICK f : f = (CHOOSE g : g = [i \in 1..n |->
                       {i} \cup (IF ts[i].parent = 0 \/ ts[i].architect
                                 THEN {} ELSE g[ts[i].parent])])
  OBVIOUS
<1>5. f = [i \in 1..n |-> {i} \cup (IF ts[i].parent = 0 \/ ts[i].architect
                                     THEN {} ELSE f[ts[i].parent])]
  BY <1>3, <1>4
<1>6. \A u : AttemptIn(ts, u) = f[u]
  BY <1>4, Zenon DEF AttemptIn
<1> QED BY <1>5, <1>6

\* A lineage runs from the task down to earlier ones, and includes theirs.
LEMMA LineageBelow ==
    ASSUME NEW ts, WellFormed(ts), NEW t \in 1..Len(ts)
    PROVE  t \in LineageIn(ts, t) /\ LineageIn(ts, t) \subseteq 1..t
<1> DEFINE S == {i \in 1..Len(ts) : LineageIn(ts, i) \subseteq 1..i}
<1>1. ASSUME NEW i \in 1..Len(ts), \A j \in 1..(i - 1) : j \in S
      PROVE  i \in S
  <2>1. i \in Nat /\ (ts[i].parent # 0 => ts[i].parent \in 1..(i - 1))
    BY ParentAt
  <2>2. ts[i].parent # 0 => LineageIn(ts, ts[i].parent) \subseteq 1..i
    BY <1>1, <2>1
  <2> QED BY <2>1, <2>2, LineageUnfolds
<1>2. t \in S
  <2>1. Len(ts) \in Nat
    BY ParentAt
  <2> HIDE DEF S
  <2> QED BY <1>1, <2>1, Climb
<1> QED BY <1>2, LineageUnfolds

LEMMA LineageNested ==
    ASSUME NEW ts, WellFormed(ts), NEW t \in 1..Len(ts), NEW u \in LineageIn(ts, t)
    PROVE  u \in 1..Len(ts) /\ LineageIn(ts, u) \subseteq LineageIn(ts, t)
<1> DEFINE S == {i \in 1..Len(ts) :
                    \A v \in LineageIn(ts, i) : LineageIn(ts, v) \subseteq LineageIn(ts, i)}
<1>1. ASSUME NEW i \in 1..Len(ts), \A j \in 1..(i - 1) : j \in S
      PROVE  i \in S
  <2>1. i \in Nat /\ (ts[i].parent # 0 => ts[i].parent \in 1..(i - 1))
    BY ParentAt
  <2> QED BY <1>1, <2>1, LineageUnfolds
<1>2. Len(ts) \in Nat
  BY ParentAt
<1>3. t \in S
  <2> HIDE DEF S
  <2> QED BY <1>1, <1>2, Climb
<1>4. u \in 1..t
  BY LineageBelow
<1> QED BY <1>2, <1>3, <1>4

\* Of two tasks of a lineage one descends from the other.
LEMMA LineageLinear ==
    ASSUME NEW ts, WellFormed(ts), NEW t \in 1..Len(ts),
           NEW u \in LineageIn(ts, t), NEW v \in LineageIn(ts, t)
    PROVE  u \in LineageIn(ts, v) \/ v \in LineageIn(ts, u)
<1> DEFINE S == {i \in 1..Len(ts) : \A x, y \in LineageIn(ts, i) :
                    x \in LineageIn(ts, y) \/ y \in LineageIn(ts, x)}
<1>1. ASSUME NEW i \in 1..Len(ts), \A j \in 1..(i - 1) : j \in S
      PROVE  i \in S
  <2>1. i \in Nat /\ (ts[i].parent # 0 => ts[i].parent \in 1..(i - 1))
    BY ParentAt
  <2> QED BY <1>1, <2>1, LineageUnfolds
<1>2. t \in S
  <2>1. Len(ts) \in Nat
    BY ParentAt
  <2> HIDE DEF S
  <2> QED BY <1>1, <2>1, Climb
<1> QED BY <1>2

\* Every lineage has one root.
LEMMA RootOf ==
    ASSUME NEW ts, WellFormed(ts), NEW t \in 1..Len(ts)
    PROVE  /\ RootIn(ts, t) \in LineageIn(ts, t) /\ ts[RootIn(ts, t)].parent = 0
           /\ \A r \in LineageIn(ts, t) : ts[r].parent = 0 => r = RootIn(ts, t)
<1> DEFINE S == {i \in 1..Len(ts) : \E r \in LineageIn(ts, i) : ts[r].parent = 0}
<1>1. ASSUME NEW i \in 1..Len(ts), \A j \in 1..(i - 1) : j \in S
      PROVE  i \in S
  <2>1. i \in Nat /\ (ts[i].parent # 0 => ts[i].parent \in 1..(i - 1))
    BY ParentAt
  <2> QED BY <1>1, <2>1, LineageUnfolds
<1>2. t \in S
  <2>1. Len(ts) \in Nat
    BY ParentAt
  <2> HIDE DEF S
  <2> QED BY <1>1, <2>1, Climb
<1>3. RootIn(ts, t) \in LineageIn(ts, t) /\ ts[RootIn(ts, t)].parent = 0
  BY <1>2 DEF RootIn
<1>4. ASSUME NEW r \in LineageIn(ts, t), ts[r].parent = 0 PROVE r = RootIn(ts, t)
  <2> DEFINE q == RootIn(ts, t)
  <2>1. r \in 1..Len(ts) /\ q \in 1..Len(ts)
    BY <1>3, LineageNested
  <2>2. LineageIn(ts, r) = {r} /\ LineageIn(ts, q) = {q}
    BY <1>3, <1>4, <2>1, LineageUnfolds
  <2>3. r \in LineageIn(ts, q) \/ q \in LineageIn(ts, r)
    BY <1>3, LineageLinear
  <2> QED BY <2>2, <2>3
<1> QED BY <1>3, <1>4

LEMMA LineageInFamily ==
    ASSUME NEW ts, WellFormed(ts), NEW t \in 1..Len(ts), NEW u \in LineageIn(ts, t)
    PROVE  u \in FamilyIn(ts, t) /\ RootIn(ts, u) = RootIn(ts, t)
<1>1. u \in 1..Len(ts) /\ LineageIn(ts, u) \subseteq LineageIn(ts, t)
  BY LineageNested
<1>2. RootIn(ts, u) \in LineageIn(ts, u) /\ ts[RootIn(ts, u)].parent = 0
  BY <1>1, RootOf
<1>3. RootIn(ts, u) = RootIn(ts, t)
  BY <1>1, <1>2, RootOf
<1> QED BY <1>1, <1>3 DEF FamilyIn

\* Adding tasks and changing others than their parents keeps the lineages.
Extends(us, ts) ==
    /\ WellFormed(ts) /\ WellFormed(us) /\ Len(ts) <= Len(us)
    /\ \A i \in 1..Len(ts) :
          us[i].parent = ts[i].parent /\ us[i].architect = ts[i].architect

LEMMA LineageStays ==
    ASSUME NEW ts, NEW us, Extends(us, ts), NEW t \in 1..Len(ts)
    PROVE  /\ LineageIn(us, t) = LineageIn(ts, t) /\ AttemptIn(us, t) = AttemptIn(ts, t)
           /\ RootIn(us, t) = RootIn(ts, t) /\ t \in 1..Len(us)
<1> USE DEF Extends
<1> DEFINE S == {i \in 1..Len(ts) : /\ LineageIn(us, i) = LineageIn(ts, i)
                                    /\ AttemptIn(us, i) = AttemptIn(ts, i)}
<1>1. Len(ts) \in Nat /\ Len(us) \in Nat /\ \A i \in 1..Len(ts) : i \in 1..Len(us)
  BY DEF WellFormed
<1>2. ASSUME NEW i \in 1..Len(ts), \A j \in 1..(i - 1) : j \in S
      PROVE  i \in S
  <2>1. i \in Nat /\ (ts[i].parent # 0 => ts[i].parent \in 1..(i - 1))
    BY ParentAt
  <2>2. ts[i].parent # 0 =>
           /\ LineageIn(us, ts[i].parent) = LineageIn(ts, ts[i].parent)
           /\ AttemptIn(us, ts[i].parent) = AttemptIn(ts, ts[i].parent)
    BY <1>2, <2>1
  <2>3. us[i].parent = ts[i].parent /\ us[i].architect = ts[i].architect /\ i \in 1..Len(us)
    BY <1>1
  <2>4. LineageIn(us, i) = LineageIn(ts, i)
    <3>1. LineageIn(ts, i) = {i} \cup (IF ts[i].parent = 0 THEN {} ELSE LineageIn(ts, ts[i].parent))
      BY LineageUnfolds
    <3>2. LineageIn(us, i) = {i} \cup (IF us[i].parent = 0 THEN {} ELSE LineageIn(us, us[i].parent))
      BY <2>3, LineageUnfolds
    <3> QED BY <2>2, <2>3, <3>1, <3>2
  <2>5. AttemptIn(us, i) = AttemptIn(ts, i)
    <3>1. AttemptIn(ts, i) = {i} \cup (IF ts[i].parent = 0 \/ ts[i].architect
                                      THEN {} ELSE AttemptIn(ts, ts[i].parent))
      BY AttemptUnfolds
    <3>2. AttemptIn(us, i) = {i} \cup (IF us[i].parent = 0 \/ us[i].architect
                                      THEN {} ELSE AttemptIn(us, us[i].parent))
      BY <2>3, AttemptUnfolds
    <3> QED BY <2>2, <2>3, <3>1, <3>2
  <2> QED BY <2>4, <2>5
<1>3. t \in S
  <2> HIDE DEF S
  <2> QED BY <1>1, <1>2, Climb
<1>4. RootIn(us, t) = RootIn(ts, t)
  <2>1. RootIn(ts, t) \in LineageIn(ts, t) /\ ts[RootIn(ts, t)].parent = 0
    BY RootOf
  <2>2. RootIn(ts, t) \in 1..Len(ts)
    BY <2>1, LineageNested
  <2>3. t \in 1..Len(us) /\ RootIn(ts, t) \in LineageIn(us, t) /\ us[RootIn(ts, t)].parent = 0
    BY <1>1, <1>3, <2>1, <2>2
  <2> QED BY <2>3, RootOf
<1> QED BY <1>1, <1>3, <1>4

\* The function f passes a value down from the tasks where it stops.
Passes(f, n, up, stop, value) ==
    \A i \in 1..n : f[i] = IF i \in stop THEN value[i] ELSE f[up[i]]

LEMMA PassExists ==
    ASSUME NEW n \in Nat, NEW up, NEW stop, NEW value,
           \A i \in 1..n : i \notin stop => up[i] \in 1..(i - 1)
    PROVE  \E f : Passes(f, n, up, stop, value)
<1> DEFINE Part(f, k) ==
              \A i \in 1..k : f[i] = IF i \in stop THEN value[i] ELSE f[up[i]]
           S == {k \in 1..(n + 1) : \E f : Part(f, k - 1)}
<1>1. ASSUME NEW k \in 1..(n + 1), \A j \in 1..(k - 1) : j \in S
      PROVE  k \in S
  <2>1. CASE k = 1
    <3>1. Part(<<>>, 0)
      OBVIOUS
    <3> QED BY <2>1, <3>1
  <2>2. CASE k # 1
    <3>1. k - 1 \in 1..n /\ k - 1 \in 1..(k - 1) /\ (k - 1) - 1 = k - 2
      BY <2>2
    <3>2. PICK f : Part(f, k - 2)
      <4>1. k - 1 \in S
        BY <1>1, <3>1
      <4>2. \E f : Part(f, (k - 1) - 1)
        BY <4>1
      <4> HIDE DEF Part
      <4> QED BY <3>1, <4>2
    <3> DEFINE i0 == k - 1
               top == IF i0 \in stop THEN value[i0] ELSE f[up[i0]]
               g == [i \in 1..i0 |-> IF i = i0 THEN top ELSE f[i]]
    <3>3. ASSUME NEW i \in 1..i0
          PROVE  g[i] = IF i \in stop THEN value[i] ELSE g[up[i]]
      <4>1. i \notin stop => up[i] \in 1..(i - 1)
        BY <3>1
      <4>2. CASE i = i0
        BY <3>1, <4>1, <4>2
      <4>3. CASE i # i0
        <5>1. i \in 1..(k - 2)
          BY <3>1, <4>3
        <5>2. i \notin stop => up[i] \in 1..i0 /\ up[i] # i0
          BY <3>1, <4>1, <5>1
        <5>3. g[i] = f[i] /\ (i \notin stop => g[up[i]] = f[up[i]])
          BY <4>3, <5>2
        <5> HIDE DEF g, i0
        <5> QED BY <3>2, <5>1, <5>3
      <4> QED BY <4>2, <4>3
    <3>4. Part(g, k - 1)
      BY <3>3
    <3> QED BY <3>4
  <2> QED BY <2>1, <2>2
<1>2. n + 1 \in S
  <2>1. n + 1 \in Nat /\ n + 1 \in 1..(n + 1)
    OBVIOUS
  <2> HIDE DEF S
  <2> QED BY <1>1, <2>1, Climb
<1> QED BY <1>2 DEF Passes

ContractIn(ts, t) ==
    LET up[i \in 1..Len(ts)] ==
            IF ts[i].planned THEN ts[i].contract
            ELSE IF ts[i].parent = 0 THEN FALSE ELSE up[ts[i].parent]
    IN  up[t]

LEMMA ContractRead ==
    ASSUME NEW t
    PROVE  Contract(t) = ContractIn(tasks, t) /\ Contract(t)' = ContractIn(tasks', t)
  BY Zenon DEF Contract, ContractIn, Ids

LEMMA ContractUnfolds ==
    ASSUME NEW ts, WellFormed(ts), NEW t \in 1..Len(ts)
    PROVE  ContractIn(ts, t) =
              IF ts[t].planned THEN ts[t].contract
              ELSE IF ts[t].parent = 0 THEN FALSE ELSE ContractIn(ts, ts[t].parent)
<1> DEFINE n == Len(ts)
           stop == {i \in 1..n : ts[i].planned \/ ts[i].parent = 0}
           up == [i \in 1..n |-> ts[i].parent]
           value == [i \in 1..n |-> IF ts[i].planned THEN ts[i].contract ELSE FALSE]
<1>1. \A i \in 1..n : i \notin stop => up[i] \in 1..(i - 1)
  BY ParentAt
<1>2. \E f : Passes(f, n, up, stop, value)
  <2>1. n \in Nat
    BY ParentAt
  <2> HIDE DEF stop, up, n, value
  <2> QED BY <1>1, <2>1, PassExists
<1>3. \E f : f = [i \in 1..n |-> IF ts[i].planned THEN ts[i].contract
                                ELSE IF ts[i].parent = 0 THEN FALSE ELSE f[ts[i].parent]]
  <2>1. PICK f : \A i \in 1..n : f[i] = IF i \in stop THEN value[i] ELSE f[up[i]]
    BY <1>2 DEF Passes
  <2> DEFINE g == [i \in 1..n |-> f[i]]
  <2>2. ASSUME NEW i \in 1..n
        PROVE  g[i] = IF ts[i].planned THEN ts[i].contract
                      ELSE IF ts[i].parent = 0 THEN FALSE ELSE g[ts[i].parent]
    <3>1. ts[i].parent # 0 => ts[i].parent \in 1..n
      BY ParentAt
    <3> QED BY <2>1, <3>1
  <2>3. g = [i \in 1..n |-> IF ts[i].planned THEN ts[i].contract
                           ELSE IF ts[i].parent = 0 THEN FALSE ELSE g[ts[i].parent]]
    BY <2>2
  <2> QED BY <2>3
<1>4. PICK f : f = (CHOOSE g : g = [i \in 1..n |->
                       IF ts[i].planned THEN ts[i].contract
                       ELSE IF ts[i].parent = 0 THEN FALSE ELSE g[ts[i].parent]])
  OBVIOUS
<1>5. f = [i \in 1..n |-> IF ts[i].planned THEN ts[i].contract
                        ELSE IF ts[i].parent = 0 THEN FALSE ELSE f[ts[i].parent]]
  BY <1>3, <1>4
<1>6. \A u : ContractIn(ts, u) = f[u]
  BY <1>4, Zenon DEF ContractIn
<1> QED BY <1>5, <1>6

LEMMA ContractStays ==
    ASSUME NEW ts, NEW us, Extends(us, ts), NEW t \in 1..Len(ts),
           \A i \in 1..Len(ts) : us[i].planned = ts[i].planned /\ us[i].contract = ts[i].contract
    PROVE  ContractIn(us, t) = ContractIn(ts, t)
<1> USE DEF Extends
<1> DEFINE S == {i \in 1..Len(ts) : ContractIn(us, i) = ContractIn(ts, i)}
<1>1. Len(ts) \in Nat /\ Len(us) \in Nat /\ \A i \in 1..Len(ts) : i \in 1..Len(us)
  BY DEF WellFormed
<1>2. ASSUME NEW i \in 1..Len(ts), \A j \in 1..(i - 1) : j \in S
      PROVE  i \in S
  <2>1. i \in Nat /\ (ts[i].parent # 0 => ts[i].parent \in 1..(i - 1))
    BY ParentAt
  <2>2. ts[i].parent # 0 => ContractIn(us, ts[i].parent) = ContractIn(ts, ts[i].parent)
    BY <1>2, <2>1
  <2>3. /\ us[i].parent = ts[i].parent /\ i \in 1..Len(us)
        /\ us[i].planned = ts[i].planned /\ us[i].contract = ts[i].contract
    BY <1>1
  <2>4. ContractIn(ts, i) = IF ts[i].planned THEN ts[i].contract
                            ELSE IF ts[i].parent = 0 THEN FALSE
                            ELSE ContractIn(ts, ts[i].parent)
    BY ContractUnfolds
  <2>5. ContractIn(us, i) = IF us[i].planned THEN us[i].contract
                            ELSE IF us[i].parent = 0 THEN FALSE
                            ELSE ContractIn(us, us[i].parent)
    BY <2>3, ContractUnfolds
  <2>6. ContractIn(us, i) = ContractIn(ts, i)
    <3>1. CASE ts[i].planned
      BY <2>3, <2>4, <2>5, <3>1
    <3>2. CASE ~ts[i].planned /\ ts[i].parent = 0
      BY <2>3, <2>4, <2>5, <3>2
    <3>3. CASE ~ts[i].planned /\ ts[i].parent # 0
      BY <2>2, <2>3, <2>4, <2>5, <3>3
    <3> QED BY <3>1, <3>2, <3>3
  <2> QED BY <2>6
<1>3. t \in S
  <2> HIDE DEF S
  <2> QED BY <1>1, <1>2, Climb
<1> QED BY <1>3

-----------------------------------------------------------------------------
(* What a transaction may make of a task's status and marks. *)

SamePlace(old, new) ==
    /\ new.parent = old.parent /\ new.architect = old.architect
    /\ new.planned = old.planned /\ new.contract = old.contract

SameDecision(old, new) == new.decision = old.decision /\ new.assessed = old.assessed

SameMarks(old, new) ==
    SameDecision(old, new) /\ new.routed = old.routed /\ new.resolves = old.resolves

Shelved == {"Proposed", "Approved", "Cancelled"}

\* The status moves without a review...
Works(t, task) ==
    /\ SameMarks(tasks[t], task)
    /\ \/ task.status = tasks[t].status
       \/ tasks[t].status \in Shelved /\ task.status \in Shelved
       \/ tasks[t].status = "Approved" /\ task.status = "Running" /\ FamilyLive(t)
       \/ tasks[t].status = "Running" /\ task.status \in {"ReviewReady", "Failed", "Cancelled"}

\* ... by a verdict on review-ready work ...
Judged(t, task) ==
    /\ tasks[t].status = "ReviewReady" /\ FamilyLive(t)
    /\ task.status \in {"Accepted", "Rejected"}
    /\ task.decision = tasks[t].decision
    /\ task.routed = tasks[t].routed /\ task.resolves = tasks[t].resolves
    /\ task.status = "Accepted" => (Contract(t) => task.assessed = "accept")

\* ... by a decision, which may route the task ...
DecidedOn(t, d, task) ==
    /\ CanDecide(t, d)
    /\ task.status = OutcomeStatus(d) /\ task.decision = d
    /\ task.assessed = tasks[t].assessed /\ task.resolves = tasks[t].resolves
    /\ task.run = tasks[t].run
    /\ \/ task.routed = tasks[t].routed
       \/ CanReviewArchitecture(t, d) /\ PriorFailures(t) >= 1

\* ... or stays, when the task resolves its family.
Resolved(t, task) ==
    /\ task.status = tasks[t].status /\ SameDecision(tasks[t], task)
    /\ task.routed = tasks[t].routed
    /\ tasks[t].status = "Accepted" /\ ~FamilyResolved(t)
    /\ \A u \in Family(t) : tasks[u].status \notin Open \cup Held
    /\ \A u \in Lineage(t) \ {t} : tasks[u].status \in {"Failed", "Rejected", "Cancelled"}

Shift(t, task) ==
    /\ SamePlace(tasks[t], task)
    /\ \/ Works(t, task)
       \/ Judged(t, task)
       \/ \E d \in Decisions : DecidedOn(t, d, task)
       \/ Resolved(t, task)

\* What every transaction may add.
Joins(task) ==
    /\ task.status = "Proposed" /\ task.decision = NoDecision /\ task.assessed = "none"
    /\ ~task.routed /\ ~task.resolves
    /\ task.parent \in Ids => ~RepairIn(task.parent, Held)
    /\ task.architect =>
          /\ task.parent \in Ids
          /\ \A u \in Family(task.parent) : tasks[u].status \notin Open \cup Held
    /\ task.parent = 0 \/ task.parent \in Ids

Shifts ==
    /\ \A t \in Ids : Shift(t, tasks'[t])
    /\ \A t, u \in Ids : t # u => tasks'[t] = tasks[t] \/ tasks'[u] = tasks[u]
    /\ \A n \in 1..Len(tasks') : n \notin Ids =>
          /\ Joins(tasks'[n])
          /\ tasks'[n].architect => \A u \in Ids : tasks'[u] = tasks[u]

LEMMA BecomeShifts ==
    ASSUME TypeOK, NEW t \in Ids, NEW task, Shift(t, task), Become(t, task)
    PROVE  Shifts
<1>1. /\ Len(tasks') = Len(tasks)
      /\ \A u \in Ids : tasks'[u] = IF u = t THEN task ELSE tasks[u]
  BY BecomeReplaces
<1>2. \A u \in Ids : Shift(u, tasks[u])
  BY DEF Shift, SamePlace, Works, SameMarks, SameDecision
<1>3. \A u \in Ids : Shift(u, tasks'[u])
  BY <1>1, <1>2
<1>4. \A n \in 1..Len(tasks') : n \in Ids
  BY <1>1 DEF Ids
<1> QED BY <1>1, <1>3, <1>4 DEF Shifts

LEMMA AddShifts ==
    ASSUME TypeOK, NEW new, Joins(new), Add(new)
    PROVE  Shifts
<1>1. /\ Len(tasks) \in Nat /\ Len(tasks') = Len(tasks) + 1
      /\ \A u \in Ids : tasks'[u] = tasks[u]
      /\ tasks'[Len(tasks) + 1] = new
  BY DEF Add, Ids, TypeOK, WellFormed
<1>2. \A u \in Ids : Shift(u, tasks'[u])
  BY <1>1 DEF Shift, SamePlace, Works, SameMarks, SameDecision
<1>3. \A n \in 1..Len(tasks') : n \notin Ids => n = Len(tasks) + 1
  BY <1>1 DEF Ids
<1> QED BY <1>1, <1>2, <1>3 DEF Shifts

LEMMA BecomeAndAddShifts ==
    ASSUME TypeOK, NEW t \in Ids, NEW task \in Task, NEW new, Shift(t, task), Joins(new),
           new.architect = FALSE, BecomeAndAdd(t, task, new)
    PROVE  Shifts
<1> DEFINE ts == [tasks EXCEPT ![t] = task]
<1>1. ts \in Seq(Task) /\ Len(ts) = Len(tasks) /\ Len(ts) \in Nat
      /\ \A u \in Ids : ts[u] = IF u = t THEN task ELSE tasks[u]
  BY DEF TypeOK, WellFormed, Ids
<1>2. tasks' = Append(ts, new)
  BY DEF BecomeAndAdd
<1> HIDE DEF ts
<1>3. /\ Len(tasks') = Len(tasks) + 1 /\ \A u \in Ids : tasks'[u] = ts[u]
      /\ tasks'[Len(tasks) + 1] = new
  BY <1>1, <1>2 DEF Ids
<1>4. \A u \in Ids : Shift(u, tasks[u])
  BY DEF Shift, SamePlace, Works, SameMarks, SameDecision
<1>5. \A u \in Ids : Shift(u, tasks'[u])
  BY <1>1, <1>3, <1>4
<1>6. \A n \in 1..Len(tasks') : n \notin Ids => n = Len(tasks) + 1
  BY <1>1, <1>3 DEF Ids
<1> QED BY <1>1, <1>3, <1>5, <1>6 DEF Shifts

\* A change of status, and of fields no review reads.
Plain(old, task, status) ==
    SamePlace(old, task) /\ SameMarks(old, task) /\ task.status = status

LEMMA ControlShifts ==
    ASSUME TypeOK, NEW t \in Ids, Control(t)
    PROVE  Shifts
<1>1. tasks[t] \in Task
  BY TaskAt
<1>2. \A status \in Statuses : Plain(tasks[t], WithStatus(t, status), status)
  BY <1>1 DEF WithStatus, Task, Plain, SamePlace, SameMarks, SameDecision
<1>3. ASSUME NEW task, NEW status \in Shelved, Plain(tasks[t], task, status),
             tasks[t].status \in Shelved, Become(t, task)
      PROVE  Shifts
  BY <1>3, BecomeShifts DEF Shift, Works, Plain
<1>4. CASE Assign(t) \/ Approve(t) \/ Cancel(t) \/ Requeue(t)
  <2>1. \E status \in Shelved : Become(t, WithStatus(t, status))
    BY <1>4 DEF Assign, Approve, Cancel, Requeue, Shelved
  <2>2. tasks[t].status \in Shelved
    BY <1>4 DEF Assign, Approve, Cancel, Requeue, Shelved, Unstarted, CanRequeue
  <2> QED BY <1>2, <1>3, <2>1, <2>2 DEF Statuses, Shelved
<1>5. ASSUME NEW policy \in Policies, Permit(t, policy)
      PROVE  Shifts
  <2> DEFINE task == [WithStatus(t, "Proposed") EXCEPT !.policy = policy]
  <2>1. Plain(tasks[t], task, "Proposed")
    BY <1>1 DEF WithStatus, Task, Plain, SamePlace, SameMarks, SameDecision
  <2>2. tasks[t].status \in Shelved /\ "Proposed" \in Shelved /\ Become(t, task)
    BY <1>5 DEF Permit, Unstarted, Shelved
  <2> HIDE DEF task
  <2> QED BY <1>3, <2>1, <2>2
<1>6. ASSUME NEW status \in Statuses, Finish(t, status)
      PROVE  Shifts
  <2> DEFINE task == [WithStatus(t, status) EXCEPT !.evidence = TRUE,
                                                   !.passed = (status = "ReviewReady")]
  <2>1. Plain(tasks[t], task, status)
    BY <1>1 DEF WithStatus, Task, Plain, SamePlace, SameMarks, SameDecision
  <2>2. /\ Become(t, task) /\ tasks[t].status = "Running"
        /\ status \in {"ReviewReady", "Failed", "Cancelled"}
    BY <1>6 DEF Finish
  <2> HIDE DEF task
  <2> QED BY <2>1, <2>2, BecomeShifts DEF Shift, Works, Plain
<1>7. ASSUME NEW baseline \in Baselines, Start(t, baseline)
      PROVE  Shifts
  <2> DEFINE task == Claim(t, baseline, RunInputs(t))
  <2>1. Plain(tasks[t], task, "Running")
    BY <1>1 DEF Claim, Task, Plain, SamePlace, SameMarks, SameDecision
  <2>2. Become(t, task) /\ tasks[t].status = "Approved" /\ FamilyLive(t)
    BY <1>7 DEF Start, WorkAllowed
  <2> HIDE DEF task
  <2> QED BY <2>1, <2>2, BecomeShifts DEF Shift, Works, Plain
<1> QED BY <1>4, <1>5, <1>6, <1>7 DEF Control

LEMMA DecidedShifts ==
    ASSUME TypeOK, NEW t \in Ids, NEW d \in Decisions, CanDecide(t, d)
    PROVE  /\ Decided(t, d) \in Task /\ Shift(t, Decided(t, d))
           /\ CanReviewArchitecture(t, d) /\ PriorFailures(t) >= 1 =>
                 Shift(t, [Decided(t, d) EXCEPT !.routed = TRUE])
<1>1. tasks[t] \in Task
  BY TaskAt
<1> DEFINE task == Decided(t, d)
           routed == [task EXCEPT !.routed = TRUE]
<1>2. /\ task \in Task /\ SamePlace(tasks[t], task)
      /\ task.status = OutcomeStatus(d) /\ task.decision = d
      /\ task.assessed = tasks[t].assessed /\ task.resolves = tasks[t].resolves
      /\ task.routed = tasks[t].routed /\ task.run = tasks[t].run
  <2>1. OutcomeStatus(d) \in Statuses
    BY OutcomeTyped DEF Statuses
  <2> QED BY <1>1, <2>1 DEF Decided, Task, SamePlace
<1>3. Shift(t, task)
  <2> HIDE DEF task
  <2> QED BY <1>2 DEF Shift, DecidedOn
<1>4. /\ SamePlace(tasks[t], routed)
      /\ routed.status = OutcomeStatus(d) /\ routed.decision = d
      /\ routed.assessed = tasks[t].assessed /\ routed.resolves = tasks[t].resolves
      /\ routed.run = tasks[t].run
  <2> HIDE DEF task
  <2> QED BY <1>2 DEF Task, SamePlace
<1>5. CanReviewArchitecture(t, d) /\ PriorFailures(t) >= 1 => Shift(t, routed)
  <2> HIDE DEF task, routed
  <2> QED BY <1>4 DEF Shift, DecidedOn
<1> QED BY <1>2, <1>3, <1>5

\* A task is in its own family, and its repairs and ancestors are too.
LEMMA FamilyMembers ==
    ASSUME TypeOK, NEW t \in Ids
    PROVE  /\ t \in Family(t) /\ Lineage(t) \subseteq Family(t) /\ Family(t) \subseteq Ids
           /\ \A u \in Ids : tasks[u].parent = t => u \in Family(t)
<1>1. WellFormed(tasks) /\ Ids = 1..Len(tasks)
  BY DEF TypeOK, Ids
<1>2. t \in Family(t) /\ Lineage(t) \subseteq Family(t) /\ Family(t) \subseteq Ids
  <2>1. t \in Family(t) /\ Family(t) \subseteq Ids
    BY DEF Family
  <2> QED BY <1>1, <2>1, FamiliesRead, LineageInFamily
<1>3. ASSUME NEW u \in Ids, tasks[u].parent = t
      PROVE  u \in Family(t)
  <2>1. t \in LineageIn(tasks, u)
    <3>1. LineageIn(tasks, u) = {u} \cup LineageIn(tasks, t) /\ t \in LineageIn(tasks, t)
      <4>1. t # 0
        BY <1>1, TaskAt DEF TaskIds
      <4> QED BY <1>1, <1>3, <4>1, LineageUnfolds, LineageBelow
    <3> QED BY <3>1
  <2>2. RootIn(tasks, t) = RootIn(tasks, u)
    BY <1>1, <2>1, LineageInFamily
  <2> QED BY <2>2, FamiliesRead DEF Family
<1> QED BY <1>2, <1>3

LEMMA NewTaskJoins ==
    ASSUME NEW deps, NEW policy, NEW parent,
           parent = 0 \/ (parent \in Ids /\ ~RepairIn(parent, Held))
    PROVE  Joins(NewTask(deps, policy, parent))
<1> DEFINE new == NewTask(deps, policy, parent)
<1>1. /\ new.status = "Proposed" /\ new.decision = NoDecision /\ new.assessed = "none"
      /\ new.routed = FALSE /\ new.resolves = FALSE /\ new.parent = parent
      /\ new.architect = FALSE
  BY DEF NewTask
<1>2. 0 \notin Ids
  BY DEF Ids
<1> HIDE DEF new
<1>3. Joins(new)
  BY <1>1, <1>2 DEF Joins
<1> QED BY <1>3 DEF new

LEMMA ReviewShifts ==
    ASSUME TypeOK, NEW t \in Ids, ReviewStep(t)
    PROVE  Shifts
<1>1. tasks[t] \in Task
  BY TaskAt
<1>2. \A status \in Statuses : Plain(tasks[t], WithStatus(t, status), status)
  BY <1>1 DEF WithStatus, Task, Plain, SamePlace, SameMarks, SameDecision
<1>3. \A accept \in BOOLEAN : Verdict(accept) \in {"Accepted", "Rejected"}
                              /\ (Verdict(accept) = "Accepted" => accept)
  BY DEF Verdict
<1>4. ASSUME NEW accept \in BOOLEAN, Review(t, accept)
      PROVE  Shifts
  <2> DEFINE task == WithStatus(t, Verdict(accept))
  <2>1. Plain(tasks[t], task, Verdict(accept))
    BY <1>2, <1>3 DEF Statuses
  <2>2. /\ Become(t, task) /\ tasks[t].status = "ReviewReady" /\ FamilyLive(t)
        /\ accept => ~Contract(t)
    BY <1>4 DEF Review, PlainVerdict
  <2>3. Judged(t, task) /\ SamePlace(tasks[t], task)
    <3> HIDE DEF task
    <3> QED BY <1>3, <2>1, <2>2 DEF Judged, Plain, SameMarks, SameDecision
  <2> QED BY <2>2, <2>3, BecomeShifts DEF Shift
<1>5. ASSUME NEW accept \in BOOLEAN, NEW criteria \in {"none", "met", "unmet"},
             Assess(t, accept, criteria)
      PROVE  Shifts
  <2> DEFINE verdict == WithStatus(t, Verdict(accept))
             task == [verdict EXCEPT !.assessed = IF accept THEN "accept" ELSE "reject"]
  <2>1. Plain(tasks[t], verdict, Verdict(accept)) /\ verdict \in Task
    BY <1>1, <1>2, <1>3, StatusTyped DEF Statuses
  <2>2. /\ SamePlace(tasks[t], task) /\ task.status = Verdict(accept)
        /\ task.decision = tasks[t].decision /\ task.routed = tasks[t].routed
        /\ task.resolves = tasks[t].resolves
        /\ accept => task.assessed = "accept"
    <3> HIDE DEF verdict
    <3> QED BY <2>1 DEF Plain, Task, SamePlace, SameMarks, SameDecision
  <2>3. Become(t, task) /\ tasks[t].status = "ReviewReady" /\ FamilyLive(t)
    BY <1>5 DEF Assess
  <2>4. Judged(t, task)
    <3> HIDE DEF task
    <3> QED BY <1>3, <2>2, <2>3 DEF Judged
  <2> QED BY <2>2, <2>3, <2>4, BecomeShifts DEF Shift
<1>6. ASSUME NEW d \in Decisions, Decide(t, d) \/ RouteToArchitect(t, d)
      PROVE  Shifts
  <2> DEFINE decided == Decided(t, d)
             routed == [decided EXCEPT !.routed = TRUE]
  <2>1. CanDecide(t, d)
    BY <1>6 DEF Decide, RouteToArchitect, CanReviewArchitecture
  <2>2. Shift(t, decided)
    BY <2>1, DecidedShifts
  <2>3. RouteToArchitect(t, d) => Shift(t, routed)
    BY <2>1, DecidedShifts DEF RouteToArchitect
  <2>4. Decide(t, d) => Become(t, decided)
    BY DEF Decide
  <2>5. RouteToArchitect(t, d) => Become(t, routed)
    BY DEF RouteToArchitect
  <2> HIDE DEF decided, routed
  <2> QED BY <1>6, <2>2, <2>3, <2>4, <2>5, BecomeShifts
<1>7. ASSUME NEW d \in Decisions, ReviewAndRepair(t, d) \/ RepairArchitecture(t, d)
      PROVE  Shifts
  <2>1. /\ CanDecide(t, d) /\ ~RepairIn(t, Open \cup Held)
        /\ BecomeAndAdd(t, Decided(t, d), RepairTask(t))
    BY <1>7 DEF ReviewAndRepair, RepairArchitecture, CanReviewArchitecture
  <2>2. Joins(RepairTask(t))
    <3>1. ~RepairIn(t, Held)
      BY <2>1 DEF RepairIn
    <3> QED BY <3>1, NewTaskJoins DEF RepairTask
  <2>3. RepairTask(t).architect = FALSE
    BY DEF RepairTask, NewTask
  <2> QED BY <2>1, <2>2, <2>3, DecidedShifts, BecomeAndAddShifts
<1>8. CASE ResolveRepair(t)
  <2> DEFINE task == [tasks[t] EXCEPT !.resolves = TRUE]
  <2>1. /\ SamePlace(tasks[t], task) /\ task.status = tasks[t].status
        /\ SameDecision(tasks[t], task) /\ task.routed = tasks[t].routed
    BY <1>1 DEF Task, SamePlace, SameDecision
  <2>2. Become(t, task)
    BY <1>8 DEF ResolveRepair
  <2>3. Resolved(t, task)
    <3> HIDE DEF task
    <3> QED BY <1>8, <2>1 DEF ResolveRepair, Resolved
  <2> QED BY <2>1, <2>2, <2>3, BecomeShifts DEF Shift
<1>9. CASE Branch(t)
  <2>1. \A u \in Ids : Shift(u, tasks'[u])
    BY <1>9 DEF Branch, Shift, SamePlace, Works, SameMarks, SameDecision
  <2> QED BY <1>9, <2>1 DEF Branch, Shifts, Ids
<1> QED BY <1>4, <1>5, <1>6, <1>7, <1>8, <1>9 DEF ReviewStep

LEMMA NewWorkShifts ==
    ASSUME TypeOK, NewWork
    PROVE  Shifts
<1>1. ASSUME NEW deps \in SUBSET Ids, Propose(deps)
      PROVE  Shifts
  BY <1>1, NewTaskJoins, AddShifts DEF Propose
<1>2. ASSUME NEW shape \in PlanShapes, NEW policy \in Policies, Plan(shape, policy)
      PROVE  Shifts
  <2> DEFINE news == [i \in 1..Len(shape) |-> PlannedTask(shape[i], policy)]
  <2>1. Len(shape) \in Nat /\ tasks' = tasks \o news /\ tasks \in Seq(Task)
    BY <1>2, PlanAssumption DEF Plan, TypeOK, WellFormed
  <2>2. ASSUME NEW i \in 1..Len(shape)
        PROVE  Joins(news[i])
    <3> DEFINE new == news[i]
    <3>1. new = PlannedTask(shape[i], policy) /\ 0 \notin Ids
      BY DEF Ids
    <3>2. /\ new.status = "Proposed" /\ new.decision = NoDecision
          /\ new.assessed = "none" /\ new.routed = FALSE /\ new.resolves = FALSE
          /\ new.parent = 0 /\ new.architect = FALSE
      BY <3>1 DEF PlannedTask, NewTask
    <3> HIDE DEF news, new
    <3>3. Joins(new)
      BY <3>1, <3>2 DEF Joins
    <3> QED BY <3>3 DEF new
  <2>3. \A u \in Ids : tasks'[u] = tasks[u]
    BY <2>1 DEF Ids
  <2>4. ASSUME NEW n \in 1..Len(tasks'), n \notin Ids
        PROVE  Joins(tasks'[n])
    <3>1. /\ Len(news) = Len(shape) /\ Len(tasks) \in Nat
          /\ Len(tasks') = Len(tasks) + Len(shape)
      BY <2>1
    <3>2. n - Len(tasks) \in 1..Len(shape) /\ tasks'[n] = news[n - Len(tasks)]
      BY <2>1, <2>4, <3>1 DEF Ids
    <3> HIDE DEF news
    <3> QED BY <2>2, <3>2
  <2>5. \A u \in Ids : Shift(u, tasks'[u])
    BY <2>3 DEF Shift, SamePlace, Works, SameMarks, SameDecision
  <2> QED BY <2>3, <2>4, <2>5 DEF Shifts
<1>3. ASSUME NEW t \in Ids, Repair(t)
      PROVE  Shifts
  <2>1. ~RepairIn(t, Held) /\ Add(RepairTask(t))
    BY <1>3 DEF Repair, RepairIn
  <2> QED BY <2>1, NewTaskJoins, AddShifts DEF RepairTask
<1>4. ASSUME NEW t \in Ids, NEW policy \in Policies, AdoptArchitecture(t, policy)
      PROVE  Shifts
  <2>1. (\A u \in Family(t) : tasks[u].status \notin Open \cup Held) /\ Add(RevisedTask(t, policy))
    BY <1>4 DEF AdoptArchitecture, ArchitectureOrigin
  <2>2. ~RepairIn(t, Held)
    BY <2>1, FamilyMembers DEF RepairIn
  <2>3. Joins(RevisedTask(t, policy))
    BY <2>1, <2>2 DEF RevisedTask, NewTask, Joins
  <2> QED BY <2>1, <2>3, AddShifts
<1> QED BY <1>1, <1>2, <1>3, <1>4 DEF NewWork

LEMMA EveryStepShifts ==
    ASSUME TypeOK, [Next]_vars
    PROVE  Shifts
<1>1. CASE DraftScope \/ ConfirmScope \/ UNCHANGED vars
  <2>1. UNCHANGED tasks
    BY <1>1 DEF DraftScope, ConfirmScope, vars
  <2>2. \A u \in Ids : Shift(u, tasks'[u])
    BY <2>1 DEF Shift, SamePlace, Works, SameMarks, SameDecision
  <2> QED BY <2>1, <2>2 DEF Shifts, Ids
<1> QED BY <1>1, NewWorkShifts, ControlShifts, ReviewShifts DEF Next

-----------------------------------------------------------------------------
(* What becomes of the families in a step. *)

LEMMA StepFrame ==
    ASSUME IInv, [Next]_vars
    PROVE  /\ WellFormed(tasks) /\ WellFormed(tasks') /\ Extends(tasks', tasks)
           /\ Ids = 1..Len(tasks) /\ Ids' = 1..Len(tasks') /\ Ids \subseteq Ids'
           /\ \A u \in Ids : Legal(u, tasks'[u]) /\ Shift(u, tasks'[u])
           /\ \A t, u \in Ids : t # u => tasks'[t] = tasks[t] \/ tasks'[u] = tasks[u]
           /\ \A n \in Ids' : n \notin Ids =>
                 /\ Fresh(n, tasks'[n]) /\ Joins(tasks'[n])
                 /\ tasks'[n].architect => \A u \in Ids : tasks'[u] = tasks[u]
<1>1. Moves /\ Shifts /\ TypeOK
  BY EveryStepMoves, EveryStepShifts DEF IInv
<1>2. /\ WellFormed(tasks') /\ Len(tasks) <= Len(tasks')
      /\ \A u \in Ids : Legal(u, tasks'[u])
      /\ \A u \in 1..Len(tasks') : u \notin Ids => Fresh(u, tasks'[u])
  BY <1>1, MovesPointwise
<1>3. WellFormed(tasks) /\ Ids = 1..Len(tasks) /\ Ids' = 1..Len(tasks')
  BY <1>1 DEF TypeOK, Ids
<1>4. Len(tasks) \in Nat /\ Len(tasks') \in Nat
  BY <1>2, <1>3 DEF WellFormed
<1>5. Extends(tasks', tasks)
  BY <1>1, <1>2, <1>3 DEF Extends, Shifts, Shift, SamePlace
<1> QED BY <1>1, <1>2, <1>3, <1>4, <1>5 DEF Shifts

\* The family of an existing task stays as it is and may get repairs.
LEMMA FamiliesStay ==
    ASSUME IInv, [Next]_vars, NEW t \in Ids
    PROVE  /\ Lineage(t)' = Lineage(t) /\ Attempt(t)' = Attempt(t)
           /\ RepairRoot(t)' = RepairRoot(t) /\ Contract(t)' = Contract(t)
<1>1. t \in 1..Len(tasks) /\ Extends(tasks', tasks)
  BY StepFrame
<1>2. \A i \in 1..Len(tasks) : /\ tasks'[i].planned = tasks[i].planned
                               /\ tasks'[i].contract = tasks[i].contract
  BY StepFrame DEF Shift, SamePlace
<1>3. ContractIn(tasks', t) = ContractIn(tasks, t)
  BY <1>1, <1>2, ContractStays
<1> QED BY <1>1, <1>3, FamiliesRead, ContractRead, LineageStays

LEMMA Newcomer ==
    ASSUME IInv, [Next]_vars, NEW n \in Ids', n \notin Ids
    PROVE  /\ n \in Nat /\ \A u \in Ids : u < n
           /\ tasks'[n].parent = 0 => RepairRoot(n)' = n /\ Lineage(n)' = {n}
           /\ tasks'[n].parent # 0 =>
                 /\ tasks'[n].parent \in Ids
                 /\ RepairRoot(n)' = RepairRoot(tasks'[n].parent)
<1> DEFINE p == tasks'[n].parent
<1>1. WellFormed(tasks') /\ n \in 1..Len(tasks') /\ (p = 0 \/ p \in Ids)
  BY StepFrame DEF Joins
<1>2. n \in Nat /\ \A u \in Ids : u < n
  <2>1. Ids = 1..Len(tasks) /\ Len(tasks) \in Nat /\ Len(tasks') \in Nat
    BY StepFrame DEF WellFormed
  <2> QED BY <1>1, <2>1
<1>3. RootIn(tasks', n) \in LineageIn(tasks', n)
  BY <1>1, RootOf
<1>4. p = 0 => RootIn(tasks', n) = n /\ LineageIn(tasks', n) = {n}
  BY <1>1, <1>3, LineageUnfolds
<1>5. ASSUME p # 0
      PROVE  p \in Ids /\ RootIn(tasks', n) = RootIn(tasks, p)
  <2>1. p \in Ids /\ p \in 1..Len(tasks')
    BY <1>1, <1>5, StepFrame
  <2>2. LineageIn(tasks', n) = {n} \cup LineageIn(tasks', p)
    BY <1>1, <1>5, LineageUnfolds
  <2>3. p \in LineageIn(tasks', n)
    BY <1>1, <2>1, <2>2, LineageBelow
  <2>4. RootIn(tasks', p) = RootIn(tasks', n)
    BY <1>1, <2>3, LineageInFamily
  <2>5. RootIn(tasks', p) = RootIn(tasks, p)
    BY <2>1, StepFrame, LineageStays
  <2> QED BY <2>1, <2>4, <2>5
<1>6. ASSUME p # 0 PROVE RepairRoot(p) = RootIn(tasks, p)
  <2>1. \A u : RepairRoot(u) = RootIn(tasks, u)
    BY FamiliesRead
  <2> QED BY <2>1
<1> QED BY <1>2, <1>4, <1>5, <1>6, FamiliesRead

LEMMA FamilyGrows ==
    ASSUME IInv, [Next]_vars, NEW t \in Ids, NEW u \in Family(t)'
    PROVE  /\ u \in Ids'
           /\ u \in Ids => u \in Family(t)
           /\ u \notin Ids => /\ tasks'[u].parent \in Ids
                              /\ tasks'[u].parent \in Family(t)
<1>1. u \in Ids' /\ RepairRoot(u)' = RepairRoot(t)'
  BY DEF Family
<1>2. RepairRoot(t)' = RepairRoot(t) /\ RepairRoot(t) \in Ids
  <2>1. RootIn(tasks, t) \in 1..Len(tasks)
    BY StepFrame, RootOf, LineageNested
  <2> QED BY <2>1, FamiliesStay, FamiliesRead, StepFrame
<1>3. ASSUME u \in Ids PROVE u \in Family(t)
  <2>1. RepairRoot(u)' = RepairRoot(u)
    BY <1>3, FamiliesStay
  <2> QED BY <1>1, <1>2, <1>3, <2>1 DEF Family
<1>4. ASSUME u \notin Ids
      PROVE  tasks'[u].parent \in Ids /\ tasks'[u].parent \in Family(t)
  BY <1>1, <1>2, <1>4, Newcomer DEF Family
<1> QED BY <1>1, <1>3, <1>4

-----------------------------------------------------------------------------
(* The inductive invariant of the families. *)

Undecided == {"Proposed", "Approved", "Cancelled", "Running", "ReviewReady", "Failed"}

\* A task has a decision or an assessment only after a review, and one that
\* found a failure of the architecture rejected it.
Reviewed(task) ==
    /\ task.status \in Undecided => task.decision = NoDecision /\ task.assessed = "none"
    /\ task.decision.architecture /\ ProposesRepair(task.decision) =>
          task.status = "Rejected"

\* A routed task was rejected, for the second failure of its attempt at least.
RoutedTwice(t) ==
    tasks[t].routed => tasks[t].status = "Rejected" /\ ArchitectureFailures(t) >= 2

FamilyInv ==
    /\ IInv
    /\ \A t \in Ids : Reviewed(tasks[t])
    /\ AcceptedMeetsContract
    /\ ResolutionIsFinal
    /\ SupersededIsDormant
    /\ \A t \in Ids : RoutedTwice(t)

LEMMA FamilyInit == Init => FamilyInv
<1> SUFFICES ASSUME Init PROVE FamilyInv
  OBVIOUS
<1>1. IInv /\ Ids = {}
  BY Initially DEF Init, Ids
<1> QED BY <1>1 DEF FamilyInv, AcceptedMeetsContract, ResolutionIsFinal, SupersededIsDormant

\* What a decision makes of the status.
LEMMA OutcomeOf ==
    ASSUME NEW d \in Decisions
    PROVE  /\ OutcomeStatus(d) \in {"NeedsHumanReview", "Accepted", "Rejected"}
           /\ OutcomeStatus(d) = "Accepted" => Approves(d)
           /\ ProposesRepair(d) => OutcomeStatus(d) = "Rejected"
           /\ d # NoDecision /\ d.criteria \in {"none", "met", "unmet"}
<1>1. d \in Decision
  BY DecisionAssumption
<1>2. d # NoDecision
  BY <1>1 DEF Decision, NoDecision, Outcomes
<1> QED BY <1>1, <1>2, OutcomeTyped
      DEF OutcomeStatus, ProposesRepair, Approves, Decision, Outcomes

LEMMA KeepReviewed ==
    ASSUME FamilyInv, [Next]_vars, NEW t \in Ids'
    PROVE  Reviewed(tasks'[t])
<1>1. CASE t \notin Ids
  BY <1>1, StepFrame DEF FamilyInv, Joins, Reviewed, NoDecision
<1>2. CASE t \in Ids
  <2>1. Shift(t, tasks'[t]) /\ Reviewed(tasks[t]) /\ Kept(tasks[t], tasks'[t])
    BY <1>2, StepFrame DEF FamilyInv, Legal
  <2>2. CASE Works(t, tasks'[t])
    BY <2>1, <2>2 DEF Works, SameMarks, SameDecision, Reviewed, Undecided, Shelved, Kept
  <2>3. CASE Judged(t, tasks'[t])
    BY <2>1, <2>3 DEF Judged, Reviewed, Undecided, NoDecision
  <2>4. ASSUME NEW d \in Decisions, DecidedOn(t, d, tasks'[t])
        PROVE  Reviewed(tasks'[t])
    BY <2>4, OutcomeOf DEF DecidedOn, Reviewed, Undecided
  <2>5. CASE Resolved(t, tasks'[t])
    BY <2>1, <2>5 DEF Resolved, SameDecision, Reviewed
  <2> QED BY <2>1, <2>2, <2>3, <2>4, <2>5 DEF Shift
<1> QED BY <1>1, <1>2

LEMMA KeepContract ==
    ASSUME FamilyInv, [Next]_vars
    PROVE  AcceptedMeetsContract'
<1> SUFFICES ASSUME NEW t \in Ids', tasks'[t].status = "Accepted", Contract(t)'
             PROVE  IF tasks'[t].decision # NoDecision
                    THEN Approves(tasks'[t].decision) /\ tasks'[t].decision.criteria = "met"
                    ELSE tasks'[t].assessed = "accept"
  BY DEF AcceptedMeetsContract, PassingReview
<1>1. t \in Ids
  BY StepFrame DEF FamilyInv, Joins
<1>2. /\ Shift(t, tasks'[t]) /\ Reviewed(tasks[t]) /\ Contract(t)
      /\ tasks[t].status = "Accepted" => PassingReview(t)
  BY <1>1, StepFrame, FamiliesStay DEF FamilyInv, AcceptedMeetsContract
<1>3. CASE Works(t, tasks'[t])
  BY <1>2, <1>3 DEF Works, SameMarks, SameDecision, PassingReview, Shelved
<1>4. CASE Judged(t, tasks'[t])
  BY <1>2, <1>4 DEF Judged, Reviewed, Undecided
<1>5. ASSUME NEW d \in Decisions, DecidedOn(t, d, tasks'[t])
      PROVE  tasks'[t].decision # NoDecision /\ Approves(tasks'[t].decision)
             /\ tasks'[t].decision.criteria = "met"
  <2>1. tasks'[t].decision = d /\ CanDecide(t, d) /\ Approves(d)
    BY <1>5, OutcomeOf DEF DecidedOn
  <2>2. d.criteria # "none" /\ d.criteria # "unmet"
    BY <1>2, <2>1 DEF CanDecide, ValidDecision, Covers
  <2> QED BY <2>1, <2>2, OutcomeOf
<1>6. CASE Resolved(t, tasks'[t])
  BY <1>2, <1>6 DEF Resolved, SameDecision, PassingReview
<1> QED BY <1>2, <1>3, <1>4, <1>5, <1>6 DEF Shift

\* No task of a resolved family gets to work, is held or is accepted.
LEMMA ResolvedRests ==
    ASSUME IInv, [Next]_vars, NEW s \in Ids, tasks[s].resolves, NEW u \in Family(s)
    PROVE  /\ u \in Ids
           /\ u # s => tasks'[u].resolves = tasks[u].resolves
           /\ tasks'[u].status = "Accepted" => tasks[u].status = "Accepted"
           /\ tasks[u].status \notin {"Running", "ReviewReady", "NeedsHumanReview"} =>
                 tasks'[u].status \notin {"Running", "ReviewReady", "NeedsHumanReview"}
<1>1. u \in Ids /\ FamilyResolved(u)
  BY DEF Family, FamilyResolved
<1>2. Shift(u, tasks'[u]) /\ ~FamilyLive(u)
  BY <1>1, StepFrame DEF FamilyLive
<1>3. CASE Works(u, tasks'[u])
  BY <1>1, <1>2, <1>3 DEF Works, SameMarks, Shelved
<1>4. ~Judged(u, tasks'[u])
  BY <1>2 DEF Judged
<1>5. \A d \in Decisions : ~DecidedOn(u, d, tasks'[u])
  BY <1>2 DEF DecidedOn, CanDecide
<1>6. ~Resolved(u, tasks'[u])
  BY <1>1 DEF Resolved
<1> QED BY <1>1, <1>2, <1>3, <1>4, <1>5, <1>6 DEF Shift

LEMMA KeepResolution ==
    ASSUME FamilyInv, [Next]_vars
    PROVE  ResolutionIsFinal'
<1> DEFINE Active == {"Running", "ReviewReady", "NeedsHumanReview"}
<1> SUFFICES ASSUME NEW s \in Ids', tasks'[s].resolves
             PROVE  /\ tasks'[s].status = "Accepted"
                    /\ \A u \in Family(s)' \ {s} : ~tasks'[u].resolves
                    /\ \A u \in Lineage(s)' \ {s} : tasks'[u].status # "Accepted"
                    /\ \A u \in Family(s)' : tasks'[u].status \notin Active
  BY DEF ResolutionIsFinal
<1>1. IInv
  BY DEF FamilyInv
<1>2. s \in Ids
  BY <1>1, StepFrame DEF Joins
<1>3. TypeOK /\ Lineage(s)' = Lineage(s) /\ Lineage(s) \subseteq Family(s)
  BY <1>1, <1>2, FamiliesStay, FamilyMembers DEF IInv
<1>4. ASSUME NEW u \in Family(s)', u \notin Ids
      PROVE  ~tasks'[u].resolves /\ tasks'[u].status = "Proposed"
  <2>1. u \in Ids'
    BY DEF Family
  <2> QED BY <1>1, <1>4, <2>1, StepFrame DEF Joins
<1>5. CASE tasks[s].resolves
  <2>1. /\ tasks[s].status = "Accepted"
        /\ \A u \in Family(s) \ {s} : ~tasks[u].resolves
        /\ \A u \in Lineage(s) \ {s} : tasks[u].status # "Accepted"
        /\ \A u \in Family(s) : tasks[u].status \notin Active
    BY <1>2, <1>5 DEF FamilyInv, ResolutionIsFinal
  <2>2. tasks'[s].status = "Accepted"
    BY <1>1, <1>2, <2>1, StepFrame DEF Legal, Kept
  <2>3. ASSUME NEW u \in Family(s)
        PROVE  /\ u # s => ~tasks'[u].resolves
               /\ tasks'[u].status = "Accepted" => tasks[u].status = "Accepted"
               /\ tasks'[u].status \notin Active
    BY <1>1, <1>2, <1>5, <2>1, ResolvedRests
  <2>4. ASSUME NEW u \in Family(s)'
        PROVE  (u # s => ~tasks'[u].resolves) /\ tasks'[u].status \notin Active
    <3>1. CASE u \in Ids
      <4>1. u \in Family(s)
        BY <1>1, <1>2, <3>1, FamilyGrows
      <4> QED BY <2>3, <4>1
    <3>2. CASE u \notin Ids
      BY <1>4, <3>2
    <3> QED BY <3>1, <3>2
  <2> QED BY <1>3, <2>1, <2>2, <2>3, <2>4
<1>6. CASE ~tasks[s].resolves
  <2>1. Resolved(s, tasks'[s]) /\ tasks'[s] # tasks[s]
    <3>1. Shift(s, tasks'[s])
      BY <1>1, <1>2, StepFrame
    <3> QED BY <1>6, <3>1 DEF Shift, Works, SameMarks, Judged, DecidedOn
  <2>2. \A u \in Ids : u # s => tasks'[u] = tasks[u]
    BY <1>1, <1>2, <2>1, StepFrame
  <2>3. tasks'[s].status = "Accepted" /\ ~FamilyResolved(s)
    BY <2>1 DEF Resolved
  <2>4. ASSUME NEW u \in Family(s)'
        PROVE  (u # s => ~tasks'[u].resolves) /\ tasks'[u].status \notin Active
    <3>1. CASE u \in Ids
      <4>1. u \in Family(s)
        BY <1>1, <1>2, <3>1, FamilyGrows
      <4>2. tasks[u].status \notin Open \cup Held /\ ~tasks[u].resolves
        BY <2>1, <2>3, <4>1 DEF Resolved, FamilyResolved
      <4> QED BY <2>2, <2>3, <3>1, <4>2 DEF Open, Held
    <3>2. CASE u \notin Ids
      BY <1>4, <3>2
    <3> QED BY <3>1, <3>2
  <2>5. ASSUME NEW u \in Lineage(s) \ {s} PROVE tasks'[u].status # "Accepted"
    <3>1. u \in Ids
      BY <1>2, <1>3, FamilyMembers
    <3> QED BY <2>1, <2>2, <3>1 DEF Resolved
  <2> QED BY <1>3, <2>3, <2>4, <2>5
<1> QED BY <1>5, <1>6

\* A task at rest stays at rest unless its family is live.
LEMMA RestsUnlessLive ==
    ASSUME IInv, [Next]_vars, NEW t \in Ids, ~FamilyLive(t),
           tasks[t].status \notin {"Running", "ReviewReady", "NeedsHumanReview"}
    PROVE  tasks'[t].status \notin {"Running", "ReviewReady", "NeedsHumanReview"}
  BY StepFrame DEF Shift, Works, Judged, DecidedOn, CanDecide, Resolved, Shelved

LEMMA KeepDormant ==
    ASSUME FamilyInv, [Next]_vars
    PROVE  SupersededIsDormant'
<1> DEFINE Active == {"Running", "ReviewReady", "NeedsHumanReview"}
           adopted(t) == {a \in Family(t) : tasks[a].architect}
<1> SUFFICES ASSUME NEW t \in Ids', ArchitectureObsolete(t)'
             PROVE  tasks'[t].status \notin Active
  BY DEF SupersededIsDormant
<1>1. IInv /\ TypeOK
  BY DEF FamilyInv, IInv
<1>2. CASE t \notin Ids
  BY <1>1, <1>2, StepFrame DEF Joins
<1>3. CASE t \in Ids
  <2>1. CASE \E n \in Family(t)' : n \notin Ids /\ tasks'[n].architect
    <3>1. PICK n \in Family(t)' : n \notin Ids /\ tasks'[n].architect
      BY <2>1
    <3>2. n \in Ids' /\ tasks'[n].parent \in Ids /\ tasks'[n].parent \in Family(t)
      BY <1>1, <1>3, <3>1, FamilyGrows
    <3>3. /\ \A u \in Family(tasks'[n].parent) : tasks[u].status \notin Open \cup Held
          /\ tasks'[t] = tasks[t]
      BY <1>1, <1>3, <3>1, <3>2, StepFrame DEF Joins
    <3>4. t \in Family(tasks'[n].parent)
      BY <1>3, <3>2 DEF Family
    <3> QED BY <3>3, <3>4 DEF Open, Held
  <2>2. CASE \A n \in Family(t)' : n \in Ids \/ ~tasks'[n].architect
    <3>1. adopted(t)' = adopted(t)
      <4>1. ASSUME NEW a \in Family(t)', tasks'[a].architect
            PROVE  a \in Family(t) /\ tasks[a].architect
        <5>1. a \in Ids /\ a \in Family(t)
          BY <1>1, <1>3, <2>2, <4>1, FamilyGrows
        <5> QED BY <1>1, <4>1, <5>1, StepFrame DEF Shift, SamePlace
      <4>2. ASSUME NEW a \in Family(t), tasks[a].architect
            PROVE  a \in Family(t)' /\ tasks'[a].architect
        <5>1. a \in Ids /\ a \in Ids' /\ RepairRoot(a) = RepairRoot(t)
          BY <1>1, StepFrame DEF Family
        <5>2. RepairRoot(a)' = RepairRoot(t)'
          BY <1>1, <1>3, <5>1, FamiliesStay
        <5>3. a \in Family(t)'
          BY <5>1, <5>2 DEF Family
        <5> QED BY <1>1, <4>2, <5>1, <5>3, StepFrame DEF Shift, SamePlace
      <4> QED BY <4>1, <4>2
    <3>2. Lineage(t)' = Lineage(t)
      BY <1>1, <1>3, FamiliesStay
    <3>3. ArchitectureObsolete(t)
      <4>1. adopted(t)' # {} /\ Newest(adopted(t)') \notin Lineage(t)'
        BY DEF ArchitectureObsolete
      <4>2. adopted(t) # {} /\ Newest(adopted(t)) \notin Lineage(t)
        BY <3>1, <3>2, <4>1
      <4> QED BY <4>2 DEF ArchitectureObsolete
    <3>4. ~FamilyLive(t) /\ tasks[t].status \notin Active
      BY <1>3, <3>3 DEF FamilyInv, SupersededIsDormant, FamilyLive, NotSuperseded
    <3> QED BY <1>1, <1>3, <3>4, RestsUnlessLive
  <2> QED BY <2>1, <2>2
<1> QED BY <1>2, <1>3

-----------------------------------------------------------------------------
(* Failures of the architecture along an attempt. *)

LEMMA AttemptBelow ==
    ASSUME NEW ts, WellFormed(ts), NEW t \in 1..Len(ts)
    PROVE  AttemptIn(ts, t) \subseteq LineageIn(ts, t) /\ AttemptIn(ts, t) \subseteq 1..t
<1> DEFINE S == {i \in 1..Len(ts) : AttemptIn(ts, i) \subseteq LineageIn(ts, i)}
<1>1. ASSUME NEW i \in 1..Len(ts), \A j \in 1..(i - 1) : j \in S
      PROVE  i \in S
  <2>1. i \in Nat /\ (ts[i].parent # 0 => ts[i].parent \in 1..(i - 1))
    BY ParentAt
  <2>2. ts[i].parent # 0 => AttemptIn(ts, ts[i].parent) \subseteq LineageIn(ts, ts[i].parent)
    BY <1>1, <2>1
  <2> QED BY <2>1, <2>2, LineageUnfolds, AttemptUnfolds
<1>2. t \in S
  <2>1. Len(ts) \in Nat
    BY ParentAt
  <2> HIDE DEF S
  <2> QED BY <1>1, <2>1, Climb
<1> QED BY <1>2, LineageBelow

Failing(ts, t) == {u \in AttemptIn(ts, t) : /\ ts[u].decision.architecture
                                            /\ ProposesRepair(ts[u].decision)
                                            /\ ts[u].run # 0}

LEMMA FailuresCount ==
    ASSUME NEW t
    PROVE  /\ ArchitectureFailures(t) = Cardinality(Failing(tasks, t))
           /\ ArchitectureFailures(t)' = Cardinality(Failing(tasks', t))
<1>1. AttemptIn(tasks, t) = Attempt(t) /\ AttemptIn(tasks', t) = Attempt(t)'
  BY FamiliesRead
<1> QED BY <1>1 DEF ArchitectureFailures, Failing

LEMMA FailingFinite ==
    ASSUME NEW ts, WellFormed(ts), NEW t \in 1..Len(ts)
    PROVE  /\ IsFiniteSet(Failing(ts, t)) /\ Cardinality(Failing(ts, t)) \in Nat
           /\ Failing(ts, t) \subseteq 1..t /\ Failing(ts, t) \subseteq 1..Len(ts)
<1>1. Failing(ts, t) \subseteq 1..t /\ t \in Nat /\ Len(ts) \in Nat
  BY AttemptBelow, ParentAt DEF Failing
<1>2. IsFiniteSet(1..t)
  BY <1>1, FS_Interval
<1>3. IsFiniteSet(Failing(ts, t))
  BY <1>1, <1>2, FS_Subset
<1> QED BY <1>1, <1>3, FS_CardinalityType

\* A recorded failure is never taken back.
LEMMA FailingStays ==
    ASSUME FamilyInv, [Next]_vars, NEW t \in Ids
    PROVE  Failing(tasks, t) \subseteq Failing(tasks', t)
<1>1. IInv /\ WellFormed(tasks) /\ t \in 1..Len(tasks)
  BY StepFrame DEF FamilyInv
<1>2. AttemptIn(tasks', t) = AttemptIn(tasks, t)
  BY <1>1, StepFrame, LineageStays
<1>3. ASSUME NEW u \in Failing(tasks, t)
      PROVE  tasks'[u].decision = tasks[u].decision /\ tasks'[u].run = tasks[u].run
  <2>1. u \in Ids
    BY <1>1, FailingFinite, StepFrame
  <2>2. tasks[u].status = "Rejected"
    BY <1>3, <2>1 DEF FamilyInv, Reviewed, Failing
  <2>3. Shift(u, tasks'[u]) /\ Kept(tasks[u], tasks'[u])
    BY <1>1, <2>1, StepFrame DEF Legal
  <2> QED BY <2>2, <2>3 DEF Shift, Works, SameMarks, SameDecision, Judged, DecidedOn,
                            CanDecide, Resolved, Kept
<1> QED BY <1>2, <1>3 DEF Failing

LEMMA KeepRouted ==
    ASSUME FamilyInv, [Next]_vars, NEW t \in Ids'
    PROVE  RoutedTwice(t)'
<1> SUFFICES ASSUME tasks'[t].routed
             PROVE  tasks'[t].status = "Rejected" /\ ArchitectureFailures(t)' >= 2
  BY DEF RoutedTwice
<1>1. IInv
  BY DEF FamilyInv
<1>2. t \in Ids
  BY <1>1, StepFrame DEF Joins
<1>3. /\ WellFormed(tasks) /\ WellFormed(tasks') /\ t \in 1..Len(tasks)
      /\ t \in 1..Len(tasks') /\ Shift(t, tasks'[t])
  BY <1>1, <1>2, StepFrame
<1>4. IsFiniteSet(Failing(tasks', t)) /\ Cardinality(Failing(tasks', t)) \in Nat
  BY <1>3, FailingFinite
<1>5. CASE tasks[t].routed
  <2>1. tasks[t].status = "Rejected" /\ Cardinality(Failing(tasks, t)) >= 2
    BY <1>2, <1>5, FailuresCount DEF FamilyInv, RoutedTwice
  <2>2. tasks'[t].status = "Rejected"
    BY <1>1, <1>2, <2>1, StepFrame DEF Legal, Kept
  <2>3. Cardinality(Failing(tasks, t)) <= Cardinality(Failing(tasks', t))
    BY <1>2, <1>4, FailingStays, FS_Subset
  <2>4. Cardinality(Failing(tasks, t)) \in Nat
    BY <1>3, FailingFinite
  <2> QED BY <1>4, <2>1, <2>2, <2>3, <2>4, FailuresCount
<1>6. CASE ~tasks[t].routed
  <2>1. PICK d \in Decisions : /\ DecidedOn(t, d, tasks'[t])
                               /\ CanReviewArchitecture(t, d) /\ PriorFailures(t) >= 1
    BY <1>3, <1>6 DEF Shift, Works, SameMarks, Judged, DecidedOn, Resolved
  <2> DEFINE p == tasks[t].parent
  <2>2. p # 0 /\ ~tasks[t].architect /\ ArchitectureFailures(p) >= 1
    BY <2>1 DEF PriorFailures
  <2>3. /\ tasks'[t].decision = d /\ tasks'[t].status = OutcomeStatus(d)
        /\ d.architecture /\ ProposesRepair(d) /\ tasks[t].run # 0
    BY <2>1 DEF DecidedOn, CanReviewArchitecture, CanDecide, Reviewable
  <2>4. tasks'[t].status = "Rejected"
    BY <2>3, OutcomeOf
  <2>5. p \in Ids /\ p \in 1..(t - 1) /\ t \in Nat /\ p \in 1..Len(tasks)
    BY <1>1, <1>3, <2>2, StepFrame, ParentAt
  <2>6. tasks'[t].run # 0
    BY <2>1, <2>3 DEF DecidedOn
  <2>7. AttemptIn(tasks', t) = {t} \cup AttemptIn(tasks', p)
    <3>1. tasks'[t].parent = p /\ tasks'[t].architect = tasks[t].architect
      BY <1>3 DEF Shift, SamePlace
    <3> QED BY <1>3, <2>2, <3>1, AttemptUnfolds
  <2>8. Failing(tasks, p) \cup {t} \subseteq Failing(tasks', t)
    <3>1. Failing(tasks, p) \subseteq Failing(tasks', p)
      BY <2>5, FailingStays
    <3>2. Failing(tasks', p) \subseteq Failing(tasks', t)
      BY <2>7 DEF Failing
    <3>3. t \in Failing(tasks', t)
      BY <2>3, <2>6, <2>7 DEF Failing
    <3> QED BY <3>1, <3>2, <3>3
  <2>9. /\ Cardinality(Failing(tasks, p) \cup {t}) = Cardinality(Failing(tasks, p)) + 1
        /\ Cardinality(Failing(tasks, p)) \in Nat
    <3>1. /\ IsFiniteSet(Failing(tasks, p)) /\ Cardinality(Failing(tasks, p)) \in Nat
          /\ Failing(tasks, p) \subseteq 1..p
      BY <1>3, <2>5, FailingFinite
    <3>2. t \notin Failing(tasks, p)
      BY <2>5, <3>1
    <3> QED BY <3>1, <3>2, FS_AddElement
  <2>10. Cardinality(Failing(tasks, p) \cup {t}) <= Cardinality(Failing(tasks', t))
    BY <1>4, <2>8, FS_Subset
  <2>11. Cardinality(Failing(tasks, p)) >= 1
    BY <2>2, FailuresCount
  <2>12. Cardinality(Failing(tasks', t)) >= 2
    BY <1>4, <2>9, <2>10, <2>11
  <2> QED BY <2>4, <2>12, FailuresCount
<1> QED BY <1>5, <1>6

LEMMA FamilyInductive == FamilyInv /\ [Next]_vars => FamilyInv'
<1> SUFFICES ASSUME FamilyInv, [Next]_vars
             PROVE  FamilyInv'
  OBVIOUS
<1>1. IInv'
  BY Inductive DEF FamilyInv
<1> QED BY <1>1, KeepReviewed, KeepContract, KeepResolution, KeepDormant, KeepRouted
      DEF FamilyInv

LEMMA FamilyInvariant == Spec => []FamilyInv
<1> QED BY FamilyInit, FamilyInductive, PTL DEF Spec

LEMMA RoutesPending ==
    ASSUME FamilyInv
    PROVE  RouteStaysPending
<1> SUFFICES ASSUME NEW t \in Ids, tasks[t].routed
             PROVE  /\ Cardinality({u \in Lineage(t) : tasks[u].decision.architecture}) >= 2
                    /\ Adoptions(t) = {} => ArchitectureRequired(t)
  BY DEF RouteStaysPending
<1> DEFINE seen == {u \in Lineage(t) : tasks[u].decision.architecture}
<1>1. tasks[t].status = "Rejected" /\ ArchitectureFailures(t) >= 2
  BY DEF FamilyInv, RoutedTwice
<1>2. WellFormed(tasks) /\ t \in 1..Len(tasks)
  BY DEF FamilyInv, IInv, TypeOK, Ids
<1>3. Failing(tasks, t) \subseteq seen /\ seen \subseteq 1..t /\ t \in Nat
  BY <1>2, FamiliesRead, AttemptBelow, LineageBelow, ParentAt DEF Failing
<1>4. IsFiniteSet(1..t)
  BY <1>3, FS_Interval
<1>5. IsFiniteSet(seen)
  BY <1>3, <1>4, FS_Subset
<1>6. /\ Cardinality(seen) \in Nat /\ Cardinality(Failing(tasks, t)) \in Nat
      /\ Cardinality(Failing(tasks, t)) <= Cardinality(seen)
  BY <1>2, <1>3, <1>5, FS_Subset, FS_CardinalityType, FailingFinite
<1>7. Cardinality(seen) >= 2
  BY <1>1, <1>6, FailuresCount
<1> QED BY <1>1, <1>7 DEF ArchitectureRequired

-----------------------------------------------------------------------------
(* The theorems on reviews and families. *)

\* Work that inherits acceptance criteria is accepted only by a review that found
\* them all met, whichever of /accept, an assessment or a decision accepted it,
\* and whatever runs, holds and reviews came before.
THEOREM ContractsMet == Spec => []AcceptedMeetsContract
<1>1. FamilyInv => AcceptedMeetsContract
  BY DEF FamilyInv
<1> QED BY <1>1, FamilyInvariant, PTL

\* Families are resolved once and for all, routes stay pending, and what an
\* Architect revision replaced stays dormant.
THEOREM FamiliesHold == Spec => []LineagesHold
<1>1. FamilyInv => LineagesHold
  BY RoutesPending DEF FamilyInv, LineagesHold
<1> QED BY <1>1, FamilyInvariant, PTL

\* The source of a dependency's result, once there is one.
LEMMA SourcesStay ==
    ASSUME FamilyInv, [Next]_vars, NEW d \in Ids, DependencySources(d) # {}
    PROVE  DependencySources(d)' = DependencySources(d)
<1>1. IInv /\ IInv' /\ ResolutionIsFinal /\ ResolutionIsFinal' /\ d \in Ids'
  BY FamilyInductive, StepFrame DEF FamilyInv
<1>2. CASE tasks[d].status = "Accepted"
  <2>1. tasks'[d].status = "Accepted"
    BY <1>1, <1>2, StepFrame DEF Legal, Kept
  <2> QED BY <1>2, <2>1 DEF DependencySources
<1>3. CASE tasks[d].status # "Accepted"
  <2>1. PICK s \in ResolvedBy(d) : tasks[s].status = "Accepted"
    BY <1>3 DEF DependencySources
  <2>2. s \in Ids /\ tasks[s].resolves /\ d \in Lineage(s) \ {s}
    BY <2>1 DEF ResolvedBy
  <2>3. /\ Lineage(s)' = Lineage(s) /\ s \in Ids' /\ d \in Family(s)
        /\ d \in Family(s)'
    <3>1. Lineage(s) \subseteq Family(s) /\ TypeOK'
      BY <1>1, <2>2, FamilyMembers DEF IInv
    <3>2. Lineage(s)' = Lineage(s) /\ s \in Ids'
      BY <1>1, <2>2, FamiliesStay, StepFrame
    <3>3. RepairRoot(d) = RepairRoot(s)
      BY <2>2, <3>1 DEF Family
    <3>4. RepairRoot(d)' = RepairRoot(s)'
      BY <1>1, <2>2, <3>3, FamiliesStay
    <3> QED BY <1>1, <2>2, <3>1, <3>2, <3>4 DEF Family
  <2>4. tasks'[s].resolves /\ tasks'[s].status = "Accepted"
    <3>1. Shift(s, tasks'[s]) /\ Kept(tasks[s], tasks'[s])
      BY <1>1, <2>2, StepFrame DEF Legal
    <3>2. FamilyResolved(s)
      BY <1>1, <2>2, FamilyMembers DEF FamilyResolved, IInv
    <3> QED BY <2>1, <2>2, <3>1, <3>2
          DEF Shift, Works, SameMarks, Judged, DecidedOn, Resolved, Kept
  <2>5. tasks'[d].status # "Accepted"
    BY <2>2, <2>3, <2>4, <1>1 DEF ResolutionIsFinal
  <2>6. ASSUME NEW x \in ResolvedBy(d) PROVE x = s
    <3>1. x \in Ids /\ tasks[x].resolves /\ d \in Family(x)
      BY <1>1, <2>6, FamilyMembers DEF ResolvedBy, IInv
    <3>2. x \in Family(s)
      BY <2>3, <3>1 DEF Family
    <3> QED BY <1>1, <2>2, <3>1, <3>2 DEF ResolutionIsFinal
  <2>7. ASSUME NEW x \in ResolvedBy(d)' PROVE x = s
    <3>1. x \in Ids' /\ tasks'[x].resolves /\ d \in Lineage(x)'
      BY <2>7 DEF ResolvedBy
    <3>2. d \in LineageIn(tasks', x) /\ x \in 1..Len(tasks') /\ WellFormed(tasks')
      BY <1>1, <3>1, FamiliesRead, StepFrame
    <3>3. RootIn(tasks', d) = RootIn(tasks', x)
      BY <3>2, LineageInFamily
    <3>4. RepairRoot(d)' = RepairRoot(x)'
      BY <3>3, FamiliesRead
    <3>5. x \in Family(s)'
      BY <2>3, <3>1, <3>4 DEF Family
    <3> QED BY <1>1, <2>3, <2>4, <3>1, <3>5 DEF ResolutionIsFinal
  <2>8. s \in ResolvedBy(d)'
    BY <2>2, <2>3, <2>4 DEF ResolvedBy
  <2>9. DependencySources(d) = {s}
    BY <1>3, <2>1, <2>6 DEF DependencySources
  <2>10. DependencySources(d)' = {s}
    BY <2>4, <2>5, <2>7, <2>8 DEF DependencySources
  <2> QED BY <2>9, <2>10
<1> QED BY <1>2, <1>3

LEMMA HeldExclusive ==
    ASSUME IInv, [Next]_vars, NEW p \in Ids, RepairIn(p, {"NeedsHumanReview"}),
           Len(tasks') > Len(tasks)
    PROVE  tasks'[Len(tasks')].parent # p
<1> DEFINE n == Len(tasks')
<1>1. n \in Ids' /\ n \notin Ids
  BY StepFrame DEF WellFormed
<1>2. Joins(tasks'[n])
  BY <1>1, StepFrame
<1> QED BY <1>2 DEF Joins, Held

\* Consumers of a dependency never get another result than the first one, and
\* a repair that a human holds gets no rival.
THEOREM OneAnswer == Spec => OneAnswerPerFamily
<1>1. FamilyInv /\ [Next]_vars =>
        [\A d \in Ids : DependencySources(d) # {} =>
              DependencySources(d)' = DependencySources(d)]_vars
  BY SourcesStay
<1>2. FamilyInv /\ [Next]_vars =>
        [\A p \in Ids : RepairIn(p, {"NeedsHumanReview"}) /\ Len(tasks') > Len(tasks) =>
              tasks'[Len(tasks')].parent # p]_vars
  BY HeldExclusive DEF FamilyInv
<1> QED BY <1>1, <1>2, FamilyInvariant, PTL
      DEF Spec, OneAnswerPerFamily, DependencySourceStable, HeldRepairIsExclusive
-----------------------------------------------------------------------------
(* Repositories, field by field.                                           *)

LEMMA RepoShape ==
    ASSUME NEW r \in Repos
    PROVE  r = [commits |-> r.commits, at |-> r.at, refs |-> r.refs, index |-> r.index,
                intent |-> r.intent, work |-> r.work, merging |-> r.merging,
                conflicts |-> r.conflicts, lock |-> r.lock, remote |-> r.remote,
                tracking |-> r.tracking, config |-> r.config]
  BY DEF Repos

\* Two repositories that agree but for some of these fields, which are given.
SameRest(r, s) ==
    /\ s.at = r.at /\ s.lock = r.lock /\ s.config = r.config
    /\ s.remote = r.remote /\ s.tracking = r.tracking

SameHistory(r, s) == s.commits = r.commits /\ s.refs = r.refs

SameFiles(r, s) ==
    /\ s.index = r.index /\ s.intent = r.intent /\ s.work = r.work
    /\ s.merging = r.merging /\ s.conflicts = r.conflicts

\* What makes a repository of n commits sound, but for the commits.
Names(s, n) ==
    /\ \A b \in Branches : {s.refs[b], s.remote[b], s.tracking[b]} \subseteq 0..n
    /\ s.refs[s.at] # 0

Consistent(s, n) ==
    /\ s.merging \in 0..n /\ \A f \in s.intent : s.index[f] = 0
    /\ s.conflicts # {} => s.merging # 0

LEMMA SameRepo ==
    ASSUME NEW r \in Repos, NEW s \in Repos,
           SameRest(r, s), SameHistory(r, s), SameFiles(r, s)
    PROVE  s = r
  BY RepoShape DEF SameRest, SameHistory, SameFiles

Commits == [parents : SUBSET (1..MaxCommits), tree : Trees]

LEMMA RepoTyped ==
    ASSUME NEW r, Sound(r), MaxCommits \in Nat
    PROVE  /\ r \in Repos /\ r.commits \in Seq(Commits)
           /\ Len(r.commits) \in Nat /\ Len(r.commits) <= MaxCommits
           /\ r.at \in Branches /\ r.refs \in [Branches -> 0..MaxCommits]
           /\ r.index \in Trees /\ r.work \in Trees /\ r.intent \in SUBSET Files
           /\ r.merging \in 0..Len(r.commits) /\ r.conflicts \in SUBSET Files
           /\ r.lock \in BOOLEAN /\ r.config \in Settings
           /\ r.remote \in [Branches -> 0..MaxCommits]
           /\ r.tracking \in [Branches -> 0..MaxCommits]
  BY DEF Sound, Repos, Commits

LEMMA RefsTyped ==
    ASSUME NEW r, Sound(r), MaxCommits \in Nat, NEW b \in Branches
    PROVE  /\ r.refs[b] \in 0..Len(r.commits) /\ r.remote[b] \in 0..Len(r.commits)
           /\ r.tracking[b] \in 0..Len(r.commits)
  BY DEF Sound

LEMMA CommitTyped ==
    ASSUME NEW r, Sound(r), MaxCommits \in Nat, NEW c \in 1..Len(r.commits)
    PROVE  /\ r.commits[c] \in Commits
           /\ r.commits[c].tree \in Trees
           /\ r.commits[c].parents \subseteq 1..(c - 1)
<1>1. r.commits[c] \in Commits
  BY RepoTyped
<1>2. r.commits[c].tree \in Trees /\ r.commits[c].parents \subseteq 1..MaxCommits
  BY <1>1 DEF Commits
<1>3. \A p \in r.commits[c].parents : p < c
  BY DEF Sound
<1>4. ASSUME NEW p \in r.commits[c].parents PROVE p \in 1..(c - 1)
  <2>1. Len(r.commits) \in Nat
    BY RepoTyped
  <2>2. p \in 1..MaxCommits /\ p < c
    BY <1>2, <1>3
  <2> QED BY <2>1, <2>2
<1> QED BY <1>1, <1>2, <1>4

LEMMA TipTyped ==
    ASSUME NEW r, Sound(r), MaxCommits \in Nat
    PROVE  Tip(r) \in 1..Len(r.commits) /\ TipTree(r) \in Trees
<1>1. r.at \in Branches
  BY RepoTyped
<1>2. Tip(r) \in 1..Len(r.commits)
  BY <1>1, RefsTyped, RepoTyped DEF Tip, Sound
<1> QED BY <1>2, CommitTyped DEF TipTree

\* Only the working tree, the index and what goes with them have changed.
LEMMA SoundChanged ==
    ASSUME NEW r, Sound(r), MaxCommits \in Nat,
           NEW s \in Repos, SameRest(r, s), SameHistory(r, s), Consistent(s, Len(r.commits))
    PROVE  Sound(s)
  BY DEF Sound, SameRest, SameHistory, Consistent

\* The branches have moved too.
LEMMA SoundMoved ==
    ASSUME NEW r, Sound(r), MaxCommits \in Nat,
           NEW s \in Repos, s.commits = r.commits,
           Names(s, Len(r.commits)), Consistent(s, Len(r.commits))
    PROVE  Sound(s)
  BY DEF Sound, Names, Consistent

-----------------------------------------------------------------------------
(* A commit more.                                                          *)

LEMMA GrowsHolds ==
    ASSUME NEW r, Sound(r), NEW s, s.commits = r.commits, MaxCommits \in Nat
    PROVE  Grows(r, s)
  BY RepoTyped DEF Grows, Continues

LEMMA ContinuesOn ==
    ASSUME NEW a, NEW b, NEW c, Continues(a, b), Continues(b, c),
           Len(a) \in Nat, Len(b) \in Nat, Len(c) \in Nat
    PROVE  Continues(a, c)
<1>1. ASSUME NEW i \in 1..Len(a) PROVE c[i] = a[i]
  <2>1. i \in 1..Len(b)
    BY DEF Continues
  <2> QED BY <2>1 DEF Continues
<1> QED BY <1>1 DEF Continues

LEMMA GrowsOn ==
    ASSUME NEW r, Sound(r), NEW s, Sound(s), NEW t, Sound(t), MaxCommits \in Nat,
           Grows(r, s), Grows(s, t)
    PROVE  Grows(r, t)
<1>1. Len(r.commits) \in Nat /\ Len(s.commits) \in Nat /\ Len(t.commits) \in Nat
  BY RepoTyped
<1> QED BY <1>1, ContinuesOn DEF Grows

\* A history: commits name older ones.
Ordered(commits) ==
    /\ commits \in Seq(Commits) /\ Len(commits) <= MaxCommits
    /\ \A c \in 1..Len(commits) : \A p \in commits[c].parents : p < c

LEMMA HistoryTyped ==
    ASSUME NEW r, Sound(r), MaxCommits \in Nat
    PROVE  Ordered(r.commits)
<1> DEFINE old == r.commits
<1>1. old \in Seq(Commits) /\ Len(old) <= MaxCommits
  BY RepoTyped
<1>2. \A c \in 1..Len(old) : \A p \in old[c].parents : p < c
  BY DEF Sound
<1> HIDE DEF old
<1>3. Ordered(old)
  BY <1>1, <1>2 DEF Ordered
<1> QED BY <1>3 DEF old

LEMMA OneMore ==
    ASSUME NEW old, Ordered(old), MaxCommits \in Nat, Len(old) < MaxCommits,
           NEW added \in Commits, added.parents \subseteq 1..Len(old),
           NEW new, new = Append(old, added)
    PROVE  /\ Ordered(new) /\ Len(new) = Len(old) + 1 /\ Len(old) \in Nat
           /\ new[Len(old) + 1] = added /\ Continues(old, new)
<1>1. old \in Seq(Commits) /\ Len(old) \in Nat /\ Len(old) + 1 <= MaxCommits
  BY DEF Ordered
<1>5. /\ new \in Seq(Commits) /\ Len(new) = Len(old) + 1
      /\ new[Len(old) + 1] = added
      /\ \A c \in 1..Len(old) : new[c] = old[c]
  BY <1>1
<1>6. ASSUME NEW c \in 1..Len(new), NEW p \in new[c].parents PROVE p < c
  <2>1. CASE c = Len(old) + 1
    <3>1. p \in 1..Len(old)
      BY <2>1, <1>5
    <3> QED BY <3>1, <2>1, <1>1
  <2>2. CASE c # Len(old) + 1
    <3>1. c \in 1..Len(old)
      BY <2>2, <1>1, <1>5
    <3> QED BY <3>1, <1>5 DEF Ordered
  <2> QED BY <2>1, <2>2
<1>7. Continues(old, new)
  BY <1>1, <1>5 DEF Continues
<1> QED BY <1>1, <1>5, <1>6, <1>7 DEF Ordered

\* The repository has a commit more, and its branches name commits.
LEMMA SoundGrown ==
    ASSUME NEW r, Sound(r), MaxCommits \in Nat, Room(r),
           NEW parents \in SUBSET (1..Len(r.commits)), NEW tree \in Trees,
           NEW s \in Repos, s.commits = NewCommit(r, parents, tree),
           Names(s, Len(r.commits) + 1), Consistent(s, Len(r.commits))
    PROVE  Sound(s) /\ Grows(r, s) /\ Len(s.commits) = Len(r.commits) + 1
<1> DEFINE old == r.commits  new == s.commits
<1>1. Ordered(old) /\ Len(old) < MaxCommits /\ parents \in SUBSET (1..Len(old))
  BY HistoryTyped DEF Room
<1>2. new = Append(old, [parents |-> parents, tree |-> tree])
  BY DEF NewCommit
<1> DEFINE added == [parents |-> parents, tree |-> tree]
<1>8. Len(old) \in Nat
  BY <1>1 DEF Ordered
<1>9. parents \in SUBSET (1..MaxCommits)
  BY <1>1, <1>8
<1>10. added \in Commits /\ added.parents \subseteq 1..Len(old) /\ new = Append(old, added)
  BY <1>1, <1>2, <1>9 DEF Commits
<1> HIDE DEF old, new, added
<1>3. Ordered(new) /\ Len(new) = Len(old) + 1 /\ Len(old) \in Nat /\ Continues(old, new)
  BY <1>1, <1>10, OneMore
<1>4. Grows(r, s)
  BY <1>3 DEF Grows, old, new
<1>5. Len(s.commits) = Len(r.commits) + 1
  BY <1>3 DEF old, new
<1>6. \A c \in 1..Len(s.commits) : \A p \in s.commits[c].parents : p < c
  BY <1>3 DEF Ordered, new
<1>7. Len(s.commits) <= MaxCommits /\ Len(r.commits) \in Nat
  BY <1>3 DEF Ordered, old, new
<1> QED BY <1>4, <1>5, <1>6, <1>7 DEF Sound, Names, Consistent
-----------------------------------------------------------------------------
(* The commits a commit reaches.                                           *)

ReachStep(commits, f, c) ==
    IF c = 0 THEN {} ELSE {c} \cup UNION {f[p] : p \in commits[c].parents}

ReachOf(commits, commit) ==
    LET reach[c \in 0..Len(commits)] ==
          IF c = 0 THEN {} ELSE {c} \cup UNION {reach[p] : p \in commits[c].parents}
    IN  reach[commit]

LEMMA ParentsTyped ==
    ASSUME NEW commits, Ordered(commits), MaxCommits \in Nat, NEW c \in 1..Len(commits),
           NEW p \in commits[c].parents
    PROVE  p \in 1..(c - 1) /\ p \in 1..Len(commits) /\ Len(commits) \in Nat
<1>1. commits[c] \in Commits /\ Len(commits) \in Nat
  BY DEF Ordered
<1>2. p \in 1..MaxCommits
  BY <1>1 DEF Commits
<1>3. p < c
  BY DEF Ordered
<1> QED BY <1>1, <1>2, <1>3

LEMMA ReachGrows ==
    ASSUME NEW commits, Ordered(commits), MaxCommits \in Nat, NEW k \in 1..Len(commits),
           NEW g, g = [c \in 0..(k - 1) |-> ReachStep(commits, g, c)]
    PROVE  \E f : f = [c \in 0..k |-> ReachStep(commits, f, c)]
<1> DEFINE f == [c \in 0..k |-> IF c = k THEN ReachStep(commits, g, k) ELSE g[c]]
<1>0. Len(commits) \in Nat /\ k \in Nat
  BY DEF Ordered
<1>1. ASSUME NEW c \in 0..k PROVE f[c] = ReachStep(commits, f, c)
  <2>1. ASSUME c # 0, NEW p \in commits[c].parents PROVE f[p] = g[p]
    <3>1. c \in 1..Len(commits)
      BY <2>1, <1>0
    <3>2. p \in 1..(c - 1)
      BY <2>1, <3>1, ParentsTyped
    <3>3. p \in 0..k /\ p # k
      BY <3>2, <1>0
    <3> QED BY <3>3
  <2>2. ReachStep(commits, f, c) = ReachStep(commits, g, c)
    <3>1. CASE c = 0
      BY <3>1 DEF ReachStep
    <3>2. CASE c # 0
      <4>1. \A p \in commits[c].parents : f[p] = g[p]
        <5> HIDE DEF f
        <5> QED BY <3>2, <2>1
      <4> HIDE DEF f
      <4>2. {f[p] : p \in commits[c].parents} = {g[p] : p \in commits[c].parents}
        BY <4>1
      <4> QED BY <4>2 DEF ReachStep
    <3> QED BY <3>1, <3>2
  <2>3. f[c] = ReachStep(commits, g, c)
    <3>1. CASE c = k
      BY <3>1
    <3>2. CASE c # k
      <4>1. c \in 0..(k - 1)
        BY <3>2, <1>0
      <4>2. g[c] = ReachStep(commits, g, c)
        BY <4>1
      <4> QED BY <3>2, <4>2
    <3> QED BY <3>1, <3>2
  <2> QED BY <2>2, <2>3
<1>2. f = [c \in 0..k |-> f[c]]
  OBVIOUS
<1> HIDE DEF f
<1>3. f = [c \in 0..k |-> ReachStep(commits, f, c)]
  BY <1>1, <1>2
<1> QED BY <1>3

LEMMA ReachExists ==
    ASSUME NEW commits, Ordered(commits), MaxCommits \in Nat
    PROVE  \E f : f = [c \in 0..Len(commits) |-> ReachStep(commits, f, c)]
<1> DEFINE S == {i \in 1..(Len(commits) + 1) :
                    \E f : f = [c \in 0..(i - 1) |-> ReachStep(commits, f, c)]}
<1>0. Len(commits) \in Nat
  BY DEF Ordered
<1>1. ASSUME NEW i \in 1..(Len(commits) + 1), \A j \in 1..(i - 1) : j \in S PROVE i \in S
  <2>1. CASE i = 1
    <3> DEFINE f == [c \in 0..0 |-> {}]
    <3>1. f = [c \in 0..(i - 1) |-> f[c]] /\ \A c \in 0..(i - 1) : f[c] = {} /\ c = 0
      BY <2>1
    <3> HIDE DEF f
    <3>2. \A c \in 0..(i - 1) : f[c] = ReachStep(commits, f, c)
      BY <3>1 DEF ReachStep
    <3>3. f = [c \in 0..(i - 1) |-> ReachStep(commits, f, c)]
      BY <3>1, <3>2
    <3> QED BY <3>3
  <2>2. CASE i # 1
    <3>1. i - 1 \in 1..(i - 1) /\ i - 1 \in 1..Len(commits)
      BY <2>2, <1>0
    <3>2. PICK g : g = [c \in 0..((i - 1) - 1) |-> ReachStep(commits, g, c)]
      BY <3>1, <1>1
    <3>3. \E f : f = [c \in 0..(i - 1) |-> ReachStep(commits, f, c)]
      BY <3>1, <3>2, ReachGrows
    <3> QED BY <3>3
  <2> QED BY <2>1, <2>2
<1>2. Len(commits) + 1 \in S
  <2>1. Len(commits) + 1 \in Nat /\ Len(commits) + 1 \in 1..(Len(commits) + 1)
    BY <1>0
  <2> HIDE DEF S
  <2> QED BY <1>1, <2>1, Climb
<1>3. (Len(commits) + 1) - 1 = Len(commits)
  BY <1>0
<1> QED BY <1>2, <1>3

LEMMA ReachFunction ==
    ASSUME NEW commits, Ordered(commits), MaxCommits \in Nat
    PROVE  \E f : /\ f = [c \in 0..Len(commits) |-> ReachStep(commits, f, c)]
                  /\ \A c : ReachOf(commits, c) = f[c]
<1> DEFINE g == CHOOSE f : f = [c \in 0..Len(commits) |-> ReachStep(commits, f, c)]
<1>1. g = [c \in 0..Len(commits) |-> ReachStep(commits, g, c)]
  <2> HIDE DEF Ordered
  <2> QED BY ReachExists
<1>2. ASSUME NEW c PROVE ReachOf(commits, c) = g[c]
  BY Zenon DEF ReachOf, ReachStep
<1> QED BY <1>1, <1>2

LEMMA ReachUnfolds ==
    ASSUME NEW commits, Ordered(commits), MaxCommits \in Nat
    PROVE  /\ ReachOf(commits, 0) = {}
           /\ \A c \in 1..Len(commits) :
                 ReachOf(commits, c) =
                    {c} \cup UNION {ReachOf(commits, p) : p \in commits[c].parents}
<1>0. Len(commits) \in Nat
  BY DEF Ordered
<1>1. PICK f : /\ f = [c \in 0..Len(commits) |-> ReachStep(commits, f, c)]
               /\ \A c : ReachOf(commits, c) = f[c]
  BY ReachFunction
<1>2. \A c \in 0..Len(commits) : ReachOf(commits, c) = ReachStep(commits, f, c)
  <2>1. \A c \in 0..Len(commits) : f[c] = ReachStep(commits, f, c)
    BY <1>1
  <2> QED BY <1>1, <2>1
<1>3. ReachOf(commits, 0) = {}
  BY <1>0, <1>2 DEF ReachStep
<1>4. ASSUME NEW c \in 1..Len(commits)
      PROVE  ReachOf(commits, c) = {c} \cup UNION {ReachOf(commits, p) : p \in commits[c].parents}
  <2>1. {f[p] : p \in commits[c].parents} = {ReachOf(commits, p) : p \in commits[c].parents}
    BY <1>1
  <2>2. ReachOf(commits, c) = {c} \cup UNION {f[p] : p \in commits[c].parents}
    <3>1. c \in 0..Len(commits) /\ c # 0
      BY <1>0
    <3> QED BY <3>1, <1>2 DEF ReachStep
  <2> QED BY <2>1, <2>2
<1> QED BY <1>3, <1>4

LEMMA ReachWithin ==
    ASSUME NEW commits, Ordered(commits), MaxCommits \in Nat, NEW c \in 1..Len(commits)
    PROVE  ReachOf(commits, c) \subseteq 1..Len(commits) /\ c \in ReachOf(commits, c)
<1> DEFINE S == {x \in 1..Len(commits) : ReachOf(commits, x) \subseteq 1..Len(commits)}
<1>0. Len(commits) \in Nat
  BY DEF Ordered
<1>1. ASSUME NEW i \in 1..Len(commits), \A j \in 1..(i - 1) : j \in S PROVE i \in S
  <2>1. \A p \in commits[i].parents : p \in S
    BY <1>1, ParentsTyped
  <2>2. ReachOf(commits, i) = {i} \cup UNION {ReachOf(commits, p) : p \in commits[i].parents}
    BY ReachUnfolds
  <2> QED BY <2>1, <2>2
<1>2. \A i \in 1..Len(commits) : i \in S
  <2> HIDE DEF S
  <2> QED BY <1>0, <1>1, Climb
<1>3. c \in ReachOf(commits, c)
  BY ReachUnfolds
<1> QED BY <1>2, <1>3

\* What is reached from a commit that is reached, is reached.
LEMMA ReachTransitive ==
    ASSUME NEW commits, Ordered(commits), MaxCommits \in Nat, NEW c \in 1..Len(commits),
           NEW d \in ReachOf(commits, c)
    PROVE  ReachOf(commits, d) \subseteq ReachOf(commits, c)
<1> DEFINE S == {x \in 1..Len(commits) :
                    \A y \in ReachOf(commits, x) :
                        ReachOf(commits, y) \subseteq ReachOf(commits, x)}
<1>0. Len(commits) \in Nat
  BY DEF Ordered
<1>1. ASSUME NEW i \in 1..Len(commits), \A j \in 1..(i - 1) : j \in S PROVE i \in S
  <2>1. \A p \in commits[i].parents : p \in S
    BY <1>1, ParentsTyped
  <2>2. ReachOf(commits, i) = {i} \cup UNION {ReachOf(commits, p) : p \in commits[i].parents}
    BY ReachUnfolds
  <2>3. ASSUME NEW y \in ReachOf(commits, i)
        PROVE  ReachOf(commits, y) \subseteq ReachOf(commits, i)
    <3>1. CASE y = i
      BY <3>1
    <3>2. CASE y # i
      <4>1. PICK p \in commits[i].parents : y \in ReachOf(commits, p)
        BY <2>2, <2>3, <3>2
      <4>2. ReachOf(commits, y) \subseteq ReachOf(commits, p)
        BY <2>1, <4>1
      <4> QED BY <2>2, <4>2
    <3> QED BY <3>1, <3>2
  <2> QED BY <2>3
<1>2. \A i \in 1..Len(commits) : i \in S
  <2> HIDE DEF S
  <2> QED BY <1>0, <1>1, Climb
<1> QED BY <1>2

\* A longer history reaches no more from the commits it had.
LEMMA ReachStays ==
    ASSUME NEW old, NEW new, Ordered(old), Ordered(new), Continues(old, new),
           MaxCommits \in Nat, NEW c \in 0..Len(old)
    PROVE  ReachOf(new, c) = ReachOf(old, c)
<1> DEFINE S == {x \in 1..Len(old) : ReachOf(new, x) = ReachOf(old, x)}
<1>0. Len(old) \in Nat /\ Len(new) \in Nat /\ Len(old) <= Len(new)
  BY DEF Ordered, Continues
<1>1. ASSUME NEW i \in 1..Len(old), \A j \in 1..(i - 1) : j \in S PROVE i \in S
  <2>1. \A p \in old[i].parents : p \in S
    BY <1>1, ParentsTyped
  <2>2. ReachOf(old, i) = {i} \cup UNION {ReachOf(old, p) : p \in old[i].parents}
    BY ReachUnfolds
  <2>3. i \in 1..Len(new) /\ new[i] = old[i]
    BY <1>0 DEF Continues
  <2>4. ReachOf(new, i) = {i} \cup UNION {ReachOf(new, p) : p \in old[i].parents}
    BY <2>3, ReachUnfolds
  <2>5. {ReachOf(new, p) : p \in old[i].parents} = {ReachOf(old, p) : p \in old[i].parents}
    BY <2>1
  <2> QED BY <2>2, <2>4, <2>5
<1>2. \A i \in 1..Len(old) : i \in S
  <2> HIDE DEF S
  <2> QED BY <1>0, <1>1, Climb
<1>3. CASE c = 0
  BY <1>3, ReachUnfolds
<1>4. CASE c # 0
  BY <1>0, <1>2, <1>4
<1> QED BY <1>3, <1>4

LEMMA ReachIsOf ==
    ASSUME NEW r, NEW c
    PROVE  Reach(r, c) = ReachOf(r.commits, c)
  BY Zenon DEF Reach, ReachOf

-----------------------------------------------------------------------------
(* What each command does to a repository.                                 *)

LEMMA AddFilesDoes ==
    ASSUME NEW r, Sound(r), MaxCommits \in Nat, NEW files \in SUBSET Files,
           NEW s, s \in AddFiles(r, files)
    PROVE  /\ Sound(s) /\ Grows(r, s) /\ SameRest(r, s) /\ SameHistory(r, s)
           /\ s.work = r.work /\ s.merging = r.merging
           /\ s.intent = r.intent \ files /\ s.conflicts = r.conflicts \ files
           /\ \A f \in Files : s.index[f] = IF f \in files THEN r.work[f] ELSE r.index[f]
<1> DEFINE index == [f \in Files |-> IF f \in files THEN r.work[f] ELSE r.index[f]]
<1>1. s = [r EXCEPT !.index = index, !.intent = r.intent \ files, !.conflicts = r.conflicts \ files]
  BY RepoTyped DEF AddFiles, Repos
<1>2. index \in Trees /\ \A f \in Files : index[f] = IF f \in files THEN r.work[f] ELSE r.index[f]
  BY RepoTyped DEF Trees
<1> HIDE DEF index
<1>3. /\ SameRest(r, s) /\ SameHistory(r, s) /\ s.work = r.work /\ s.merging = r.merging
      /\ s.intent = r.intent \ files /\ s.conflicts = r.conflicts \ files /\ s.index = index
  BY <1>1, RepoTyped DEF SameRest, SameHistory, Repos
<1>4. s \in Repos
  <2>1. r \in Repos /\ r.intent \in SUBSET Files /\ r.conflicts \in SUBSET Files
    BY RepoTyped
  <2> QED BY <1>1, <1>2, <2>1 DEF Repos
<1>5. \A f \in s.intent : s.index[f] = 0
  BY <1>2, <1>3, RepoTyped DEF Sound
<1>6. Sound(s)
  <2>1. s.merging \in 0..Len(r.commits)
    BY <1>3, RepoTyped
  <2>2. s.conflicts # {} => s.merging # 0
    BY <1>3 DEF Sound
  <2>3. Consistent(s, Len(r.commits))
    BY <1>5, <2>1, <2>2 DEF Consistent
  <2> QED BY <1>3, <1>4, <2>3, SoundChanged
<1> QED BY <1>2, <1>3, <1>6, GrowsHolds DEF SameHistory

LEMMA ReadTreeDoes ==
    ASSUME NEW r, Sound(r), MaxCommits \in Nat, NEW tree \in Trees, NEW s, s \in ReadTree(r, tree)
    PROVE  /\ Sound(s) /\ Grows(r, s) /\ SameRest(r, s) /\ SameHistory(r, s)
           /\ s.work = r.work /\ s.merging = r.merging
           /\ s.intent = {} /\ s.conflicts = {} /\ s.index = tree
<1>1. s = [r EXCEPT !.index = tree, !.intent = {}, !.conflicts = {}]
  BY DEF ReadTree
<1>3. /\ SameRest(r, s) /\ SameHistory(r, s) /\ s.work = r.work /\ s.merging = r.merging
      /\ s.intent = {} /\ s.conflicts = {} /\ s.index = tree
  BY <1>1, RepoTyped DEF SameRest, SameHistory, Repos
<1>4. s \in Repos
  <2>1. r \in Repos
    BY RepoTyped
  <2> QED BY <1>1, <2>1 DEF Repos
<1>6. Sound(s)
  <2>1. Consistent(s, Len(r.commits))
    BY <1>3, RepoTyped DEF Consistent
  <2> QED BY <1>3, <1>4, <2>1, SoundChanged
<1> QED BY <1>3, <1>6, GrowsHolds DEF SameHistory

\* Entries of intent for those that are not staged.
Marks(r, s, files) ==
    \A f \in Files : f \in s.intent <=>
        f \in r.intent \/ (f \in files /\ r.index[f] = 0 /\ r.work[f] # 0)

LEMMA AddIntentDoes ==
    ASSUME NEW r, Sound(r), MaxCommits \in Nat, NEW files \in SUBSET Files,
           NEW s, s \in AddIntent(r, files)
    PROVE  /\ Sound(s) /\ Grows(r, s) /\ SameRest(r, s) /\ SameHistory(r, s)
           /\ s.work = r.work /\ s.merging = r.merging
           /\ s.conflicts = r.conflicts /\ s.index = r.index
           /\ Marks(r, s, files)
<1> DEFINE more == {f \in files : r.index[f] = 0 /\ r.work[f] # 0}
<1>1. s = [r EXCEPT !.intent = r.intent \cup more]
  BY RepoTyped DEF AddIntent, Repos
<1>2. more \subseteq Files /\ \A f \in more : r.index[f] = 0
  OBVIOUS
<1> HIDE DEF more
<1>3. /\ SameRest(r, s) /\ SameHistory(r, s) /\ s.work = r.work /\ s.merging = r.merging
      /\ s.intent = r.intent \cup more /\ s.conflicts = r.conflicts /\ s.index = r.index
  BY <1>1, RepoTyped DEF SameRest, SameHistory, Repos
<1>4. s \in Repos
  <2>1. r \in Repos /\ r.intent \in SUBSET Files /\ r.conflicts \in SUBSET Files
    BY RepoTyped
  <2> QED BY <1>1, <1>2, <2>1 DEF Repos
<1>5. \A f \in s.intent : s.index[f] = 0
  BY <1>2, <1>3 DEF Sound
<1>6. Sound(s)
  <2>1. s.merging \in 0..Len(r.commits)
    BY <1>3, RepoTyped
  <2>2. s.conflicts # {} => s.merging # 0
    BY <1>3 DEF Sound
  <2>3. Consistent(s, Len(r.commits))
    BY <1>5, <2>1, <2>2 DEF Consistent
  <2> QED BY <1>3, <1>4, <2>3, SoundChanged
<1>7. Marks(r, s, files)
  BY <1>3 DEF Marks, more
<1> QED BY <1>3, <1>6, <1>7, GrowsHolds DEF SameHistory

\* A commit on the current branch, and nothing else of the history.
Committed(r, s, parents, tree) ==
    /\ s.commits = NewCommit(r, parents, tree)
    /\ s.refs = [r.refs EXCEPT ![r.at] = Len(r.commits) + 1]
    /\ Tip(s) = Len(r.commits) + 1
    /\ s.commits[Tip(s)].parents = parents /\ s.commits[Tip(s)].tree = tree
    /\ Room(r)

\* A repository with the commit written, before the branch moves to it.
Written(r, q, parents, tree) ==
    /\ q \in Repos /\ q.commits = NewCommit(r, parents, tree)
    /\ q.refs = r.refs /\ SameRest(r, q)

LEMMA CommittedIs ==
    ASSUME NEW r, Sound(r), MaxCommits \in Nat, Room(r),
           NEW parents \in SUBSET (1..Len(r.commits)), NEW tree \in Trees,
           NEW q, Written(r, q, parents, tree), NEW s, s = Moved(q)
    PROVE  /\ s \in Repos /\ Committed(r, s, parents, tree)
           /\ SameRest(r, s) /\ SameFiles(q, s) /\ Names(s, Len(r.commits) + 1)
<1> DEFINE old == r.commits  new == q.commits  added == [parents |-> parents, tree |-> tree]
<1>1. Ordered(old) /\ Len(old) < MaxCommits /\ parents \subseteq 1..Len(old) /\ Len(old) \in Nat
  BY HistoryTyped, RepoTyped DEF Room
<1>2. new = Append(old, added)
  BY DEF NewCommit, Written
<1>3. added \in Commits /\ added.parents = parents /\ added.tree = tree
  BY <1>1 DEF Commits
<1> HIDE DEF old, new, added
<1>4. Len(new) = Len(old) + 1 /\ new[Len(old) + 1] = added /\ Len(new) <= MaxCommits
  BY <1>1, <1>2, <1>3, OneMore DEF Ordered
<1>5. s = [q EXCEPT !.refs[q.at] = Len(q.commits)]
  BY DEF Moved
<1>0. q \in Repos /\ q.refs = r.refs /\ SameRest(r, q)
  BY DEF Written
<1>6. /\ s.refs = [r.refs EXCEPT ![r.at] = Len(q.commits)]
      /\ s.commits = q.commits /\ SameRest(q, s) /\ SameFiles(q, s)
  BY <1>0, <1>5 DEF Repos, SameRest, SameFiles
<1>7. Len(q.commits) = Len(r.commits) + 1 /\ Len(q.commits) <= MaxCommits /\ Len(r.commits) \in Nat
  BY <1>1, <1>4 DEF old, new
<1>8. /\ r.at \in Branches /\ r.refs \in [Branches -> 0..MaxCommits] /\ s.at = r.at
      /\ SameRest(r, s)
  BY <1>0, <1>6, RepoTyped DEF SameRest
<1>9. \A b \in Branches : s.refs[b] = IF b = r.at THEN Len(r.commits) + 1 ELSE r.refs[b]
  BY <1>6, <1>7, <1>8
<1>10. s \in Repos
  <2>1. s.refs \in [Branches -> 0..MaxCommits]
    BY <1>6, <1>7, <1>8
  <2> QED BY <1>0, <1>5, <1>6, <2>1 DEF Repos
<1>11. Tip(s) = Len(r.commits) + 1
  BY <1>8, <1>9 DEF Tip
<1>12. s.commits[Tip(s)] = added
  BY <1>4, <1>6, <1>11 DEF old, new
<1>13. Names(s, Len(r.commits) + 1)
  <2>1. ASSUME NEW b \in Branches
        PROVE  /\ s.refs[b] \in 0..(Len(r.commits) + 1) /\ s.remote[b] \in 0..(Len(r.commits) + 1)
               /\ s.tracking[b] \in 0..(Len(r.commits) + 1)
    <3>1. s.remote = r.remote /\ s.tracking = r.tracking
      BY <1>8 DEF SameRest
    <3> QED BY <1>7, <1>9, <3>1, RefsTyped
  <2>2. s.refs[s.at] # 0
    BY <1>7, <1>8, <1>9
  <2> QED BY <2>1, <2>2 DEF Names
<1>14. s.commits = NewCommit(r, parents, tree)
  BY <1>6 DEF Written
<1> QED BY <1>3, <1>6, <1>7, <1>8, <1>10, <1>11, <1>12, <1>13, <1>14 DEF Committed

LEMMA NewCommitTyped ==
    ASSUME NEW r, Sound(r), MaxCommits \in Nat, Room(r),
           NEW parents \in SUBSET (1..Len(r.commits)), NEW tree \in Trees
    PROVE  NewCommit(r, parents, tree) \in Seq(Commits)
<1>1. r.commits \in Seq(Commits) /\ Len(r.commits) \in Nat /\ Len(r.commits) <= MaxCommits
  BY RepoTyped
<1>2. [parents |-> parents, tree |-> tree] \in Commits
  BY <1>1 DEF Commits
<1> QED BY <1>1, <1>2 DEF NewCommit

LEMMA CommitStagedDoes ==
    ASSUME NEW r, Sound(r), MaxCommits \in Nat, NEW s, s \in CommitStaged(r)
    PROVE  /\ Sound(s) /\ Grows(r, s) /\ SameRest(r, s)
           /\ Committed(r, s, {Tip(r), r.merging} \ {0}, r.index)
           /\ s.work = r.work /\ s.index = r.index /\ s.intent = r.intent
           /\ r.conflicts = {} /\ s.conflicts = {} /\ s.merging = 0
<1> DEFINE parents == {Tip(r), r.merging} \ {0}
<1> DEFINE q == [r EXCEPT !.commits = NewCommit(r, parents, r.index)]
<1>1. r.conflicts = {} /\ Room(r) /\ s = [Moved(q) EXCEPT !.merging = 0]
  BY DEF CommitStaged
<1>2. parents \in SUBSET (1..Len(r.commits))
  BY RepoTyped, TipTyped
<1>3. r \in Repos /\ r.index \in Trees
  BY RepoTyped
<1>4. NewCommit(r, parents, r.index) \in Seq(Commits)
  BY <1>1, <1>2, <1>3, NewCommitTyped
<1>5. SameFiles(r, q) /\ Written(r, q, parents, r.index)
  BY <1>3, <1>4 DEF Repos, Commits, SameRest, SameFiles, Written
<1> HIDE DEF parents, q
<1> DEFINE m == Moved(q)
<1>6. s = [m EXCEPT !.merging = 0]
  BY <1>1
<1>8. /\ m \in Repos /\ Committed(r, m, parents, r.index)
      /\ SameRest(r, m) /\ SameFiles(q, m) /\ Names(m, Len(r.commits) + 1)
  BY <1>1, <1>2, <1>3, <1>5, CommittedIs
<1> HIDE DEF m
<1>9. /\ s \in Repos /\ SameHistory(m, s) /\ SameRest(m, s)
      /\ s.index = m.index /\ s.intent = m.intent /\ s.work = m.work
      /\ s.merging = 0 /\ s.conflicts = m.conflicts
  <2>1. m \in Repos
    BY <1>8
  <2>2. 0 \in 0..MaxCommits
    OBVIOUS
  <2>3. s \in Repos
    BY <1>6, <2>1, <2>2 DEF Repos
  <2>4. /\ SameHistory(m, s) /\ SameRest(m, s)
        /\ s.index = m.index /\ s.intent = m.intent /\ s.work = m.work
        /\ s.merging = 0 /\ s.conflicts = m.conflicts
    BY <1>6, <2>1 DEF Repos, SameRest, SameHistory
  <2> QED BY <2>3, <2>4
<1>10. SameRest(r, s)
  BY <1>8, <1>9 DEF SameRest
<1>11. Committed(r, s, parents, r.index)
  BY <1>8, <1>9 DEF Committed, SameHistory, SameRest, Tip
<1>12. Names(s, Len(r.commits) + 1)
  BY <1>8, <1>9 DEF SameHistory, SameRest, Names
<1>13. /\ s.work = r.work /\ s.index = r.index /\ s.intent = r.intent
       /\ s.conflicts = {} /\ s.merging = 0
  BY <1>1, <1>5, <1>8, <1>9 DEF SameFiles
<1>14. Consistent(s, Len(r.commits))
  BY <1>13, RepoTyped DEF Sound, Consistent
<1>15. s.commits = NewCommit(r, parents, r.index)
  BY <1>11 DEF Committed
<1>16. Sound(s) /\ Grows(r, s)
  BY <1>1, <1>2, <1>3, <1>9, <1>12, <1>14, <1>15, SoundGrown
<1> QED BY <1>1, <1>10, <1>11, <1>13, <1>16 DEF parents

\* The commit is of the files as they are, on top of HEAD.
Takes(r, s, files) ==
    \E tree \in Trees :
        /\ Committed(r, s, {Tip(r)}, tree)
        /\ \A f \in Files : tree[f] = IF f \in files THEN r.work[f] ELSE TipTree(r)[f]

\* Their entries of the index are as they are.
Stages(r, s, files) ==
    /\ \A f \in Files : s.index[f] = IF f \in files THEN r.work[f] ELSE r.index[f]
    /\ s.intent = r.intent \ files

LEMMA CommitOnlyDoes ==
    ASSUME NEW r, Sound(r), MaxCommits \in Nat, NEW files \in SUBSET Files,
           NEW s, s \in CommitOnly(r, files)
    PROVE  /\ Sound(s) /\ Grows(r, s) /\ SameRest(r, s)
           /\ Takes(r, s, files) /\ Stages(r, s, files) /\ s.work = r.work
           /\ s.conflicts = r.conflicts /\ r.merging = 0 /\ s.merging = 0
<1> DEFINE tree == [f \in Files |-> IF f \in files THEN r.work[f] ELSE TipTree(r)[f]]
           index == [f \in Files |-> IF f \in files THEN r.work[f] ELSE r.index[f]]
<1> DEFINE q == [r EXCEPT !.commits = NewCommit(r, {Tip(r)}, tree), !.index = index,
                          !.intent = r.intent \ files]
<1>3. /\ r \in Repos /\ r.index \in Trees /\ r.work \in Trees /\ r.intent \in SUBSET Files
      /\ TipTree(r) \in Trees
  BY RepoTyped, TipTyped
<1>1. r.merging = 0 /\ Room(r) /\ s = Moved(q)
  <2>1. q = [r EXCEPT !.commits = NewCommit(r, {Tip(r)}, tree),
                      !.index = [f \in Files |-> IF f \in files THEN r.work[f] ELSE @[f]],
                      !.intent = @ \ files]
    BY <1>3 DEF Repos
  <2> HIDE DEF q
  <2> QED BY <2>1 DEF CommitOnly
<1>2. {Tip(r)} \in SUBSET (1..Len(r.commits))
  BY TipTyped
<1>14. /\ tree \in Trees /\ index \in Trees
       /\ \A f \in Files : tree[f] = IF f \in files THEN r.work[f] ELSE TipTree(r)[f]
       /\ \A f \in Files : index[f] = IF f \in files THEN r.work[f] ELSE r.index[f]
  BY <1>3 DEF Trees
<1> HIDE DEF tree, index
<1>4. NewCommit(r, {Tip(r)}, tree) \in Seq(Commits)
  BY <1>1, <1>2, <1>14, NewCommitTyped
<1>5. /\ Written(r, q, {Tip(r)}, tree) /\ q.index = index /\ q.intent = r.intent \ files
      /\ q.work = r.work /\ q.merging = r.merging /\ q.conflicts = r.conflicts
  BY <1>3, <1>4, <1>14 DEF Repos, Commits, SameRest, Written
<1> HIDE DEF q
<1>8. /\ s \in Repos /\ Committed(r, s, {Tip(r)}, tree)
      /\ SameRest(r, s) /\ SameFiles(q, s) /\ Names(s, Len(r.commits) + 1)
  BY <1>1, <1>2, <1>5, <1>14, CommittedIs
<1>9. /\ s.work = r.work /\ s.index = index /\ s.intent = r.intent \ files
      /\ s.conflicts = r.conflicts /\ s.merging = 0
  BY <1>1, <1>5, <1>8 DEF SameFiles
<1>10. Consistent(s, Len(r.commits))
  <2>1. \A f \in s.intent : s.index[f] = 0
    BY <1>3, <1>9, <1>14 DEF Sound
  <2>2. (s.conflicts # {} => s.merging # 0) /\ s.merging \in 0..Len(r.commits)
    BY <1>1, <1>9, RepoTyped DEF Sound
  <2> QED BY <2>1, <2>2 DEF Consistent
<1>11. s.commits = NewCommit(r, {Tip(r)}, tree)
  BY <1>8 DEF Committed
<1>13. Sound(s) /\ Grows(r, s)
  BY <1>1, <1>2, <1>8, <1>10, <1>11, <1>14, SoundGrown
<1>15. Takes(r, s, files)
  BY <1>8, <1>14 DEF Takes
<1>16. Stages(r, s, files)
  BY <1>9, <1>14 DEF Stages
<1> QED BY <1>1, <1>8, <1>9, <1>13, <1>15, <1>16

\* The files that differ between two trees hold what the new one has.
Overwrites(r, s, old, new) ==
    /\ \A f \in Files : s.index[f] = IF old[f] # new[f] THEN new[f] ELSE r.index[f]
    /\ \A f \in Files : s.work[f] = IF old[f] # new[f] THEN new[f] ELSE r.work[f]

LEMMA ReplacedDoes ==
    ASSUME NEW r, Sound(r), MaxCommits \in Nat, NEW old \in Trees, NEW new \in Trees,
           Replaces(r, old, new), NEW s, s = Replaced(r, old, new)
    PROVE  /\ s \in Repos /\ SameRest(r, s) /\ SameHistory(r, s) /\ Overwrites(r, s, old, new)
           /\ s.intent = r.intent /\ s.merging = r.merging /\ s.conflicts = r.conflicts
           /\ \A f \in s.intent : s.index[f] = 0
<1> DEFINE index == [f \in Files |-> IF old[f] # new[f] THEN new[f] ELSE r.index[f]]
           work == [f \in Files |-> IF old[f] # new[f] THEN new[f] ELSE r.work[f]]
<1>1. r \in Repos /\ r.index \in Trees /\ r.work \in Trees /\ r.intent \in SUBSET Files
  BY RepoTyped
<1>2. s = [r EXCEPT !.index = index, !.work = work]
  BY <1>1 DEF Replaced, Repos
<1>3. /\ index \in Trees /\ work \in Trees
      /\ \A f \in Files : index[f] = IF old[f] # new[f] THEN new[f] ELSE r.index[f]
      /\ \A f \in Files : work[f] = IF old[f] # new[f] THEN new[f] ELSE r.work[f]
  BY <1>1 DEF Trees
<1> HIDE DEF index, work
<1>4. s \in Repos
  BY <1>1, <1>2, <1>3 DEF Repos
<1>5. /\ SameRest(r, s) /\ SameHistory(r, s) /\ s.index = index /\ s.work = work
      /\ s.intent = r.intent /\ s.merging = r.merging /\ s.conflicts = r.conflicts
  BY <1>1, <1>2 DEF Repos, SameRest, SameHistory
<1>6. Overwrites(r, s, old, new)
  BY <1>3, <1>5 DEF Overwrites
<1>7. ASSUME NEW f \in s.intent PROVE s.index[f] = 0
  <2>1. f \in Files /\ f \in r.intent /\ r.index[f] = 0
    BY <1>1, <1>5 DEF Sound
  <2>2. old[f] = new[f]
    BY <2>1 DEF Replaces
  <2> QED BY <1>3, <1>5, <2>1, <2>2
<1> QED BY <1>4, <1>5, <1>6, <1>7

SameFlags(r, s) ==
    s.lock = r.lock /\ s.config = r.config /\ s.remote = r.remote /\ s.tracking = r.tracking

LEMMA CreateDoes ==
    ASSUME NEW r, Sound(r), MaxCommits \in Nat, NEW branch \in Branches,
           NEW s, s \in Switch(r, branch, TRUE)
    PROVE  /\ Sound(s) /\ Grows(r, s) /\ SameFlags(r, s) /\ SameFiles(r, s)
           /\ s.commits = r.commits /\ s.at = branch /\ Tip(s) = Tip(r)
<1>1. r \in Repos /\ r.refs \in [Branches -> 0..MaxCommits] /\ Len(r.commits) \in Nat
  BY RepoTyped
<1>2. s = [r EXCEPT !.refs[branch] = Tip(r), !.at = branch]
  BY DEF Switch
<1>3. Tip(r) \in 1..Len(r.commits) /\ Tip(r) \in 0..MaxCommits
  BY <1>1, TipTyped, RepoTyped
<1>4. s \in Repos
  BY <1>1, <1>2, <1>3 DEF Repos
<1>5. /\ SameFlags(r, s) /\ SameFiles(r, s) /\ s.commits = r.commits /\ s.at = branch
      /\ s.refs = [r.refs EXCEPT ![branch] = Tip(r)]
  BY <1>1, <1>2 DEF Repos, SameFlags, SameFiles
<1>6. \A b \in Branches : s.refs[b] = IF b = branch THEN Tip(r) ELSE r.refs[b]
  BY <1>1, <1>5
<1>7. Tip(s) = Tip(r)
  BY <1>5, <1>6 DEF Tip
<1>8. Names(s, Len(r.commits))
  <2>1. ASSUME NEW b \in Branches
        PROVE  /\ s.refs[b] \in 0..Len(r.commits) /\ s.remote[b] \in 0..Len(r.commits)
               /\ s.tracking[b] \in 0..Len(r.commits)
    BY <1>3, <1>5, <1>6, RefsTyped DEF SameFlags
  <2>2. s.refs[s.at] # 0
    BY <1>3, <1>5, <1>6
  <2> QED BY <2>1, <2>2 DEF Names
<1>9. Consistent(s, Len(r.commits))
  BY <1>5, RepoTyped DEF Consistent, Sound, SameFiles
<1>10. Sound(s)
  BY <1>4, <1>5, <1>8, <1>9, SoundMoved
<1> QED BY <1>5, <1>7, <1>10, GrowsHolds

\* Entries of intent and a merge under way are kept.
Keeps(r, s) == s.intent = r.intent /\ s.merging = r.merging /\ s.conflicts = r.conflicts

\* The branch becomes the current one, where it was.
GoesTo(r, s, branch) == s.at = branch /\ Tip(s) = r.refs[branch]

\* What git replaced was clean.
Carries(r, s) ==
    \E new \in Trees : Replaces(r, TipTree(r), new) /\ Overwrites(r, s, TipTree(r), new)

LEMMA SwitchDoes ==
    ASSUME NEW r, Sound(r), MaxCommits \in Nat, NEW branch \in Branches,
           NEW create, create = FALSE, NEW s, s \in Switch(r, branch, create)
    PROVE  /\ Sound(s) /\ Grows(r, s) /\ SameFlags(r, s) /\ SameHistory(r, s)
           /\ GoesTo(r, s, branch) /\ r.merging = 0
           /\ Keeps(r, s) /\ Carries(r, s)
<1> DEFINE old == TipTree(r)  new == r.commits[r.refs[branch]].tree  q == Replaced(r, old, new)
<1>1. r.refs[branch] # 0 /\ r.merging = 0 /\ Replaces(r, old, new) /\ s = [q EXCEPT !.at = branch]
  BY DEF Switch
<1>2. old \in Trees /\ new \in Trees /\ r.refs[branch] \in 1..Len(r.commits)
  BY <1>1, TipTyped, RefsTyped, RepoTyped, CommitTyped
<1>3. /\ q \in Repos /\ SameRest(r, q) /\ SameHistory(r, q) /\ Overwrites(r, q, old, new)
      /\ q.intent = r.intent /\ q.merging = r.merging /\ q.conflicts = r.conflicts
      /\ \A f \in q.intent : q.index[f] = 0
  <2> HIDE DEF old, new
  <2> QED BY <1>1, <1>2, ReplacedDoes
<1> HIDE DEF q, old, new
<1>4. s \in Repos
  BY <1>1, <1>3 DEF Repos
<1>5. SameFlags(q, s) /\ SameHistory(q, s) /\ s.at = branch /\ SameFiles(q, s)
  BY <1>1, <1>3 DEF Repos, SameFlags, SameHistory, SameFiles
<1>6. SameFlags(r, s) /\ SameHistory(r, s)
  BY <1>3, <1>5 DEF SameFlags, SameRest, SameHistory
<1>7. Overwrites(r, s, old, new) /\ s.intent = r.intent /\ s.merging = r.merging
      /\ s.conflicts = r.conflicts /\ \A f \in s.intent : s.index[f] = 0
  BY <1>3, <1>5 DEF Overwrites, SameFiles
<1>8. Tip(s) = r.refs[branch]
  BY <1>5, <1>6 DEF Tip, SameHistory
<1>9. Names(s, Len(r.commits))
  BY <1>1, <1>5, <1>6, RefsTyped DEF Names, SameFlags, SameHistory
<1>10. Consistent(s, Len(r.commits))
  BY <1>7, RepoTyped DEF Consistent, Sound
<1>11. Sound(s)
  BY <1>4, <1>6, <1>9, <1>10, SoundMoved DEF SameHistory
<1>12. Carries(r, s)
  BY <1>1, <1>2, <1>7 DEF Carries, old
<1>13. Keeps(r, s)
  BY <1>7 DEF Keeps
<1>14. GoesTo(r, s, branch)
  BY <1>5, <1>8 DEF GoesTo
<1> QED BY <1>1, <1>5, <1>6, <1>7, <1>8, <1>11, <1>12, <1>13, <1>14, GrowsHolds DEF SameHistory

LEMMA MergedTyped ==
    ASSUME NEW r, Sound(r), MaxCommits \in Nat, NEW source \in 1..Len(r.commits)
    PROVE  /\ Merged(r, source) \in Trees /\ Clashes(r, source) \subseteq Files
           /\ \A f \in Clashes(r, source) : TipTree(r)[f] # Merged(r, source)[f]
<1> DEFINE base == Base(r, source)  ours == TipTree(r)  theirs == r.commits[source].tree
<1>1. ours \in Trees /\ theirs \in Trees
  BY TipTyped, CommitTyped
<1>2. Merged(r, source) = [f \in Files |-> IF theirs[f] = base[f] THEN ours[f] ELSE theirs[f]]
  BY Zenon DEF Merged
<1>3. Clashes(r, source) =
        {f \in Files : ours[f] # base[f] /\ theirs[f] # base[f] /\ ours[f] # theirs[f]}
  BY Zenon DEF Clashes
<1> HIDE DEF base, ours, theirs
<1>4. Merged(r, source) \in Trees
  BY <1>1, <1>2 DEF Trees
<1>5. ASSUME NEW f \in Clashes(r, source) PROVE ours[f] # Merged(r, source)[f]
  BY <1>2, <1>3
<1> QED BY <1>3, <1>4, <1>5 DEF ours

\* A merge that succeeds moves the branch to the other's commit, or to a new one.
LEMMA MergeDoes ==
    ASSUME NEW r, Sound(r), MaxCommits \in Nat, NEW source \in 1..Len(r.commits),
           NEW s, s \in Merge(r, source)
    PROVE  /\ Sound(s) /\ Grows(r, s) /\ SameRest(r, s)
           /\ s.intent = r.intent /\ s.merging = r.merging /\ s.conflicts = r.conflicts
           /\ r.merging = 0 /\ Replaces(r, TipTree(r), Merged(r, source))
           /\ Overwrites(r, s, TipTree(r), Merged(r, source))
           /\ \/ /\ Tip(r) \in Reach(r, source)
                 /\ s.commits = r.commits /\ Tip(s) = source
              \/ Committed(r, s, {Tip(r), source}, Merged(r, source))
<1> DEFINE old == TipTree(r)  new == Merged(r, source)  q == Replaced(r, old, new)
<1>1. /\ r.merging = 0 /\ Replaces(r, old, new)
      /\ \/ Tip(r) \in Reach(r, source) /\ s = [q EXCEPT !.refs[r.at] = source]
         \/ /\ Room(r)
            /\ s = Moved([q EXCEPT !.commits = NewCommit(r, {Tip(r), source}, new)])
  BY DEF Merge, CanMerge
<1>2. old \in Trees /\ new \in Trees /\ r.at \in Branches /\ Len(r.commits) \in Nat
      /\ Len(r.commits) <= MaxCommits
  BY TipTyped, MergedTyped, RepoTyped
<1> HIDE DEF old, new
<1>3. /\ q \in Repos /\ SameRest(r, q) /\ SameHistory(r, q) /\ Overwrites(r, q, old, new)
      /\ q.intent = r.intent /\ q.merging = r.merging /\ q.conflicts = r.conflicts
      /\ \A f \in q.intent : q.index[f] = 0
  BY <1>1, <1>2, ReplacedDoes
<1> HIDE DEF q
<1>4. CASE Tip(r) \in Reach(r, source) /\ s = [q EXCEPT !.refs[r.at] = source]
  <2>1. r.refs \in [Branches -> 0..MaxCommits]
    BY RepoTyped
  <2>2. s \in Repos
    <3>1. source \in 0..MaxCommits /\ q \in Repos /\ r.at \in Branches
      BY <1>2, <1>3
    <3>2. s = [q EXCEPT !.refs[r.at] = source]
      BY <1>4
    <3> QED BY <3>1, <3>2 DEF Repos
  <2>3. /\ SameRest(q, s) /\ SameFiles(q, s) /\ s.commits = q.commits
        /\ s.refs = [q.refs EXCEPT ![r.at] = source]
    BY <1>3, <1>4 DEF Repos, SameRest, SameFiles
  <2>4. SameRest(r, s) /\ s.commits = r.commits /\ s.refs = [r.refs EXCEPT ![r.at] = source]
    BY <1>3, <2>3 DEF SameRest, SameHistory
  <2>5. \A b \in Branches : s.refs[b] = IF b = r.at THEN source ELSE r.refs[b]
    BY <2>1, <2>4
  <2>6. Tip(s) = source
    BY <1>2, <2>4, <2>5 DEF Tip, SameRest
  <2>7. Names(s, Len(r.commits))
    <3>1. ASSUME NEW b \in Branches
          PROVE  /\ s.refs[b] \in 0..Len(r.commits) /\ s.remote[b] \in 0..Len(r.commits)
                 /\ s.tracking[b] \in 0..Len(r.commits)
      BY <1>2, <2>4, <2>5, RefsTyped DEF SameRest
    <3>2. s.refs[s.at] # 0
      BY <2>6 DEF Tip
    <3> QED BY <3>1, <3>2 DEF Names
  <2>8. /\ Overwrites(r, s, old, new) /\ s.intent = r.intent /\ s.merging = r.merging
        /\ s.conflicts = r.conflicts /\ \A f \in s.intent : s.index[f] = 0
    BY <1>3, <2>3 DEF Overwrites, SameFiles
  <2>9. Consistent(s, Len(r.commits))
    BY <2>8, RepoTyped DEF Consistent, Sound
  <2>10. Sound(s)
    BY <2>2, <2>4, <2>7, <2>9, SoundMoved
  <2> QED BY <1>1, <1>4, <2>4, <2>6, <2>8, <2>10, GrowsHolds DEF old, new
<1>5. CASE /\ Room(r)
           /\ s = Moved([q EXCEPT !.commits = NewCommit(r, {Tip(r), source}, new)])
  <2> DEFINE p == [q EXCEPT !.commits = NewCommit(r, {Tip(r), source}, new)]
  <2>1. {Tip(r), source} \in SUBSET (1..Len(r.commits))
    BY TipTyped
  <2>2. NewCommit(r, {Tip(r), source}, new) \in Seq(Commits)
    BY <1>2, <1>5, <2>1, NewCommitTyped
  <2>3. SameFiles(q, p) /\ SameRest(q, p) /\ p \in Repos /\ p.refs = q.refs
        /\ p.commits = NewCommit(r, {Tip(r), source}, new)
    BY <1>3, <2>2 DEF Repos, Commits, SameRest, SameFiles
  <2> HIDE DEF p
  <2>4. Written(r, p, {Tip(r), source}, new)
    BY <1>3, <2>3 DEF Written, SameHistory, SameRest
  <2>5. s = Moved(p)
    BY <1>5 DEF p
  <2>6. /\ s \in Repos /\ Committed(r, s, {Tip(r), source}, new)
        /\ SameRest(r, s) /\ SameFiles(p, s) /\ Names(s, Len(r.commits) + 1)
    BY <1>2, <1>5, <2>1, <2>4, <2>5, CommittedIs
  <2>7. /\ Overwrites(r, s, old, new) /\ s.intent = r.intent /\ s.merging = r.merging
        /\ s.conflicts = r.conflicts /\ \A f \in s.intent : s.index[f] = 0
    BY <1>3, <2>3, <2>6 DEF Overwrites, SameFiles
  <2>8. Consistent(s, Len(r.commits))
    BY <2>7, RepoTyped DEF Consistent, Sound
  <2>9. s.commits = NewCommit(r, {Tip(r), source}, new)
    BY <2>6 DEF Committed
  <2>10. Sound(s) /\ Grows(r, s)
    BY <1>2, <1>5, <2>1, <2>6, <2>8, <2>9, SoundGrown
  <2> QED BY <1>1, <2>6, <2>7, <2>10 DEF old, new
<1> QED BY <1>1, <1>4, <1>5

LEMMA MergeStopsDoes ==
    ASSUME NEW r, Sound(r), MaxCommits \in Nat, NEW source \in 1..Len(r.commits),
           NEW s, s \in MergeStops(r, source)
    PROVE  /\ Sound(s) /\ Grows(r, s) /\ SameRest(r, s) /\ SameHistory(r, s)
           /\ s.intent = r.intent /\ s.merging = source
           /\ s.conflicts = Clashes(r, source) /\ Clashes(r, source) # {}
           /\ r.merging = 0 /\ r.conflicts = {} /\ r.index = TipTree(r)
           /\ Replaces(r, TipTree(r), Merged(r, source))
           /\ Overwrites(r, s, TipTree(r), Merged(r, source))
<1> DEFINE old == TipTree(r)  new == Merged(r, source)  q == Replaced(r, old, new)
           clashes == Clashes(r, source)
<1>1. /\ r.merging = 0 /\ r.index = TipTree(r) /\ Replaces(r, old, new)
      /\ s = [q EXCEPT !.merging = source, !.conflicts = clashes] /\ clashes # {}
  BY DEF MergeStops, CanMerge
<1>2. old \in Trees /\ new \in Trees /\ Len(r.commits) \in Nat /\ clashes \subseteq Files
      /\ Len(r.commits) <= MaxCommits
  BY TipTyped, MergedTyped, RepoTyped
<1> HIDE DEF old, new, clashes
<1>3. /\ q \in Repos /\ SameRest(r, q) /\ SameHistory(r, q) /\ Overwrites(r, q, old, new)
      /\ q.intent = r.intent /\ \A f \in q.intent : q.index[f] = 0
  BY <1>1, <1>2, ReplacedDoes
<1> HIDE DEF q
<1>4. s \in Repos
  <2>1. source \in 0..MaxCommits
    BY <1>2
  <2> QED BY <1>1, <1>2, <1>3, <2>1 DEF Repos
<1>5. /\ SameRest(q, s) /\ SameHistory(q, s) /\ s.index = q.index /\ s.work = q.work
      /\ s.intent = q.intent /\ s.merging = source /\ s.conflicts = clashes
  BY <1>1, <1>3 DEF Repos, SameRest, SameHistory
<1>6. /\ SameRest(r, s) /\ SameHistory(r, s) /\ Overwrites(r, s, old, new)
      /\ s.intent = r.intent /\ \A f \in s.intent : s.index[f] = 0
  BY <1>3, <1>5 DEF SameRest, SameHistory, Overwrites
<1>7. Consistent(s, Len(r.commits))
  BY <1>2, <1>5, <1>6 DEF Consistent
<1>8. Sound(s)
  BY <1>4, <1>6, <1>7, SoundChanged
<1>9. r.conflicts = {}
  BY <1>1 DEF Sound
<1> QED BY <1>1, <1>5, <1>6, <1>8, <1>9, GrowsHolds DEF old, new, clashes, SameHistory

LEMMA MergeAbortDoes ==
    ASSUME NEW r, Sound(r), MaxCommits \in Nat, NEW s, s \in MergeAbort(r)
    PROVE  /\ Sound(s) /\ Grows(r, s) /\ SameRest(r, s) /\ SameHistory(r, s)
           /\ s.merging = 0 /\ s.conflicts = {} /\ s.intent = {} /\ s.index = TipTree(r)
           /\ \A f \in Files : s.work[f] = IF r.index[f] # TipTree(r)[f] \/ f \in r.conflicts
                                           THEN TipTree(r)[f] ELSE r.work[f]
<1> DEFINE tip == TipTree(r)
           work == [f \in Files |-> IF r.index[f] # tip[f] \/ f \in r.conflicts
                                    THEN tip[f] ELSE r.work[f]]
<1>1. r \in Repos /\ tip \in Trees /\ r.work \in Trees
  BY RepoTyped, TipTyped
<1>2. s = [r EXCEPT !.merging = 0, !.conflicts = {}, !.index = tip, !.intent = {}, !.work = work]
  <2>1. [r EXCEPT !.merging = 0, !.conflicts = {}, !.index = tip, !.intent = {}, !.work = work]
        = [r EXCEPT !.merging = 0, !.conflicts = {}, !.index = TipTree(r), !.intent = {},
                    !.work = [f \in Files |->
                        IF r.index[f] # TipTree(r)[f] \/ f \in r.conflicts
                        THEN TipTree(r)[f] ELSE @[f]]]
    BY <1>1 DEF Repos
  <2> HIDE DEF work, tip
  <2> QED BY <2>1, Zenon DEF MergeAbort
<1>3. /\ work \in Trees
      /\ \A f \in Files : work[f] = IF r.index[f] # tip[f] \/ f \in r.conflicts
                                    THEN tip[f] ELSE r.work[f]
  BY <1>1 DEF Trees
<1> HIDE DEF work, tip
<1>4. 0 \in 0..MaxCommits
  OBVIOUS
<1>5. s \in Repos
  BY <1>1, <1>2, <1>3, <1>4 DEF Repos
<1>6. /\ SameRest(r, s) /\ SameHistory(r, s) /\ s.merging = 0 /\ s.conflicts = {}
      /\ s.intent = {} /\ s.index = tip /\ s.work = work
  BY <1>1, <1>2 DEF Repos, SameRest, SameHistory
<1>7. Consistent(s, Len(r.commits))
  BY <1>6, RepoTyped DEF Consistent
<1>8. Sound(s)
  BY <1>5, <1>6, <1>7, SoundChanged
<1> QED BY <1>3, <1>6, <1>8, GrowsHolds DEF SameHistory, tip

LEMMA PushDoes ==
    ASSUME NEW r, Sound(r), MaxCommits \in Nat, NEW branch \in Branches,
           NEW s, s \in Push(r, branch)
    PROVE  /\ Sound(s) /\ Grows(r, s) /\ SameHistory(r, s) /\ SameFiles(r, s)
           /\ s.at = r.at /\ s.lock = r.lock /\ s.config = r.config
           /\ s.remote = [r.remote EXCEPT ![branch] = r.refs[branch]]
<1>1. /\ r \in Repos /\ r.remote \in [Branches -> 0..MaxCommits]
      /\ r.tracking \in [Branches -> 0..MaxCommits]
      /\ r.refs[branch] \in 0..MaxCommits /\ Len(r.commits) \in Nat
  BY RepoTyped
<1>2. s = [r EXCEPT !.remote[branch] = r.refs[branch], !.tracking[branch] = r.refs[branch]]
  BY DEF Push
<1>3. s \in Repos
  BY <1>1, <1>2 DEF Repos
<1>4. /\ SameHistory(r, s) /\ SameFiles(r, s) /\ s.at = r.at /\ s.lock = r.lock
      /\ s.config = r.config /\ s.remote = [r.remote EXCEPT ![branch] = r.refs[branch]]
      /\ s.tracking = [r.tracking EXCEPT ![branch] = r.refs[branch]]
  BY <1>1, <1>2 DEF Repos, SameHistory, SameFiles
<1>5. Names(s, Len(r.commits))
  <2>1. ASSUME NEW b \in Branches
        PROVE  /\ s.refs[b] \in 0..Len(r.commits) /\ s.remote[b] \in 0..Len(r.commits)
               /\ s.tracking[b] \in 0..Len(r.commits)
    BY <1>1, <1>4, RefsTyped DEF SameHistory
  <2>2. s.refs[s.at] # 0
    BY <1>4 DEF SameHistory, Sound
  <2> QED BY <2>1, <2>2 DEF Names
<1>6. Consistent(s, Len(r.commits))
  BY <1>4, RepoTyped DEF Consistent, Sound, SameFiles
<1>7. Sound(s)
  BY <1>3, <1>4, <1>5, <1>6, SoundMoved DEF SameHistory
<1> QED BY <1>4, <1>7, GrowsHolds DEF SameHistory

-----------------------------------------------------------------------------
(* What the fingerprint tells.                                             *)

LEMMA FingerprintTells ==
    ASSUME NEW r, NEW s, Fingerprint(r) = Fingerprint(s)
    PROVE  /\ Tip(r) = Tip(s) /\ r.at = s.at /\ r.refs = s.refs /\ r.tracking = s.tracking
           /\ Status(r) = Status(s) /\ r.config = s.config
  BY DEF Fingerprint

LEMMA LetterIs ==
    ASSUME NEW old, NEW new
    PROVE  /\ Against(old, new) \in {" ", "A", "D", "M"}
           /\ Against(old, new) = " " <=> old = new
  BY DEF Against

LEMMA StatusOf ==
    ASSUME NEW r, NEW f \in Files
    PROVE  /\ f \in r.conflicts => Status(r)[f] = <<"U", "U">>
           /\ f \notin r.conflicts => /\ Status(r)[f][1] = Against(TipTree(r)[f], r.index[f])
                                      /\ f \in r.intent => Status(r)[f][2] \in {"A", "D"}
                                      /\ f \notin r.intent /\ r.index[f] = 0 =>
                                            Status(r)[f][2] = IF r.work[f] = 0 THEN " " ELSE "?"
                                      /\ f \notin r.intent /\ r.index[f] # 0 =>
                                            Status(r)[f][2] = Against(r.index[f], r.work[f])
           /\ Status(r)[f] = <<Status(r)[f][1], Status(r)[f][2]>>
<1> DEFINE second == IF f \in r.intent THEN IF r.work[f] = 0 THEN "D" ELSE "A"
                     ELSE IF r.index[f] = 0 THEN IF r.work[f] = 0 THEN " " ELSE "?"
                     ELSE Against(r.index[f], r.work[f])
           first == Against(TipTree(r)[f], r.index[f])
<1>1. Status(r)[f] = IF f \in r.conflicts THEN <<"U", "U">> ELSE <<first, second>>
  BY DEF Status
<1>2. /\ f \in r.intent => second \in {"A", "D"}
      /\ f \notin r.intent /\ r.index[f] = 0 => second = IF r.work[f] = 0 THEN " " ELSE "?"
      /\ f \notin r.intent /\ r.index[f] # 0 => second = Against(r.index[f], r.work[f])
  OBVIOUS
<1> HIDE DEF second
<1>3. CASE f \in r.conflicts
  <2>1. Status(r)[f] = <<"U", "U">>
    BY <1>1, <1>3
  <2> QED BY <1>3, <2>1
<1>4. CASE f \notin r.conflicts
  <2>1. Status(r)[f] = <<first, second>>
    BY <1>1, <1>4
  <2> HIDE DEF first
  <2>2. Status(r)[f][1] = first /\ Status(r)[f][2] = second
    BY <2>1
  <2>3. Status(r)[f] = <<Status(r)[f][1], Status(r)[f][2]>>
    BY <2>1, <2>2
  <2> QED BY <1>2, <1>4, <2>2, <2>3 DEF first
<1> QED BY <1>3, <1>4

\* Nothing tracked has changed.
LEMMA CleanIs ==
    ASSUME NEW r, Sound(r), MaxCommits \in Nat, Tracked(r) = {}
    PROVE  r.conflicts = {} /\ r.intent = {} /\ \A f \in Files : r.index[f] = TipTree(r)[f]
<1>1. r.conflicts \subseteq Files /\ r.intent \subseteq Files
  BY RepoTyped
<1>2. \A f \in Files : Status(r)[f] = <<" ", " ">> \/ Status(r)[f] = <<" ", "?">>
  BY DEF Tracked, Changed
<1>3. ASSUME NEW f \in Files
      PROVE  f \notin r.conflicts /\ f \notin r.intent /\ r.index[f] = TipTree(r)[f]
  <2>0. PICK c : c = Status(r)[f]
    OBVIOUS
  <2>1. c = <<" ", " ">> \/ c = <<" ", "?">>
    BY <1>2, <2>0
  <2>5. c[1] = " " /\ c[2] \in {" ", "?"} /\ c # <<"U", "U">>
    <3>1. <<"U", "U">>[1] = "U"
      OBVIOUS
    <3>2. CASE c = <<" ", " ">>
      <4>1. c[1] = " " /\ c[2] = " "
        BY <3>2
      <4> QED BY <3>1, <4>1
    <3>3. CASE c = <<" ", "?">>
      <4>1. c[1] = " " /\ c[2] = "?"
        BY <3>3
      <4> QED BY <3>1, <4>1
    <3> QED BY <2>1, <3>2, <3>3
  <2>2. f \notin r.conflicts
    BY <2>0, <2>5, StatusOf
  <2>3. f \notin r.intent
    BY <2>0, <2>2, <2>5, StatusOf
  <2>4. Against(TipTree(r)[f], r.index[f]) = " "
    BY <2>0, <2>2, <2>5, StatusOf
  <2> QED BY <2>2, <2>3, <2>4, LetterIs
<1> QED BY <1>1, <1>3

\* What git replaces had not changed.
LEMMA ReplacedUnchanged ==
    ASSUME NEW r, Sound(r), r.merging = 0, NEW new, Replaces(r, TipTree(r), new),
           NEW f \in Changed(r)
    PROVE  f \in Files /\ TipTree(r)[f] = new[f]
<1>1. f \in Files /\ Status(r)[f] # <<" ", " ">>
  BY DEF Changed
<1>2. SUFFICES ASSUME TipTree(r)[f] # new[f] PROVE FALSE
  BY <1>1
<1>3. r.work[f] = TipTree(r)[f] /\ r.index[f] = TipTree(r)[f] /\ f \notin r.intent
  BY <1>1, <1>2 DEF Replaces
<1>4. f \notin r.conflicts
  BY DEF Sound
<1>5. Status(r)[f][1] = " "
  <2>1. Against(TipTree(r)[f], r.index[f]) = " "
    BY <1>3, LetterIs
  <2> QED BY <1>1, <1>4, <2>1, StatusOf
<1>6. Status(r)[f][2] = " "
  <2>1. CASE r.index[f] = 0
    BY <1>1, <1>3, <1>4, <2>1, StatusOf
  <2>2. CASE r.index[f] # 0
    <3>1. Against(r.index[f], r.work[f]) = " "
      BY <1>3, LetterIs
    <3> QED BY <1>1, <1>3, <1>4, <2>2, <3>1, StatusOf
  <2> QED BY <2>1, <2>2
<1> QED BY <1>1, <1>5, <1>6, StatusOf

\* What a switch or a merge leaves of uncommitted work.
LEMMA CarriedOver ==
    ASSUME NEW r, Sound(r), r.merging = 0, NEW new, Replaces(r, TipTree(r), new),
           NEW s, Overwrites(r, s, TipTree(r), new), s.intent = r.intent,
           NEW f \in Changed(r)
    PROVE  s.work[f] = r.work[f] /\ s.index[f] = r.index[f] /\ (f \in Intent(s)) = (f \in Intent(r))
<1>1. f \in Files /\ TipTree(r)[f] = new[f]
  BY ReplacedUnchanged
<1>2. s.work[f] = r.work[f] /\ s.index[f] = r.index[f]
  BY <1>1 DEF Overwrites
<1> QED BY <1>2 DEF Intent

\* A merge that stops, or one that is concluded, changes the fingerprint.
LEMMA MergingShows ==
    ASSUME NEW r, NEW s, Sound(r), Sound(s), MaxCommits \in Nat,
           r.conflicts = {}, s.conflicts # {}
    PROVE  Fingerprint(s) # Fingerprint(r)
<1>1. PICK f \in Files : f \in s.conflicts
  BY RepoTyped
<1>2. Status(s)[f] = <<"U", "U">>
  BY <1>1, StatusOf
<1>3. Status(r)[f][1] # "U"
  <2>1. Status(r)[f][1] = Against(TipTree(r)[f], r.index[f])
    BY StatusOf
  <2> QED BY <2>1, LetterIs
<1>4. <<"U", "U">>[1] = "U"
  OBVIOUS
<1> QED BY <1>2, <1>3, <1>4, FingerprintTells

-----------------------------------------------------------------------------
(* What others do.                                                         *)

\* A write of another: branches stay, and a merge that begins or ends shows.
Outside(r, s) ==
    /\ Sound(s) /\ Grows(r, s)
    /\ \A b \in Branches : r.refs[b] # 0 => s.refs[b] # 0
    /\ s.merging = r.merging \/ Fingerprint(s) # Fingerprint(r)

LEMMA OutsideSame ==
    ASSUME NEW r, Sound(r), MaxCommits \in Nat, NEW s \in Repos,
           SameHistory(r, s), s.at = r.at, s.remote = r.remote, s.tracking = r.tracking,
           s.merging = r.merging, s.conflicts \subseteq r.conflicts,
           \A f \in s.intent : s.index[f] = 0
    PROVE  Outside(r, s)
<1>1. s.commits = r.commits /\ s.refs = r.refs
  BY DEF SameHistory
<1>2. Names(s, Len(r.commits))
  BY <1>1 DEF Names, Sound
<1>3. Consistent(s, Len(r.commits))
  BY RepoTyped DEF Consistent, Sound
<1>4. Sound(s)
  BY <1>1, <1>2, <1>3, SoundMoved
<1> QED BY <1>1, <1>4, GrowsHolds DEF Outside

LEMMA EditOutside ==
    ASSUME NEW r, Sound(r), MaxCommits \in Nat, NEW f \in Files, NEW c \in Nat,
           NEW s, s = [r EXCEPT !.work[f] = c]
    PROVE  Outside(r, s)
<1>1. r \in Repos /\ r.work \in Trees
  BY RepoTyped
<1>2. [r.work EXCEPT ![f] = c] \in Trees
  BY <1>1 DEF Trees
<1>3. s = [r EXCEPT !.work = [r.work EXCEPT ![f] = c]]
  BY <1>1 DEF Repos
<1>4. /\ s \in Repos /\ SameHistory(r, s) /\ s.at = r.at /\ s.remote = r.remote
      /\ s.tracking = r.tracking /\ s.merging = r.merging /\ s.conflicts = r.conflicts
      /\ s.intent = r.intent /\ s.index = r.index
  BY <1>1, <1>2, <1>3 DEF Repos, SameHistory
<1>5. \A g \in s.intent : s.index[g] = 0
  BY <1>4 DEF Sound
<1> QED BY <1>4, <1>5, OutsideSame

LEMMA SettingOutside ==
    ASSUME NEW r, Sound(r), MaxCommits \in Nat, NEW c \in Settings, NEW s,
           s = [r EXCEPT !.config = c] \/ s = [r EXCEPT !.lock = FALSE]
    PROVE  Outside(r, s)
<1>1. r \in Repos
  BY RepoTyped
<1>4. /\ s \in Repos /\ SameHistory(r, s) /\ s.at = r.at /\ s.remote = r.remote
      /\ s.tracking = r.tracking /\ s.merging = r.merging /\ s.conflicts = r.conflicts
      /\ s.intent = r.intent /\ s.index = r.index
  <2>1. CASE s = [r EXCEPT !.config = c]
    BY <1>1, <2>1 DEF Repos, SameHistory
  <2>2. CASE s = [r EXCEPT !.lock = FALSE]
    BY <1>1, <2>2 DEF Repos, SameHistory
  <2> QED BY <2>1, <2>2
<1>5. \A g \in s.intent : s.index[g] = 0
  BY <1>4 DEF Sound
<1> QED BY <1>4, <1>5, OutsideSame

LEMMA UnstageOutside ==
    ASSUME NEW r, Sound(r), MaxCommits \in Nat, NEW f \in Files, NEW s,
           s = Unstage(r, f)
    PROVE  Outside(r, s)
<1> DEFINE index == [r.index EXCEPT ![f] = TipTree(r)[f]]
<1>1. r \in Repos /\ r.index \in Trees /\ TipTree(r) \in Trees /\ r.intent \in SUBSET Files
  BY RepoTyped, TipTyped
<1>2. index \in Trees /\ \A g \in Files : g # f => index[g] = r.index[g]
  BY <1>1 DEF Trees
<1>3. s = [r EXCEPT !.index = index, !.intent = r.intent \ {f}]
  BY <1>1 DEF Repos, Unstage
<1> HIDE DEF index
<1>4. /\ s \in Repos /\ SameHistory(r, s) /\ s.at = r.at /\ s.remote = r.remote
      /\ s.tracking = r.tracking /\ s.merging = r.merging /\ s.conflicts = r.conflicts
      /\ s.intent = r.intent \ {f} /\ s.index = index
  BY <1>1, <1>2, <1>3 DEF Repos, SameHistory
<1>5. \A g \in s.intent : s.index[g] = 0
  BY <1>1, <1>2, <1>4 DEF Sound
<1> QED BY <1>4, <1>5, OutsideSame

LEMMA BranchOutside ==
    ASSUME NEW r, Sound(r), MaxCommits \in Nat, NEW b \in Branches, r.refs[b] = 0, NEW s,
           s = [r EXCEPT !.refs[b] = Tip(r)]
    PROVE  Outside(r, s)
<1>1. r \in Repos /\ r.refs \in [Branches -> 0..MaxCommits] /\ r.at \in Branches
      /\ Len(r.commits) \in Nat /\ Len(r.commits) <= MaxCommits
  BY RepoTyped
<1>2. Tip(r) \in 1..Len(r.commits) /\ Tip(r) \in 0..MaxCommits
  BY <1>1, TipTyped
<1>3. s \in Repos
  BY <1>1, <1>2 DEF Repos
<1>4. /\ s.refs = [r.refs EXCEPT ![b] = Tip(r)] /\ s.commits = r.commits
      /\ SameRest(r, s) /\ SameFiles(r, s)
  BY <1>1 DEF Repos, SameRest, SameFiles
<1>5. \A x \in Branches : s.refs[x] = IF x = b THEN Tip(r) ELSE r.refs[x]
  BY <1>1, <1>4
<1>6. Names(s, Len(r.commits))
  <2>1. ASSUME NEW x \in Branches
        PROVE  /\ s.refs[x] \in 0..Len(r.commits) /\ s.remote[x] \in 0..Len(r.commits)
               /\ s.tracking[x] \in 0..Len(r.commits)
    BY <1>1, <1>2, <1>4, <1>5, RefsTyped DEF SameRest
  <2>2. s.refs[s.at] # 0
    BY <1>1, <1>2, <1>4, <1>5 DEF SameRest, Sound
  <2> QED BY <2>1, <2>2 DEF Names
<1>7. Consistent(s, Len(r.commits))
  BY <1>4, RepoTyped DEF Consistent, Sound, SameFiles
<1>8. Sound(s)
  BY <1>3, <1>4, <1>6, <1>7, SoundMoved
<1> QED BY <1>2, <1>4, <1>5, <1>8, GrowsHolds DEF Outside, SameFiles

\* A commit made elsewhere, on a branch here or on the remote.
LEMMA CommitOutside ==
    ASSUME NEW r, Sound(r), MaxCommits \in Nat, Room(r), NEW b \in Branches,
           NEW parent \in 1..Len(r.commits), NEW tree \in Trees, NEW s,
           \/ s = [r EXCEPT !.commits = NewCommit(r, {parent}, tree),
                            !.refs[b] = Len(r.commits) + 1]
           \/ s = [r EXCEPT !.commits = NewCommit(r, {parent}, tree),
                            !.remote[b] = Len(r.commits) + 1]
    PROVE  Outside(r, s)
<1> DEFINE n == Len(r.commits) + 1
<1>1. /\ r \in Repos /\ r.refs \in [Branches -> 0..MaxCommits] /\ r.at \in Branches
      /\ r.remote \in [Branches -> 0..MaxCommits]
      /\ Len(r.commits) \in Nat /\ Len(r.commits) < MaxCommits
  BY RepoTyped DEF Room
<1>2. n \in 0..MaxCommits /\ n # 0 /\ {parent} \in SUBSET (1..Len(r.commits))
  BY <1>1
<1>3. NewCommit(r, {parent}, tree) \in Seq(Commits)
  BY <1>2, NewCommitTyped
<1> HIDE DEF n
<1>4. /\ s \in Repos /\ s.commits = NewCommit(r, {parent}, tree) /\ SameFiles(r, s)
      /\ s.at = r.at /\ s.tracking = r.tracking
      /\ \/ s.refs = [r.refs EXCEPT ![b] = n] /\ s.remote = r.remote
         \/ s.refs = r.refs /\ s.remote = [r.remote EXCEPT ![b] = n]
  <2>1. CASE s = [r EXCEPT !.commits = NewCommit(r, {parent}, tree), !.refs[b] = n]
    BY <1>1, <1>2, <1>3, <2>1 DEF Repos, Commits, SameFiles
  <2>2. CASE s = [r EXCEPT !.commits = NewCommit(r, {parent}, tree), !.remote[b] = n]
    BY <1>1, <1>2, <1>3, <2>2 DEF Repos, Commits, SameFiles
  <2> QED BY <2>1, <2>2 DEF n
<1>5. \A x \in Branches : /\ s.refs[x] = r.refs[x] \/ s.refs[x] = n
                          /\ s.remote[x] = r.remote[x] \/ s.remote[x] = n
  BY <1>1, <1>4
<1>6. Names(s, n)
  <2>1. ASSUME NEW x \in Branches
        PROVE  /\ s.refs[x] \in 0..n /\ s.remote[x] \in 0..n /\ s.tracking[x] \in 0..n
    <3>1. /\ r.refs[x] \in 0..Len(r.commits) /\ r.remote[x] \in 0..Len(r.commits)
          /\ s.tracking[x] \in 0..Len(r.commits)
      BY <1>4, RefsTyped
    <3>2. 0..Len(r.commits) \subseteq 0..n /\ n \in 0..n
      BY <1>1 DEF n
    <3> QED BY <1>5, <3>1, <3>2
  <2>2. s.refs[s.at] # 0
    <3>1. r.refs[r.at] # 0
      BY DEF Sound
    <3> QED BY <1>1, <1>2, <1>4, <1>5, <3>1
  <2> QED BY <2>1, <2>2 DEF Names
<1>7. Consistent(s, Len(r.commits))
  BY <1>4, RepoTyped DEF Consistent, Sound, SameFiles
<1>8. Sound(s) /\ Grows(r, s)
  BY <1>2, <1>4, <1>6, <1>7, SoundGrown DEF n
<1>9. \A x \in Branches : r.refs[x] # 0 => s.refs[x] # 0
  BY <1>2, <1>5
<1> QED BY <1>4, <1>8, <1>9 DEF Outside, SameFiles

LEMMA StagingOutside ==
    ASSUME NEW r, Sound(r), MaxCommits \in Nat, NEW s,
           \/ \E f \in Files : s \in AddFiles(r, {f})
           \/ \E b \in Branches : r.refs[b] # 0 /\ s \in MergeStops(r, r.refs[b])
           \/ s \in CommitStaged(r)
    PROVE  Outside(r, s)
<1>1. CASE \E f \in Files : s \in AddFiles(r, {f})
  <2>1. PICK f \in Files : s \in AddFiles(r, {f})
    BY <1>1
  <2>2. {f} \in SUBSET Files
    OBVIOUS
  <2>3. Sound(s) /\ Grows(r, s) /\ SameHistory(r, s) /\ s.merging = r.merging
    BY <2>1, <2>2, AddFilesDoes
  <2> QED BY <2>3 DEF Outside, SameHistory
<1>2. CASE \E b \in Branches : r.refs[b] # 0 /\ s \in MergeStops(r, r.refs[b])
  <2>1. PICK b \in Branches : r.refs[b] # 0 /\ s \in MergeStops(r, r.refs[b])
    BY <1>2
  <2>2. r.refs[b] \in 1..Len(r.commits)
    BY <2>1, RefsTyped, RepoTyped
  <2>3. /\ Sound(s) /\ Grows(r, s) /\ SameHistory(r, s) /\ r.conflicts = {}
        /\ s.conflicts # {}
    BY <2>1, <2>2, MergeStopsDoes
  <2> QED BY <2>3, MergingShows DEF Outside, SameHistory
<1>3. CASE s \in CommitStaged(r)
  <2>1. /\ Sound(s) /\ Grows(r, s) /\ SameRest(r, s)
        /\ Committed(r, s, {Tip(r), r.merging} \ {0}, r.index)
    BY <1>3, CommitStagedDoes
  <2>2. /\ Tip(s) = Len(r.commits) + 1 /\ Len(r.commits) \in Nat
        /\ s.refs = [r.refs EXCEPT ![r.at] = Len(r.commits) + 1]
        /\ r.refs \in [Branches -> 0..MaxCommits]
    BY <2>1, RepoTyped DEF Committed
  <2>3. \A b \in Branches : r.refs[b] # 0 => s.refs[b] # 0
    BY <2>2
  <2>4. Tip(s) # Tip(r)
    BY <2>2, TipTyped
  <2> QED BY <2>1, <2>3, <2>4, FingerprintTells DEF Outside
<1> QED BY <1>1, <1>2, <1>3

LEMMA ElsewhereDoes ==
    ASSUME GitInv, NEW s \in Elsewhere(repo)
    PROVE  Outside(repo, s)
<1> DEFINE r == repo
<1>1. /\ Sound(repo) /\ MaxCommits \in Nat /\ scenario \in Scenarios
      /\ scenario.edits \subseteq Nat /\ scenario.configs \subseteq Settings
      /\ "plain" \in Settings
  BY DEF GitInv, GitTypeOK, GitConstants, Settings
<1>21. s \in Edited(r) =>
         \/ \E f \in Files, c \in scenario.edits : s = [r EXCEPT !.work[f] = c]
         \/ \E c \in scenario.configs : s = [r EXCEPT !.config = c]
         \/ s = [r EXCEPT !.lock = FALSE]
  BY DEF Edited
<1>22. s \in Branched(r) =>
         \/ \E b \in Branches : r.refs[b] = 0 /\ s = [r EXCEPT !.refs[b] = Tip(r)]
         \/ /\ Room(r)
            /\ \E b \in Branches, f \in Files : r.refs[b] # 0 /\ s = CommitsElsewhere(r, b, f)
         \/ Room(r) /\ \E b \in Branches : r.remote[b] # 0 /\ s = PushElsewhere(r, b)
  BY DEF Branched
<1>23. s \in Handled(r) =>
         \/ \E f \in Files : s \in AddFiles(r, {f})
         \/ \E f \in Files : s = Unstage(r, f)
         \/ \E b \in Branches : r.refs[b] # 0 /\ s \in MergeStops(r, r.refs[b])
         \/ s \in CommitStaged(r)
  BY DEF Handled
<1>3. ASSUME NEW f \in Files, NEW c \in scenario.edits, s = [r EXCEPT !.work[f] = c]
      PROVE  Outside(r, s)
  BY <1>1, <1>3, EditOutside
<1>4. ASSUME NEW c \in scenario.configs, s = [r EXCEPT !.config = c]
      PROVE  Outside(r, s)
  BY <1>1, <1>4, SettingOutside
<1>5. CASE s = [r EXCEPT !.lock = FALSE]
  BY <1>1, <1>5, SettingOutside
<1>6. ASSUME NEW b \in Branches, r.refs[b] = 0, s = [r EXCEPT !.refs[b] = Tip(r)]
      PROVE  Outside(r, s)
  BY <1>1, <1>6, BranchOutside
<1>7. ASSUME Room(r), NEW b \in Branches, NEW f \in Files, r.refs[b] # 0,
             s = CommitsElsewhere(r, b, f)
      PROVE  Outside(r, s)
  <2> DEFINE tree == [r.commits[r.refs[b]].tree EXCEPT ![f] = 7]
  <2>1. r.refs[b] \in 1..Len(r.commits)
    BY <1>1, <1>7, RefsTyped, RepoTyped
  <2>2. tree \in Trees
    <3>1. r.commits[r.refs[b]].tree \in Trees
      BY <1>1, <2>1, CommitTyped
    <3> QED BY <3>1 DEF Trees
  <2>3. s = [r EXCEPT !.commits = NewCommit(r, {r.refs[b]}, tree), !.refs[b] = Len(r.commits) + 1]
    BY <1>7 DEF CommitsElsewhere
  <2> DEFINE parent == r.refs[b]
  <2>4. s = [r EXCEPT !.commits = NewCommit(r, {parent}, tree), !.refs[b] = Len(r.commits) + 1]
    BY <2>3
  <2>5. parent \in 1..Len(r.commits)
    BY <2>1
  <2> HIDE DEF tree, parent
  <2> QED BY <1>1, <1>7, <2>2, <2>4, <2>5, CommitOutside
<1>8. ASSUME NEW f \in Files,
             s = Unstage(r, f)
      PROVE  Outside(r, s)
  BY <1>1, <1>8, UnstageOutside
<1>9. ASSUME Room(r), NEW b \in Branches, r.remote[b] # 0,
             s = PushElsewhere(r, b)
      PROVE  Outside(r, s)
  <2>1. r.remote[b] \in 1..Len(r.commits)
    BY <1>1, <1>9, RefsTyped, RepoTyped
  <2>2. r.commits[r.remote[b]].tree \in Trees
    BY <1>1, <2>1, CommitTyped
  <2> QED BY <1>1, <1>9, <2>1, <2>2, CommitOutside DEF PushElsewhere
<1>10. CASE \/ \E f \in Files : s \in AddFiles(r, {f})
            \/ \E b \in Branches : r.refs[b] # 0 /\ s \in MergeStops(r, r.refs[b])
            \/ s \in CommitStaged(r)
  BY <1>1, <1>10, StagingOutside
<1>11. CASE s \in Edited(r)
  BY <1>3, <1>4, <1>5, <1>11, <1>21
<1>12. CASE s \in Branched(r)
  BY <1>6, <1>7, <1>9, <1>12, <1>22
<1>13. CASE s \in Handled(r)
  BY <1>8, <1>10, <1>13, <1>23
<1> QED BY <1>11, <1>12, <1>13 DEF Elsewhere

-----------------------------------------------------------------------------
(* How a call moves on.                                                    *)

\* Everything but where the call is, and what it noted of the index.
SameTask(c, d) ==
    /\ d.args = c.args /\ d.print = c.print /\ d.plan = c.plan
    /\ d.shown = c.shown /\ d.before = c.before
    /\ d.raced = c.raced /\ d.returned = c.returned

SameCall(c, d) == SameTask(c, d) /\ d.tree = c.tree /\ d.intent = c.intent

LEMMA GitFacts ==
    ASSUME GitInv
    PROVE  /\ Sound(repo) /\ MaxCommits \in Nat /\ scenario \in Scenarios /\ Shape(call)
           /\ call.pc \in CallSteps /\ call.cut \in BOOLEAN
           /\ call.raced \in BOOLEAN /\ call.returned \in BOOLEAN
  BY DEF GitInv, GitTypeOK, GitConstants

LEMMA WorkingFacts ==
    ASSUME GitInv, Working
    PROVE  /\ call.args \in Args /\ Sound(call.before) /\ Grows(call.before, repo)
           /\ Verified(call.before)
  BY DEF GitInv, ApprovedInv, ToolInv

\* A call that is not over has nothing to answer for.
LEMMA NotOver ==
    ASSUME GitTypeOK', call'.pc # "ended" \/ call'.raced \/ call'.returned
    PROVE  EndInv'
  BY DEF EndInv, AsShown, ReportsAreTrue, Undisturbed

\* What a step of the commands leaves as it was.
LEMMA StepMoves ==
    ASSUME GitInv, Working, scenario' = scenario, Sound(repo'), Grows(repo, repo'),
           Shape(call'), SameTask(call, call'),
           call'.pc \in Writes \cup Reads \cup {"ended"}, call'.cut \in BOOLEAN
    PROVE  /\ GitTypeOK' /\ QuietInv' /\ CardInv' /\ ApprovedInv'
           /\ (ToolInv' /\ StepInv' /\ EndInv' => GitInv')
<1>1. /\ Sound(repo) /\ MaxCommits \in Nat /\ scenario \in Scenarios
      /\ call.raced \in BOOLEAN /\ call.returned \in BOOLEAN
  BY GitFacts
<1>2. GitTypeOK'
  BY <1>1 DEF GitTypeOK, CallSteps, SameTask
<1>3. call'.pc \notin {"idle", "planning", "card"}
  BY DEF Writes, Reads
<1>4. QuietInv' /\ CardInv'
  BY <1>3 DEF QuietInv, CardInv, Under
<1>5. ApprovedInv'
  <2>1. /\ Sound(call.shown) /\ Grows(call.shown, call.before)
        /\ Sound(call.before) /\ Grows(call.before, repo) /\ Verified(call.before)
        /\ call.plan = PlanOf(call.shown, call.args) /\ call.plan.ok
        /\ ~call.returned =>
              /\ Fingerprint(call.shown) = Fingerprint(call.before)
              /\ call.shown.merging = call.before.merging
    BY DEF GitInv, ApprovedInv
  <2>2. Grows(call.before, repo')
    BY <1>1, <2>1, GrowsOn
  <2> QED BY <2>1, <2>2 DEF ApprovedInv, SameTask
<1>6. GitConstants' /\ scenario' \in Scenarios'
  BY <1>1 DEF GitInv, GitConstants
<1> QED BY <1>2, <1>4, <1>5, <1>6 DEF GitInv

-----------------------------------------------------------------------------
(* What a call makes of the repository, and what it leaves alone.          *)

\* The uncommitted work in a file is as it was.
Untouched(before, r, f) ==
    /\ r.work[f] = before.work[f] /\ r.index[f] = before.index[f]
    /\ (f \in Intent(r)) = (f \in Intent(before))

LEMMA ArgsTyped ==
    ASSUME NEW args \in Args
    PROVE  /\ args.tool \in {"commit", "switch", "merge", "push"}
           /\ args.tool = "commit" => args.files \in SUBSET Files
           /\ args.tool \in {"switch", "merge", "push"} => args.branch \in Branches
           /\ args.tool = "switch" => args.create \in BOOLEAN
  BY DEF Args

\* The files whose uncommitted work a call leaves alone.
Spared(before, args) ==
    IF args.tool \in {"switch", "merge"} THEN Changed(before)
    ELSE IF args.tool = "commit" THEN Files \ args.files ELSE Files

LEMMA CommitLeaves ==
    ASSUME NEW before, Sound(before), MaxCommits \in Nat, NEW args \in Args,
           args.tool = "commit", NEW r, Made(before, args, r), NEW f \in Files \ args.files
    PROVE  Untouched(before, r, f)
<1>1. PICK files \in SUBSET Files : files = args.files
  BY ArgsTyped
<1>2. CASE files = {}
  <2>1. r \in CommitStaged(before)
    BY <1>1, <1>2 DEF Made
  <2>2. r.work = before.work /\ r.index = before.index /\ r.intent = before.intent
    BY <2>1, CommitStagedDoes
  <2> QED BY <2>2 DEF Untouched, Intent
<1>3. CASE files # {}
  <2>1. PICK s \in AddFiles(before, files) : r \in CommitOnly(s, files)
    BY <1>1, <1>3 DEF Made
  <2>2. /\ Sound(s) /\ s.work = before.work /\ s.intent = before.intent \ files
        /\ s.index[f] = before.index[f]
    BY <1>1, <2>1, AddFilesDoes
  <2>3. r.work = s.work /\ Stages(s, r, files)
    BY <2>1, <2>2, CommitOnlyDoes
  <2>4. (f \in r.intent <=> f \in before.intent) /\ r.index[f] = s.index[f]
    BY <1>1, <2>2, <2>3 DEF Stages
  <2> QED BY <2>2, <2>3, <2>4 DEF Untouched, Intent
<1> QED BY <1>2, <1>3

LEMMA MadeLeaves ==
    ASSUME NEW before, Sound(before), MaxCommits \in Nat, NEW args \in Args,
           NEW r, Made(before, args, r), NEW f \in Spared(before, args)
    PROVE  Untouched(before, r, f)
<1>1. CASE args.tool = "commit"
  <2>1. f \in Files \ args.files
    BY <1>1 DEF Spared
  <2> QED BY <1>1, <2>1, CommitLeaves
<1>2. CASE args.tool = "switch"
  <2>1. args.branch \in Branches /\ args.create \in BOOLEAN
    BY <1>2, ArgsTyped
  <2>2. r \in Switch(before, args.branch, args.create) /\ f \in Changed(before)
    BY <1>2 DEF Made, Spared
  <2>3. CASE args.create = TRUE
    <3>1. SameFiles(before, r)
      BY <2>1, <2>2, <2>3, CreateDoes
    <3> QED BY <3>1 DEF Untouched, Intent, SameFiles
  <2>4. CASE args.create = FALSE
    <3>1. before.merging = 0 /\ r.intent = before.intent /\ Carries(before, r)
      <4>1. PICK branch \in Branches : branch = args.branch
        BY <2>1
      <4>2. PICK create : create = args.create
        OBVIOUS
      <4>3. r \in Switch(before, branch, create) /\ create = FALSE
        BY <2>2, <2>4, <4>1, <4>2
      <4>4. before.merging = 0 /\ Keeps(before, r) /\ Carries(before, r)
        BY <4>3, SwitchDoes
      <4> QED BY <4>4 DEF Keeps
    <3> QED BY <2>2, <3>1, CarriedOver DEF Untouched, Carries
  <2> QED BY <2>1, <2>3, <2>4
<1>3. CASE args.tool = "merge"
  <2> DEFINE source == before.refs[args.branch]
  <2>1. source # 0 /\ r \in Merge(before, source) /\ f \in Changed(before)
    BY <1>3 DEF Made, Spared
  <2>2. source \in 1..Len(before.commits)
    BY <1>3, <2>1, ArgsTyped, RefsTyped, RepoTyped
  <2>3. /\ before.merging = 0 /\ r.intent = before.intent
        /\ Replaces(before, TipTree(before), Merged(before, source))
        /\ Overwrites(before, r, TipTree(before), Merged(before, source))
    BY <2>1, <2>2, MergeDoes
  <2> HIDE DEF source
  <2> QED BY <2>1, <2>3, CarriedOver DEF Untouched
<1>4. CASE args.tool = "push"
  <2>1. args.branch \in Branches /\ r \in Push(before, args.branch)
    BY <1>4, ArgsTyped DEF Made
  <2>2. SameFiles(before, r)
    BY <2>1, PushDoes
  <2> QED BY <2>2 DEF Untouched, Intent, SameFiles
<1> QED BY <1>1, <1>2, <1>3, <1>4, ArgsTyped

LEMMA StoppedLeaves ==
    ASSUME NEW before, Sound(before), MaxCommits \in Nat, NEW args \in Args, args.tool = "merge",
           NEW r, StoppedIn(before, args, r), NEW f \in Changed(before)
    PROVE  Untouched(before, r, f)
<1> DEFINE source == before.refs[args.branch]
<1>1. source # 0 /\ r \in MergeStops(before, source)
  BY DEF StoppedIn
<1>2. source \in 1..Len(before.commits)
  BY <1>1, ArgsTyped, RefsTyped, RepoTyped
<1>3. /\ before.merging = 0 /\ r.intent = before.intent
      /\ Replaces(before, TipTree(before), Merged(before, source))
      /\ Overwrites(before, r, TipTree(before), Merged(before, source))
  BY <1>1, <1>2, MergeStopsDoes
<1> HIDE DEF source
<1> QED BY <1>3, CarriedOver DEF Untouched

\* The index is read back: nothing is left of the add but the entries of intent.
LEMMA RestoredIs ==
    ASSUME NEW before, Sound(before), MaxCommits \in Nat, NEW args \in Args, args.tool = "commit",
           before.conflicts = {}, NEW r, StagedIn(before, args, r),
           NEW s, s \in ReadTree(r, before.index)
    PROVE  /\ s = [before EXCEPT !.intent = {}] /\ s.intent = {}
           /\ s.work = before.work /\ s.index = before.index
<1>1. /\ Sound(r) /\ SameRest(before, r) /\ SameHistory(before, r)
      /\ r.work = before.work /\ r.merging = before.merging
  BY ArgsTyped, AddFilesDoes DEF StagedIn
<1>2. before \in Repos /\ before.index \in Trees
  BY RepoTyped
<1>3. /\ Sound(s) /\ SameRest(r, s) /\ SameHistory(r, s)
      /\ s.work = r.work /\ s.merging = r.merging
      /\ s.intent = {} /\ s.conflicts = {} /\ s.index = before.index
  BY <1>1, <1>2, ReadTreeDoes
<1> DEFINE t == [before EXCEPT !.intent = {}]
<1>4. /\ t \in Repos /\ SameRest(before, t) /\ SameHistory(before, t)
      /\ t.work = before.work /\ t.merging = before.merging /\ t.intent = {}
      /\ t.conflicts = before.conflicts /\ t.index = before.index
  BY <1>2 DEF Repos, SameRest, SameHistory
<1> HIDE DEF t
<1>5. SameRest(t, s) /\ SameHistory(t, s) /\ SameFiles(t, s)
  BY <1>1, <1>3, <1>4 DEF SameRest, SameHistory, SameFiles
<1>6. s \in Repos
  BY <1>3 DEF Sound
<1>7. s = t
  BY <1>4, <1>5, <1>6, SameRepo
<1> QED BY <1>1, <1>3, <1>7 DEF t

LEMMA IntentBack ==
    ASSUME NEW before, Sound(before), MaxCommits \in Nat,
           NEW r, r = [before EXCEPT !.intent = {}], NEW s, s \in AddIntent(r, Intent(before))
    PROVE  /\ s = [before EXCEPT !.intent = s.intent]
           /\ \A f \in Files : Untouched(before, s, f)
<1>1. before \in Repos /\ before.intent \in SUBSET Files
  BY RepoTyped
<1>2. /\ r \in Repos /\ SameRest(before, r) /\ SameHistory(before, r)
      /\ r.work = before.work /\ r.merging = before.merging /\ r.intent = {}
      /\ r.conflicts = before.conflicts /\ r.index = before.index
  BY <1>1 DEF Repos, SameRest, SameHistory
<1>3. Sound(r)
  <2>1. Consistent(r, Len(before.commits))
    BY <1>2, RepoTyped DEF Consistent, Sound
  <2> QED BY <1>2, <2>1, SoundChanged
<1>4. PICK files \in SUBSET Files : files = Intent(before) /\ \A f \in files : before.index[f] = 0
  BY <1>1 DEF Intent, Sound
<1>5. /\ Sound(s) /\ SameRest(r, s) /\ SameHistory(r, s)
      /\ s.work = r.work /\ s.merging = r.merging
      /\ s.conflicts = r.conflicts /\ s.index = r.index
      /\ Marks(r, s, files)
  BY <1>3, <1>4, AddIntentDoes
<1>6. s.intent = Intent(before) /\ Intent(s) = Intent(before)
  <2>1. s.intent = Intent(before)
    <3>1. s.intent \in SUBSET Files
      BY <1>5, RepoTyped
    <3>2. \A f \in files : before.work[f] # 0
      BY <1>4 DEF Intent
    <3>3. \A f \in Files : f \in s.intent <=> f \in files
      BY <1>2, <1>4, <1>5, <3>2 DEF Marks
    <3> QED BY <1>4, <3>1, <3>3
  <2> QED BY <1>2, <1>5, <2>1 DEF Intent
<1> DEFINE i == s.intent
<1>7. i \in SUBSET Files
  BY <1>4, <1>6
<1> HIDE DEF i
<1> DEFINE t == [before EXCEPT !.intent = i]
<1>8. /\ t \in Repos /\ SameRest(before, t) /\ SameHistory(before, t)
      /\ t.work = before.work /\ t.merging = before.merging /\ t.intent = i
      /\ t.conflicts = before.conflicts /\ t.index = before.index
  BY <1>1, <1>7 DEF Repos, SameRest, SameHistory
<1> HIDE DEF t
<1>9. SameRest(t, s) /\ SameHistory(t, s) /\ SameFiles(t, s)
  BY <1>2, <1>5, <1>8 DEF SameRest, SameHistory, SameFiles, i
<1>10. s \in Repos
  BY <1>5 DEF Sound
<1>11. s = t
  BY <1>8, <1>9, <1>10, SameRepo
<1> QED BY <1>2, <1>5, <1>6, <1>11 DEF t, i, Untouched

\* The merge is aborted: its own, or the owner's.
LEMMA AbortBack ==
    ASSUME NEW before, Sound(before), MaxCommits \in Nat, NEW args \in Args, args.tool = "merge",
           NEW r, Sound(r), StoppedIn(before, args, r) \/ OwnersIn(before, r),
           NEW s, s \in MergeAbort(r)
    PROVE  s = [before EXCEPT !.merging = 0] /\ before.intent = {}
<1>1. Tracked(before) = {}
  BY DEF StoppedIn, OwnersIn
<1>2. /\ before.conflicts = {} /\ before.intent = {}
      /\ \A f \in Files : before.index[f] = TipTree(before)[f]
  BY <1>1, CleanIs
<1>3. /\ Sound(s) /\ SameRest(r, s) /\ SameHistory(r, s)
      /\ s.merging = 0 /\ s.conflicts = {} /\ s.intent = {} /\ s.index = TipTree(r)
      /\ \A f \in Files : s.work[f] = IF r.index[f] # TipTree(r)[f] \/ f \in r.conflicts
                                      THEN TipTree(r)[f] ELSE r.work[f]
  BY MergeAbortDoes
<1>4. /\ before \in Repos /\ before.index \in Trees /\ before.work \in Trees
      /\ TipTree(before) \in Trees
  BY RepoTyped, TipTyped
<1>5. before.index = TipTree(before)
  BY <1>2, <1>4 DEF Trees
<1>6. /\ SameRest(before, r) /\ SameHistory(before, r)
      /\ \A f \in Files : s.work[f] = before.work[f]
  <2>1. CASE OwnersIn(before, r)
    <3>1. r = before
      BY <2>1 DEF OwnersIn
    <3> QED BY <1>2, <1>3, <3>1 DEF SameRest, SameHistory
  <2>2. CASE StoppedIn(before, args, r)
    <3> DEFINE source == before.refs[args.branch]  new == Merged(before, source)
               old == TipTree(before)
    <3>1. source # 0 /\ r \in MergeStops(before, source)
      BY <2>2 DEF StoppedIn
    <3>2. source \in 1..Len(before.commits)
      BY <3>1, ArgsTyped, RefsTyped, RepoTyped
    <3>3. /\ SameRest(before, r) /\ SameHistory(before, r) /\ r.conflicts = Clashes(before, source)
          /\ Replaces(before, old, new) /\ Overwrites(before, r, old, new)
      BY <3>1, <3>2, MergeStopsDoes
    <3>4. \A f \in Clashes(before, source) : old[f] # new[f]
      BY <3>2, MergedTyped
    <3> HIDE DEF source, new
    <3>5. TipTree(r) = old
      BY <3>3 DEF TipTree, Tip, SameRest, SameHistory
    <3> HIDE DEF old
    <3>6. ASSUME NEW f \in Files PROVE s.work[f] = before.work[f]
      <4>1. CASE old[f] # new[f]
        <5>1. before.work[f] = old[f] /\ r.index[f] = new[f]
          BY <3>3, <4>1 DEF Replaces, Overwrites
        <5> QED BY <1>3, <3>5, <4>1, <5>1
      <4>2. CASE old[f] = new[f]
        <5>1. r.index[f] = before.index[f] /\ r.work[f] = before.work[f]
          BY <3>3, <4>2 DEF Overwrites
        <5>2. before.index[f] = old[f]
          BY <1>2 DEF old
        <5>3. f \notin r.conflicts
          BY <3>3, <3>4, <4>2
        <5> QED BY <1>3, <3>5, <5>1, <5>2, <5>3
      <4> QED BY <4>1, <4>2
    <3> QED BY <3>3, <3>6
  <2> QED BY <2>1, <2>2
<1>7. s \in Repos /\ s.work \in Trees
  BY <1>3, RepoTyped
<1>8. s.work = before.work
  BY <1>4, <1>6, <1>7 DEF Trees
<1>9. TipTree(r) = TipTree(before)
  BY <1>6 DEF TipTree, Tip, SameRest, SameHistory
<1> DEFINE t == [before EXCEPT !.merging = 0]
<1>10. /\ t \in Repos /\ SameRest(before, t) /\ SameHistory(before, t)
       /\ t.work = before.work /\ t.merging = 0 /\ t.intent = before.intent
       /\ t.conflicts = before.conflicts /\ t.index = before.index
  <2>1. 0 \in 0..MaxCommits
    OBVIOUS
  <2>2. t \in Repos
    BY <1>4, <2>1 DEF Repos
  <2>3. /\ SameRest(before, t) /\ SameHistory(before, t)
        /\ t.work = before.work /\ t.merging = 0 /\ t.intent = before.intent
        /\ t.conflicts = before.conflicts /\ t.index = before.index
    BY <1>4 DEF Repos, SameRest, SameHistory
  <2> QED BY <2>2, <2>3
<1> HIDE DEF t
<1>11. SameRest(t, s) /\ SameHistory(t, s)
  BY <1>3, <1>6, <1>10 DEF SameRest, SameHistory
<1>12. SameFiles(t, s)
  BY <1>2, <1>3, <1>5, <1>8, <1>9, <1>10 DEF SameFiles
<1>13. s = t
  BY <1>7, <1>10, <1>11, <1>12, SameRepo
<1> QED BY <1>2, <1>13 DEF t

-----------------------------------------------------------------------------
(* What was done is what the card showed.                                  *)

\* A repository found as it was shown: history may have grown elsewhere.
Found(shown, before) ==
    /\ Sound(shown) /\ Sound(before) /\ Grows(shown, before)
    /\ Fingerprint(shown) = Fingerprint(before) /\ shown.merging = before.merging

LEMMA FoundSame ==
    ASSUME NEW shown, NEW before, Found(shown, before), MaxCommits \in Nat
    PROVE  /\ Tip(shown) = Tip(before) /\ TipTree(shown) = TipTree(before)
           /\ shown.at = before.at /\ shown.refs = before.refs
           /\ Staged(shown) = Staged(before) /\ Changed(shown) = Changed(before)
<1>1. /\ Tip(shown) = Tip(before) /\ shown.at = before.at /\ shown.refs = before.refs
      /\ Status(shown) = Status(before)
  BY FingerprintTells DEF Found
<1>2. Staged(shown) = Staged(before) /\ Changed(shown) = Changed(before)
  BY <1>1 DEF Staged, Changed
<1>3. TipTree(shown) = TipTree(before)
  <2>1. Tip(shown) \in 1..Len(shown.commits)
    BY TipTyped DEF Found
  <2>2. before.commits[Tip(shown)] = shown.commits[Tip(shown)]
    BY <2>1 DEF Found, Grows, Continues
  <2> QED BY <1>1, <2>2 DEF TipTree
<1> QED BY <1>1, <1>2, <1>3

\* A file that is not listed is in the working tree and the index as in HEAD.
LEMMA UnchangedIs ==
    ASSUME NEW r, NEW f \in Files, f \notin Changed(r)
    PROVE  r.work[f] = TipTree(r)[f] /\ r.index[f] = TipTree(r)[f]
<1>0. PICK c : c = Status(r)[f]
  OBVIOUS
<1>1. c = <<" ", " ">>
  BY <1>0 DEF Changed
<1>2. c[1] = " " /\ c[2] = " "
  BY <1>1
<1>3. <<"U", "U">>[1] = "U"
  OBVIOUS
<1>4. f \notin r.conflicts
  BY <1>0, <1>2, <1>3, StatusOf
<1>5. Against(TipTree(r)[f], r.index[f]) = " "
  BY <1>0, <1>2, <1>4, StatusOf
<1>6. r.index[f] = TipTree(r)[f]
  BY <1>5, LetterIs
<1>7. f \notin r.intent
  BY <1>0, <1>2, <1>4, StatusOf
<1>8. r.work[f] = r.index[f]
  <2>1. CASE r.index[f] = 0
    BY <1>0, <1>2, <1>4, <1>7, <2>1, StatusOf
  <2>2. CASE r.index[f] # 0
    <3>1. Against(r.index[f], r.work[f]) = " "
      BY <1>0, <1>2, <1>4, <1>7, <2>2, StatusOf
    <3> QED BY <3>1, LetterIs
  <2> QED BY <2>1, <2>2
<1> QED BY <1>6, <1>8

\* The content that a commit gives a file of the card is no secret's.
NoCopy(tree, content, f) ==
    ~(tree[f] = 0 /\ \E s \in Secrets \ {f} : tree[s] # 0 /\ tree[s] = content)

LEMMA NotSuspect ==
    ASSUME NEW r, NEW files, ~NamesSecret(r, files), NEW f \in Files, f \notin r.conflicts,
           files = {} \/ f \in files, r.index[f] # TipTree(r)[f]
    PROVE  f \in Staged(r) /\ f \in Changed(r) /\ f \notin Secrets
           /\ NoCopy(TipTree(r), r.index[f], f)
<1>1. Status(r)[f][1] = Against(TipTree(r)[f], r.index[f])
  BY StatusOf
<1>2. Status(r)[f][1] # " "
  BY <1>1, LetterIs
<1>3. f \in Staged(r) /\ f \in Changed(r)
  <2>1. <<" ", " ">>[1] = " "
    OBVIOUS
  <2>2. Status(r)[f] # <<" ", " ">>
    BY <1>2, <2>1
  <2> QED BY <1>2, <2>2 DEF Staged, Changed
<1>4. f \notin Secrets
  BY <1>3 DEF NamesSecret
<1>5. ~Suspect(r, f)
  BY <1>3, <1>4 DEF NamesSecret
<1> QED BY <1>3, <1>4, <1>5 DEF Suspect, NoCopy

\* A commit, as a card showed it.
CommitRight(shown, before, listed, r) ==
    LET tree == TipTree(shown)  made == r.commits[Tip(r)] IN
    /\ r.at = shown.at /\ Tip(r) = Len(before.commits) + 1
    /\ made.parents = {Tip(shown), shown.merging} \ {0}
    /\ \A f \in Files : made.tree[f] # tree[f] =>
          f \in listed /\ f \notin Secrets /\ NoCopy(tree, made.tree[f], f)

LEMMA StagedRight ==
    ASSUME NEW shown, NEW before, Found(shown, before), MaxCommits \in Nat, NEW r,
           ~NamesSecret(before, {}), r \in CommitStaged(before)
    PROVE  CommitRight(shown, before, Staged(shown), r)
<1>0. Sound(before)
  BY DEF Found
<1>1. /\ SameRest(before, r) /\ before.conflicts = {}
      /\ Committed(before, r, {Tip(before), before.merging} \ {0}, before.index)
  BY <1>0, CommitStagedDoes
<1>2. /\ Tip(shown) = Tip(before) /\ TipTree(shown) = TipTree(before) /\ shown.at = before.at
      /\ Staged(shown) = Staged(before) /\ shown.merging = before.merging
  BY FoundSame DEF Found
<1>3. r.at = shown.at
  BY <1>1, <1>2 DEF SameRest
<1>4. /\ Tip(r) = Len(before.commits) + 1 /\ r.commits[Tip(r)].tree = before.index
      /\ r.commits[Tip(r)].parents = {Tip(shown), shown.merging} \ {0}
  BY <1>1, <1>2 DEF Committed
<1>5. ASSUME NEW f \in Files, before.index[f] # TipTree(before)[f]
      PROVE  f \in Staged(before) /\ f \notin Secrets /\ NoCopy(TipTree(before), before.index[f], f)
  BY <1>1, <1>5, NotSuspect
<1> QED BY <1>2, <1>3, <1>4, <1>5 DEF CommitRight

LEMMA OnlyRight ==
    ASSUME NEW shown, NEW before, Found(shown, before), MaxCommits \in Nat,
           NEW files \in SUBSET Files, files # {}, NEW s \in AddFiles(before, files),
           ~NamesSecret(s, files), NEW r, r \in CommitOnly(s, files)
    PROVE  CommitRight(shown, before, files \cap Changed(shown), r)
<1>0. Sound(before) /\ shown.merging = before.merging
  BY DEF Found
<1>1. /\ Sound(s) /\ SameRest(before, s) /\ SameHistory(before, s)
      /\ s.work = before.work /\ s.merging = before.merging
      /\ s.conflicts = before.conflicts \ files
      /\ \A f \in Files : s.index[f] = IF f \in files THEN before.work[f] ELSE before.index[f]
  BY <1>0, AddFilesDoes
<1>2. /\ SameRest(s, r) /\ Takes(s, r, files) /\ s.merging = 0
  BY <1>1, CommitOnlyDoes
<1>3. PICK tree \in Trees :
        /\ Committed(s, r, {Tip(s)}, tree)
        /\ \A f \in Files : tree[f] = IF f \in files THEN s.work[f] ELSE TipTree(s)[f]
  BY <1>2 DEF Takes
<1>4. Tip(s) = Tip(before) /\ TipTree(s) = TipTree(before) /\ s.commits = before.commits
  BY <1>1 DEF Tip, TipTree, SameHistory, SameRest
<1>5. /\ Tip(shown) = Tip(before) /\ TipTree(shown) = TipTree(before) /\ shown.at = before.at
      /\ Changed(shown) = Changed(before)
  BY FoundSame
<1>6. r.at = shown.at
  BY <1>1, <1>2, <1>5 DEF SameRest
<1>7. /\ Tip(r) = Len(before.commits) + 1 /\ r.commits[Tip(r)].tree = tree
      /\ r.commits[Tip(r)].parents = {Tip(shown)}
  BY <1>3, <1>4, <1>5 DEF Committed
<1>8. {Tip(shown)} = {Tip(shown), shown.merging} \ {0}
  <2>1. Tip(shown) # 0
    BY TipTyped DEF Found
  <2> QED BY <1>0, <1>1, <1>2, <2>1
<1>9. ASSUME NEW f \in Files, tree[f] # TipTree(before)[f]
      PROVE  /\ f \in files \cap Changed(before) /\ f \notin Secrets
             /\ NoCopy(TipTree(before), tree[f], f)
  <2>1. f \in files /\ tree[f] = before.work[f]
    BY <1>1, <1>3, <1>4, <1>9
  <2>2. f \in Changed(before)
    BY <1>9, <2>1, UnchangedIs
  <2>3. s.index[f] = tree[f] /\ s.index[f] # TipTree(s)[f]
    BY <1>1, <1>4, <1>9, <2>1
  <2>4. f \notin s.conflicts
    BY <1>1, <2>1
  <2>5. f \notin Secrets /\ NoCopy(TipTree(s), s.index[f], f)
    BY <2>1, <2>3, <2>4, NotSuspect
  <2> QED BY <1>4, <2>1, <2>2, <2>3, <2>5
<1> QED BY <1>5, <1>6, <1>7, <1>8, <1>9 DEF CommitRight

\* A merge brings in what both sides reach, and its own commit.
MergeRight(shown, before, source, r) ==
    Reach(r, Tip(r)) \ {Len(before.commits) + 1} = Reach(r, Tip(shown)) \cup Reach(r, source)

LEMMA MergeIsRight ==
    ASSUME NEW shown, NEW before, Found(shown, before), MaxCommits \in Nat,
           NEW source \in 1..Len(before.commits), NEW r, r \in Merge(before, source)
    PROVE  MergeRight(shown, before, source, r)
<1>0. Sound(before)
  BY DEF Found
<1>1. Tip(shown) = Tip(before) /\ Tip(before) \in 1..Len(before.commits)
  BY <1>0, FoundSame, TipTyped
<1> DEFINE n == Len(before.commits)  tip == Tip(before)
<1>2. /\ Sound(r) /\ Grows(before, r)
      /\ \/ tip \in Reach(before, source) /\ r.commits = before.commits /\ Tip(r) = source
         \/ Committed(before, r, {tip, source}, Merged(before, source))
  BY <1>0, MergeDoes
<1>3. /\ Ordered(r.commits) /\ Ordered(before.commits) /\ n \in Nat
      /\ source \in 0..n /\ tip \in 0..n
  BY <1>0, <1>1, <1>2, HistoryTyped, RepoTyped
<1>4. /\ ReachOf(r.commits, source) \subseteq 1..n /\ ReachOf(r.commits, tip) \subseteq 1..n
      /\ source \in ReachOf(r.commits, source)
  <2>1. Continues(before.commits, r.commits)
    BY <1>2 DEF Grows
  <2>2. /\ ReachOf(r.commits, source) = ReachOf(before.commits, source)
        /\ ReachOf(r.commits, tip) = ReachOf(before.commits, tip)
    BY <1>3, <2>1, ReachStays
  <2>3. /\ ReachOf(before.commits, source) \subseteq 1..n
        /\ ReachOf(before.commits, tip) \subseteq 1..n
        /\ source \in ReachOf(before.commits, source)
    BY <1>1, <1>3, ReachWithin
  <2> QED BY <2>2, <2>3
<1>5. CASE tip \in Reach(before, source) /\ r.commits = before.commits /\ Tip(r) = source
  <2>1. tip \in ReachOf(r.commits, source)
    BY <1>5, ReachIsOf
  <2>2. ReachOf(r.commits, tip) \subseteq ReachOf(r.commits, source)
    BY <1>3, <1>5, <2>1, ReachTransitive
  <2>3. ReachOf(r.commits, Tip(r)) \ {n + 1}
          = ReachOf(r.commits, tip) \cup ReachOf(r.commits, source)
    BY <1>3, <1>4, <1>5, <2>2
  <2> QED BY <1>1, <2>3, ReachIsOf DEF MergeRight
<1>6. CASE Committed(before, r, {tip, source}, Merged(before, source))
  <2>1. /\ Tip(r) = n + 1 /\ r.commits[n + 1].parents = {tip, source}
        /\ r.commits = NewCommit(before, {tip, source}, Merged(before, source))
    BY <1>6 DEF Committed
  <2>2. n + 1 \in 1..Len(r.commits)
    BY <1>2, <2>1, TipTyped
  <2>3. ReachOf(r.commits, n + 1) = {n + 1} \cup UNION {ReachOf(r.commits, p) : p \in {tip, source}}
    BY <1>3, <2>1, <2>2, ReachUnfolds
  <2>4. ReachOf(r.commits, n + 1)
          = {n + 1} \cup ReachOf(r.commits, tip) \cup ReachOf(r.commits, source)
    BY <2>3
  <2>5. ReachOf(r.commits, n + 1) \ {n + 1}
          = ReachOf(r.commits, tip) \cup ReachOf(r.commits, source)
    BY <1>3, <1>4, <2>4
  <2> QED BY <1>1, <2>1, <2>5, ReachIsOf DEF MergeRight
<1> QED BY <1>2, <1>5, <1>6

\* What a call of these arguments did is what was shown.
DoneRight(shown, before, listed, args, r) ==
    /\ args.tool = "commit" => CommitRight(shown, before, listed, r)
    /\ args.tool = "switch" =>
          r.at = args.branch /\ Tip(r) = IF args.create THEN Tip(shown) ELSE shown.refs[args.branch]
    /\ args.tool = "merge" => MergeRight(shown, before, shown.refs[args.branch], r)
    /\ args.tool = "push" =>
          r.remote = [before.remote EXCEPT ![args.branch] = shown.refs[args.branch]]

LEMMA DoneIsRight ==
    ASSUME NEW shown, NEW before, Found(shown, before), MaxCommits \in Nat,
           NEW args \in Args, NEW r, Made(before, args, r)
    PROVE  DoneRight(shown, before, PlanOf(shown, args).listed, args, r)
<1>0. Sound(before) /\ Tip(shown) = Tip(before) /\ shown.refs = before.refs
  BY FoundSame DEF Found
<1>1. CASE args.tool = "commit"
  <2>1. PICK files \in SUBSET Files : files = args.files
    BY <1>1, ArgsTyped
  <2>2. PlanOf(shown, args).listed
          = IF files = {} THEN Staged(shown) ELSE files \cap Changed(shown)
    BY <1>1, <2>1 DEF PlanOf, PlanCommit, Listing
  <2>3. CommitRight(shown, before, PlanOf(shown, args).listed, r)
    <3>1. CASE files = {}
      <4>1. ~NamesSecret(before, {}) /\ r \in CommitStaged(before)
        BY <1>1, <2>1, <3>1 DEF Made
      <4> QED BY <2>2, <3>1, <4>1, StagedRight
    <3>2. CASE files # {}
      <4>1. PICK s \in AddFiles(before, files) :
              ~NamesSecret(s, files) /\ r \in CommitOnly(s, files)
        BY <1>1, <2>1, <3>2 DEF Made
      <4> QED BY <2>2, <3>2, <4>1, OnlyRight
    <3> QED BY <3>1, <3>2
  <2> QED BY <1>1, <2>3 DEF DoneRight
<1>2. CASE args.tool = "switch"
  <2>1. args.branch \in Branches /\ args.create \in BOOLEAN
    BY <1>2, ArgsTyped
  <2>2. r \in Switch(before, args.branch, args.create)
    BY <1>2 DEF Made
  <2>3. CASE args.create = TRUE
    <3>1. r.at = args.branch /\ Tip(r) = Tip(before)
      BY <1>0, <2>1, <2>2, <2>3, CreateDoes
    <3> QED BY <1>0, <1>2, <2>3, <3>1 DEF DoneRight
  <2>4. CASE args.create = FALSE
    <3>1. r.at = args.branch /\ Tip(r) = before.refs[args.branch]
      <4>1. PICK branch \in Branches : branch = args.branch
        BY <2>1
      <4>2. PICK create : create = args.create
        OBVIOUS
      <4>3. r \in Switch(before, branch, create) /\ create = FALSE
        BY <2>2, <2>4, <4>1, <4>2
      <4>4. GoesTo(before, r, branch)
        BY <1>0, <4>3, SwitchDoes
      <4> QED BY <4>1, <4>4 DEF GoesTo
    <3> QED BY <1>0, <1>2, <2>4, <3>1 DEF DoneRight
  <2> QED BY <2>1, <2>3, <2>4
<1>3. CASE args.tool = "merge"
  <2>1. PICK source : source = before.refs[args.branch]
    OBVIOUS
  <2>2. source # 0 /\ r \in Merge(before, source)
    BY <1>3, <2>1 DEF Made
  <2>3. source \in 1..Len(before.commits)
    BY <1>0, <1>3, <2>1, <2>2, ArgsTyped, RefsTyped, RepoTyped
  <2>4. MergeRight(shown, before, source, r)
    BY <2>2, <2>3, MergeIsRight
  <2> QED BY <1>0, <1>3, <2>1, <2>4 DEF DoneRight
<1>4. CASE args.tool = "push"
  <2>1. args.branch \in Branches /\ r \in Push(before, args.branch)
    BY <1>4, ArgsTyped DEF Made
  <2>2. r.remote = [before.remote EXCEPT ![args.branch] = before.refs[args.branch]]
    BY <1>0, <2>1, PushDoes
  <2> QED BY <1>0, <1>4, <2>2 DEF DoneRight
<1> QED BY <1>1, <1>2, <1>3, <1>4, ArgsTyped

-----------------------------------------------------------------------------
(* The reports that end a call are true.                                   *)

LEMMA SelfIntent ==
    ASSUME NEW r \in Repos
    PROVE  r = [r EXCEPT !.intent = r.intent]
  BY DEF Repos

\* A call that was cut says as much.
LEMMA EndsCut ==
    ASSUME GitTypeOK', call'.cut = TRUE,
           call'.report \notin {"done", "changed", "restored", "as it was"},
           call'.report = "refused" => repo' = call'.before
    PROVE  EndInv'
<1>1. AsShown'
  BY DEF AsShown
<1>2. ReportsAreTrue'
  <2>1. SUFFICES ASSUME call'.report = "refused"
                 PROVE  repo' = [call'.before EXCEPT !.intent = repo'.intent]
    BY DEF ReportsAreTrue
  <2>2. repo' \in Repos
    BY DEF GitTypeOK, Sound
  <2> QED BY <2>1, <2>2, SelfIntent
<1> QED BY <1>1, <1>2 DEF EndInv

\* One that found nothing to do, or failed at once, left everything alone.
LEMMA EndsSame ==
    ASSUME GitTypeOK', repo' = call'.before,
           call'.report \notin {"done", "restored", "as it was"}
    PROVE  EndInv'
<1>1. AsShown'
  BY DEF AsShown
<1>2. repo' = [call'.before EXCEPT !.intent = repo'.intent]
  <2>2. repo' \in Repos
    BY DEF GitTypeOK, Sound
  <2> QED BY <2>2, SelfIntent
<1>3. ReportsAreTrue'
  BY <1>2 DEF ReportsAreTrue
<1> QED BY <1>1, <1>3 DEF EndInv

\* One that says nothing of the repository as a whole spared the uncommitted work.
LEMMA EndsSparing ==
    ASSUME GitTypeOK', call'.report \notin {"refused", "changed", "restored", "as it was"},
           call'.cut = FALSE, call'.report = "done" => AsShown',
           \A f \in Uncommitted' :
               /\ repo'.work[f] = call'.before.work[f]
               /\ call'.report = "unrestored" \/ Untouched(call'.before, repo', f)
    PROVE  EndInv'
<1>1. AsShown'
  BY DEF AsShown
<1>2. ReportsAreTrue'
  BY DEF ReportsAreTrue, Untouched
<1> QED BY <1>1, <1>2 DEF EndInv

\* One that put everything back.
LEMMA EndsBack ==
    ASSUME GitTypeOK', call'.report \in {"restored", "as it was"}, call'.cut = FALSE,
           call'.report = "restored" => repo' = [call'.before EXCEPT !.intent = repo'.intent],
           call'.report = "as it was" =>
               repo' = [call'.before EXCEPT !.intent = repo'.intent, !.merging = 0],
           \A f \in Uncommitted' : Untouched(call'.before, repo', f)
    PROVE  EndInv'
<1>1. AsShown'
  BY DEF AsShown
<1>2. ReportsAreTrue'
  BY DEF ReportsAreTrue, Untouched
<1> QED BY <1>1, <1>2 DEF EndInv

\* What a call reports as done is what its card showed.
LEMMA EndsDone ==
    ASSUME GitTypeOK', Found(call'.shown, call'.before), MaxCommits \in Nat,
           call'.args \in Args, Made(call'.before, call'.args, repo'),
           call'.plan = PlanOf(call'.shown, call'.args)
    PROVE  AsShown'
<1>1. DoneRight(call'.shown, call'.before, call'.plan.listed, call'.args, repo')
  BY DoneIsRight
<1>2. Fingerprint(call'.shown) = Fingerprint(call'.before)
  BY DEF Found
<1>3. call'.args.tool = "commit" =>
          /\ repo'.at = call'.shown.at /\ Tip(repo') = Len(call'.before.commits) + 1
          /\ repo'.commits[Tip(repo')].parents = {Tip(call'.shown), call'.shown.merging} \ {0}
          /\ Taken' \subseteq call'.plan.listed
          /\ \A f \in Taken' : ~NewSecret(f)'
  BY <1>1 DEF DoneRight, CommitRight, Taken, NewSecret, NoCopy
<1>4. call'.args.tool = "switch" =>
          /\ repo'.at = call'.args.branch
          /\ Tip(repo') = IF call'.args.create THEN Tip(call'.shown)
                          ELSE call'.shown.refs[call'.args.branch]
  BY <1>1 DEF DoneRight
<1>5. call'.args.tool = "merge" =>
          Reach(repo', Tip(repo')) \ {Len(call'.before.commits) + 1}
            = Reach(repo', Tip(call'.shown)) \cup Reach(repo', call'.shown.refs[call'.args.branch])
  BY <1>1 DEF DoneRight, MergeRight
<1>6. call'.args.tool = "push" =>
          repo'.remote = [call'.before.remote EXCEPT
                            ![call'.args.branch] = call'.shown.refs[call'.args.branch]]
  BY <1>1 DEF DoneRight
<1> QED BY <1>2, <1>3, <1>4, <1>5, <1>6 DEF AsShown

-----------------------------------------------------------------------------
(* The steps of a call.                                                    *)

\* A step to another step, or to the report.
LEMMA Advance ==
    ASSUME GitInv, Working, scenario' = scenario, Sound(repo'), Grows(repo, repo'),
           NEW step \in Writes \cup Reads \cup {"ended"}, NEW report,
           \/ call' = [call EXCEPT !.pc = step] /\ report = call.report
           \/ call' = [call EXCEPT !.pc = step, !.report = report]
    PROVE  /\ SameCall(call, call')
           /\ call'.pc = step /\ call'.report = report /\ call'.cut = call.cut
           /\ GitTypeOK' /\ (ToolInv' /\ StepInv' /\ EndInv' => GitInv')
           /\ step = "ended" => ToolInv' /\ StepInv'
           /\ step # "ended" => EndInv'
           /\ call.raced \/ call.returned => EndInv'
           /\ call.raced \/ (call.cut /\ step # "replan") => StepInv'
<1>1. Shape(call) /\ call.cut \in BOOLEAN
  BY GitFacts
<1>2. /\ Shape(call') /\ SameCall(call, call')
      /\ call'.pc = step /\ call'.report = report /\ call'.cut = call.cut
  <2>1. CASE call' = [call EXCEPT !.pc = step] /\ report = call.report
    BY <1>1, <2>1 DEF Shape, SameCall, SameTask
  <2>2. CASE call' = [call EXCEPT !.pc = step, !.report = report]
    BY <1>1, <2>2 DEF Shape, SameCall, SameTask
  <2> QED BY <2>1, <2>2
<1>3. SameTask(call, call')
  BY <1>2 DEF SameCall
<1>4. GitTypeOK' /\ (ToolInv' /\ StepInv' /\ EndInv' => GitInv')
  BY <1>1, <1>2, <1>3, StepMoves
<1>5. step = "ended" => ToolInv' /\ StepInv'
  BY <1>2 DEF ToolInv, StepInv, Working, Writes, Reads
<1>6. step # "ended" => EndInv'
  BY <1>2, <1>4, NotOver
<1>7. call.raced \/ call.returned => EndInv'
  BY <1>3, <1>4, NotOver DEF SameTask
<1>8. call.raced \/ (call.cut /\ step # "replan") => StepInv'
  BY <1>2, <1>3 DEF StepInv, SameTask
<1> QED BY <1>2, <1>4, <1>5, <1>6, <1>7, <1>8

\* A call that ends need only answer for itself, when nobody else wrote.
LEMMA Ends ==
    ASSUME GitInv, Working, scenario' = scenario, Sound(repo'), Grows(repo, repo'),
           NEW report, call' = [call EXCEPT !.pc = "ended", !.report = report],
           ASSUME ~call.raced, ~call.returned, GitTypeOK', SameCall(call, call'),
                  call'.pc = "ended", call'.report = report, call'.cut = call.cut
           PROVE  EndInv'
    PROVE  GitInv'
<1> DEFINE step == "ended"
<1>1. step \in Writes \cup Reads \cup {"ended"}
  OBVIOUS
<1>2. call' = [call EXCEPT !.pc = step, !.report = report]
  OBVIOUS
<1>3. /\ SameCall(call, call')
      /\ call'.pc = step /\ call'.report = report /\ call'.cut = call.cut
      /\ GitTypeOK' /\ (ToolInv' /\ StepInv' /\ EndInv' => GitInv')
      /\ step = "ended" => ToolInv' /\ StepInv'
      /\ call.raced \/ call.returned => EndInv'
  <2> HIDE DEF step
  <2> QED BY <1>1, <1>2, Advance
<1>4. EndInv'
  BY <1>3
<1> QED BY <1>3, <1>4

LEMMA LockSound ==
    ASSUME NEW r, Sound(r), MaxCommits \in Nat, NEW held \in BOOLEAN,
           NEW s, s = [r EXCEPT !.lock = held]
    PROVE  Sound(s) /\ Grows(r, s)
<1>1. r \in Repos
  BY RepoTyped
<1>2. /\ s \in Repos /\ SameHistory(r, s) /\ SameFiles(r, s)
      /\ s.at = r.at /\ s.remote = r.remote /\ s.tracking = r.tracking
  BY <1>1 DEF Repos, SameHistory, SameFiles
<1>3. Names(s, Len(r.commits))
  BY <1>2, RefsTyped DEF Names, SameHistory, Sound
<1>4. Consistent(s, Len(r.commits))
  BY <1>2, RepoTyped DEF Consistent, Sound, SameFiles
<1> QED BY <1>2, <1>3, <1>4, SoundMoved, GrowsHolds DEF SameHistory

\* What the command of a step takes from its call.
LEMMA CommandArgs ==
    ASSUME GitInv, Working, call.pc \in Writes
    PROVE  /\ call.pc \in {"add", "only", "restore", "intent"} =>
                /\ call.args.files \in SUBSET Files
                /\ call.tree \in Trees /\ call.intent \in SUBSET Files
           /\ call.pc \in {"switch", "merge", "push"} => call.args.branch \in Branches
           /\ call.pc = "switch" => call.args.create \in BOOLEAN
           /\ call.pc = "merge" => repo.refs[call.args.branch] \in 1..Len(repo.commits)
<1>1. call.args \in Args /\ ToolInv /\ Sound(repo) /\ MaxCommits \in Nat
  BY WorkingFacts, GitFacts DEF GitInv
<1>2. call.pc \in {"add", "only", "restore", "intent"} =>
        call.args.files \in SUBSET Files /\ call.tree \in Trees /\ call.intent \in SUBSET Files
  BY <1>1, ArgsTyped DEF ToolInv
<1>3. /\ call.pc \in {"switch", "merge", "push"} => call.args.branch \in Branches
      /\ call.pc = "switch" => call.args.create \in BOOLEAN
  BY <1>1, ArgsTyped DEF ToolInv
<1>4. call.pc = "merge" => repo.refs[call.args.branch] \in 1..Len(repo.commits)
  <2>1. SUFFICES ASSUME call.pc = "merge" PROVE repo.refs[call.args.branch] \in 1..Len(repo.commits)
    OBVIOUS
  <2>2. repo.refs[call.args.branch] # 0
    BY <1>1, <2>1 DEF ToolInv
  <2> QED BY <1>1, <1>3, <2>1, <2>2, RefsTyped, RepoTyped
<1> QED BY <1>2, <1>3, <1>4

LEMMA CommandSound ==
    ASSUME GitInv, Working, call.pc \in Writes, NEW s \in Results
    PROVE  Sound(s) /\ Grows(repo, s)
<1>1. Sound(repo) /\ MaxCommits \in Nat
  BY GitFacts
<1>2. CASE call.pc = "add"
  <2>1. s \in AddFiles(repo, call.args.files)
    BY <1>2 DEF Results
  <2> QED BY <1>1, <1>2, <2>1, CommandArgs, AddFilesDoes
<1>3. CASE call.pc = "commit"
  <2>1. s \in CommitStaged(repo)
    BY <1>3 DEF Results
  <2> QED BY <1>1, <2>1, CommitStagedDoes
<1>4. CASE call.pc = "only"
  <2>1. s \in CommitOnly(repo, call.args.files)
    BY <1>4 DEF Results
  <2> QED BY <1>1, <1>4, <2>1, CommandArgs, CommitOnlyDoes
<1>5. CASE call.pc = "restore"
  <2>1. s \in ReadTree(repo, call.tree)
    BY <1>5 DEF Results
  <2> QED BY <1>1, <1>5, <2>1, CommandArgs, ReadTreeDoes
<1>6. CASE call.pc = "intent"
  <2>1. s \in AddIntent(repo, call.intent)
    BY <1>6 DEF Results
  <2> QED BY <1>1, <1>6, <2>1, CommandArgs, AddIntentDoes
<1>7. CASE call.pc = "switch"
  <2>1. s \in Switch(repo, call.args.branch, call.args.create)
    BY <1>7 DEF Results
  <2>2. call.args.branch \in Branches /\ call.args.create \in BOOLEAN
    BY <1>7, CommandArgs
  <2>3. CASE call.args.create = TRUE
    BY <1>1, <2>1, <2>2, <2>3, CreateDoes
  <2>4. CASE call.args.create = FALSE
    <3>1. PICK branch \in Branches : branch = call.args.branch
      BY <2>2
    <3>2. PICK create : create = call.args.create
      OBVIOUS
    <3> QED BY <1>1, <2>1, <2>4, <3>1, <3>2, SwitchDoes
  <2> QED BY <2>2, <2>3, <2>4
<1>8. CASE call.pc = "merge"
  <2>1. s \in Merge(repo, repo.refs[call.args.branch])
    BY <1>8 DEF Results
  <2> QED BY <1>1, <1>8, <2>1, CommandArgs, MergeDoes
<1>9. CASE call.pc = "abort"
  <2>1. s \in MergeAbort(repo)
    BY <1>9 DEF Results
  <2> QED BY <1>1, <2>1, MergeAbortDoes
<1>10. CASE call.pc = "push"
  <2>1. s \in Push(repo, call.args.branch)
    BY <1>10 DEF Results
  <2> QED BY <1>1, <1>10, <2>1, CommandArgs, PushDoes
<1> QED BY <1>2, <1>3, <1>4, <1>5, <1>6, <1>7, <1>8, <1>9, <1>10 DEF Writes

LEMMA FailureSound ==
    ASSUME GitInv, Working, call.pc \in Writes, NEW s \in Failures
    PROVE  /\ Sound(s) /\ Grows(repo, s)
           /\ s = repo \/ (call.pc = "merge" /\ s \in MergeStops(repo, repo.refs[call.args.branch]))
<1>1. Sound(repo) /\ MaxCommits \in Nat
  BY GitFacts
<1>2. s = repo \/ (call.pc = "merge" /\ s \in MergeStops(repo, repo.refs[call.args.branch]))
  BY DEF Failures
<1>3. CASE s = repo
  BY <1>1, <1>2, <1>3, GrowsHolds
<1>4. CASE call.pc = "merge" /\ s \in MergeStops(repo, repo.refs[call.args.branch])
  BY <1>1, <1>4, CommandArgs, MergeStopsDoes
<1> QED BY <1>2, <1>3, <1>4

LEMMA StillFacts ==
    ASSUME GitInv, Still
    PROVE  /\ repo' = repo /\ scenario' = scenario
           /\ Sound(repo') /\ Grows(repo, repo')
  BY GitFacts, GrowsHolds DEF Still

\* What the call found when it was approved is what its card showed.
LEMMA FoundThen ==
    ASSUME GitInv, Working, ~call.returned
    PROVE  /\ Found(call.shown, call.before) /\ call.plan = PlanOf(call.shown, call.args)
           /\ call.args \in Args /\ MaxCommits \in Nat
  BY GitFacts, WorkingFacts DEF GitInv, ApprovedInv, Found

LEMMA FirstStepIs ==
    ASSUME NEW args \in Args
    PROVE  \/ FirstStep(args) = "add" /\ args.tool = "commit" /\ args.files # {}
           \/ FirstStep(args) = "commit" /\ args.tool = "commit" /\ args.files = {}
           \/ FirstStep(args) \in {"switch", "merge", "push"} /\ args.tool = FirstStep(args)
  BY ArgsTyped DEF FirstStep

\* The plan is made again.
LEMMA ReplanKeeps ==
    ASSUME GitInv, Replan
    PROVE  GitInv'
<1>1. /\ Working /\ call.pc = "replan" /\ ~call.cut /\ Still
      /\ repo' = repo /\ scenario' = scenario /\ Sound(repo') /\ Grows(repo, repo')
      /\ Sound(repo) /\ MaxCommits \in Nat /\ Shape(call)
  BY StillFacts, GitFacts DEF Replan, Working, Reads
<1>2. ~call.raced => repo = call.before
  BY <1>1 DEF GitInv, StepInv
<1>3. call.args \in Args
  BY <1>1, WorkingFacts
<1>4. CASE End("refused")
  <2>1. call' = [call EXCEPT !.pc = "ended", !.report = "refused"]
    BY <1>4 DEF End
  <2>2. ASSUME ~call.raced, GitTypeOK', SameCall(call, call'), call'.report = "refused"
        PROVE  EndInv'
    BY <1>1, <1>2, <2>2, EndsSame DEF SameCall, SameTask
  <2> QED BY <1>1, <2>1, <2>2, Ends
<1>5. CASE /\ PlanOf(repo, call.args).ok /\ Noted
           /\ call' = [call EXCEPT !.pc = FirstStep(call.args), !.tree = repo.index,
                                   !.intent = Intent(repo)]
  <2> DEFINE step == FirstStep(call.args)
  <2>1. /\ Shape(call') /\ SameTask(call, call') /\ call'.pc = step /\ call'.cut = call.cut
        /\ call'.tree = repo.index /\ call'.intent = Intent(repo)
    BY <1>1, <1>5 DEF Shape, SameTask
  <2>2. step \in {"add", "commit", "switch", "merge", "push"}
    BY <1>3, FirstStepIs
  <2>3. GitTypeOK' /\ (ToolInv' /\ StepInv' /\ EndInv' => GitInv')
    BY <1>1, <2>1, <2>2, StepMoves, GitFacts DEF Writes
  <2>4. EndInv'
    BY <2>1, <2>2, <2>3, NotOver
  <2>5. step = "merge" => repo.refs[call.args.branch] # 0
    BY <1>3, <1>5, FirstStepIs DEF PlanOf, PlanMerge
  <2>6. call'.tree \in Trees /\ call'.intent \subseteq Files
    BY <1>1, <2>1, RepoTyped DEF Intent
  <2>7. ToolInv'
    BY <1>1, <1>3, <2>1, <2>2, <2>5, <2>6, FirstStepIs DEF ToolInv, SameTask
  <2>8. step = "add" => repo.conflicts = {}
    BY <1>5 DEF Noted
  <2>9. StepInv'
    BY <1>1, <1>2, <1>5, <2>1, <2>2, <2>8 DEF StepInv, SameTask, NotedIn
  <2> QED BY <2>3, <2>4, <2>7, <2>9
<1> QED BY <1>4, <1>5 DEF Replan

LEMMA RecheckKeeps ==
    ASSUME GitInv, Recheck
    PROVE  GitInv'
<1>1. /\ Working /\ call.pc = "recheck" /\ ~call.cut /\ Still
      /\ repo' = repo /\ scenario' = scenario /\ Sound(repo') /\ Grows(repo, repo')
  BY StillFacts DEF Recheck, Working, Reads
<1>2. PICK step : step = IF ~Verified(repo) \/ NamesSecret(repo, call.args.files)
                         THEN "restore" ELSE "only"
  OBVIOUS
<1>3. step \in {"restore", "only"} /\ (step = "only" => ~NamesSecret(repo, call.args.files))
  BY <1>2
<1>4. call' = [call EXCEPT !.pc = step]
  BY <1>2 DEF Recheck, Go
<1>5. /\ SameCall(call, call') /\ call'.pc = step /\ call'.cut = call.cut
      /\ (ToolInv' /\ StepInv' /\ EndInv' => GitInv') /\ EndInv'
      /\ call.raced => StepInv'
  <2>1. PICK report : report = call.report
    OBVIOUS
  <2>2. step \in Writes \cup Reads \cup {"ended"} /\ step # "ended"
    BY <1>3 DEF Writes
  <2> QED BY <1>1, <1>4, <2>1, <2>2, Advance
<1>6. ToolInv'
  BY <1>1, <1>3, <1>5, WorkingFacts DEF GitInv, ToolInv, SameCall, SameTask
<1>7. StepInv'
  <2>1. SUFFICES ASSUME ~call.raced PROVE StepInv'
    BY <1>5
  <2>2. NotedIn(call.before, call.tree, call.intent) /\ StagedIn(call.before, call.args, repo)
    BY <1>1, <2>1 DEF GitInv, StepInv
  <2> QED BY <1>1, <1>3, <1>5, <2>2 DEF StepInv, SameCall, SameTask
<1> QED BY <1>5, <1>6, <1>7

\* What a merge that stopped has left of uncommitted work.
LEMMA MergeSpares ==
    ASSUME GitInv, Working, ~call.raced, ~call.cut, call.pc \in {"merging", "abort"},
           NEW f \in Changed(call.before)
    PROVE  Untouched(call.before, repo, f)
<1>1. /\ call.args \in Args /\ call.args.tool = "merge" /\ Sound(call.before) /\ MaxCommits \in Nat
  BY WorkingFacts, GitFacts DEF GitInv, ToolInv
<1>2. repo = call.before \/ StoppedIn(call.before, call.args, repo)
  BY DEF GitInv, StepInv, OwnersIn
<1>3. CASE repo = call.before
  BY <1>3 DEF Untouched
<1>4. CASE StoppedIn(call.before, call.args, repo)
  BY <1>1, <1>4, StoppedLeaves
<1> QED BY <1>2, <1>3, <1>4

LEMMA MergingKeeps ==
    ASSUME GitInv, Merging
    PROVE  GitInv'
<1>1. /\ Working /\ call.pc = "merging" /\ ~call.cut /\ Still
      /\ repo' = repo /\ scenario' = scenario /\ Sound(repo') /\ Grows(repo, repo')
  BY StillFacts DEF Merging, Working, Reads
<1>2. call.args.tool = "merge" /\ call.args \in Args
  BY <1>1, WorkingFacts DEF GitInv, ToolInv
<1>3. CASE End("failed")
  <2>1. call' = [call EXCEPT !.pc = "ended", !.report = "failed"]
    BY <1>3 DEF End
  <2>2. ASSUME ~call.raced, GitTypeOK', SameCall(call, call'), call'.report = "failed",
               call'.cut = call.cut
        PROVE  EndInv'
    <3>1. Uncommitted' = Changed(call.before)
      BY <1>2, <2>2 DEF Uncommitted, SameCall, SameTask
    <3>2. \A f \in Uncommitted' : Untouched(call'.before, repo', f)
      BY <1>1, <2>2, <3>1, MergeSpares DEF SameCall, SameTask
    <3>3. call'.cut = FALSE
      BY <1>1, <2>2, GitFacts
    <3> QED BY <2>2, <3>2, <3>3, EndsSparing DEF Untouched
  <2> QED BY <1>1, <2>1, <2>2, Ends
<1>4. CASE repo.merging # 0 /\ Go("abort")
  <2>1. call' = [call EXCEPT !.pc = "abort"]
    BY <1>4 DEF Go
  <2>2. /\ SameCall(call, call') /\ call'.pc = "abort" /\ call'.cut = call.cut
        /\ (ToolInv' /\ StepInv' /\ EndInv' => GitInv') /\ EndInv'
        /\ call.raced => StepInv'
    <3>1. PICK step, report : step = "abort" /\ report = call.report
      OBVIOUS
    <3>2. step \in Writes \cup Reads \cup {"ended"} /\ step # "ended"
      BY <3>1 DEF Writes
    <3> QED BY <1>1, <2>1, <3>1, <3>2, Advance
  <2>3. ToolInv'
    BY <1>2, <2>2 DEF ToolInv, SameCall, SameTask
  <2>4. StepInv'
    <3>1. SUFFICES ASSUME ~call.raced PROVE StepInv'
      BY <2>2
    <3>2. StoppedIn(call.before, call.args, repo) \/ OwnersIn(call.before, repo)
      BY <1>1, <1>4, <3>1 DEF GitInv, StepInv, OwnersIn
    <3> QED BY <1>1, <2>2, <3>2 DEF StepInv, SameCall, SameTask
  <2> QED BY <2>2, <2>3, <2>4
<1> QED BY <1>3, <1>4 DEF Merging

\* After the abort nothing but a merge of the owner's is missing.
LEMMA MergingOff ==
    ASSUME NEW before \in Repos, NEW r, r = [before EXCEPT !.merging = 0]
    PROVE  /\ r = [before EXCEPT !.intent = r.intent, !.merging = 0]
           /\ \A f \in Files : Untouched(before, r, f)
<1>1. /\ r.intent = before.intent /\ r.work = before.work /\ r.index = before.index
  BY DEF Repos
<1>2. r = [before EXCEPT !.intent = before.intent, !.merging = 0]
  BY DEF Repos
<1> QED BY <1>1, <1>2 DEF Untouched, Intent

LEMMA VerifyKeeps ==
    ASSUME GitInv, Verify
    PROVE  GitInv'
<1>1. /\ Working /\ call.pc = "verify" /\ ~call.cut /\ Still
      /\ repo' = repo /\ scenario' = scenario /\ Sound(repo') /\ Grows(repo, repo')
  BY StillFacts DEF Verify, Working, Reads
<1>2. PICK report \in {"as it was", "unsure"} :
        call' = [call EXCEPT !.pc = "ended", !.report = report]
  BY DEF Verify, End
<1>3. ASSUME ~call.raced, GitTypeOK', SameCall(call, call'), call'.report = report,
             call'.cut = call.cut
      PROVE  EndInv'
  <2>1. repo = [call.before EXCEPT !.merging = 0]
    BY <1>1, <1>3 DEF GitInv, StepInv
  <2>2. call.before \in Repos
    BY <1>1, WorkingFacts DEF Sound
  <2>3. /\ repo = [call.before EXCEPT !.intent = repo.intent, !.merging = 0]
        /\ \A f \in Files : Untouched(call.before, repo, f)
    BY <2>1, <2>2, MergingOff
  <2>4. repo' = [call'.before EXCEPT !.intent = repo'.intent, !.merging = 0]
    BY <1>1, <1>3, <2>3 DEF SameCall, SameTask
  <2>5. \A f \in Uncommitted' : Untouched(call'.before, repo', f)
    BY <1>1, <1>3, <2>3 DEF Uncommitted, Changed, SameCall, SameTask
  <2>6. call'.cut = FALSE
    BY <1>1, <1>3, GitFacts
  <2>7. CASE report = "as it was"
    BY <1>3, <2>4, <2>5, <2>6, <2>7, EndsBack
  <2>8. CASE report = "unsure"
    BY <1>3, <2>5, <2>6, <2>8, EndsSparing DEF Untouched
  <2> QED BY <2>7, <2>8
<1> QED BY <1>1, <1>2, <1>3, Ends

\* What a call that did what it was asked to reports.
LEMMA EndsMade ==
    ASSUME GitInv, Working, ~call.raced, ~call.returned, call.cut = FALSE,
           Made(call.before, call.args, repo'), GitTypeOK', SameCall(call, call'),
           call'.cut = call.cut,
           \/ call'.report = "done"
           \/ call'.report = "failed" /\ call.args.tool \in {"commit", "merge"}
    PROVE  EndInv'
<1>1. /\ Found(call.shown, call.before) /\ call.plan = PlanOf(call.shown, call.args)
      /\ call.args \in Args /\ MaxCommits \in Nat /\ Sound(call.before)
  BY FoundThen DEF Found
<1>2. /\ call'.shown = call.shown /\ call'.before = call.before
      /\ call'.args = call.args /\ call'.plan = call.plan
  BY DEF SameCall, SameTask
<1>3. AsShown'
  BY <1>1, <1>2, EndsDone
<1>4. Uncommitted' \subseteq Spared(call.before, call.args)
  BY <1>1, <1>2, ArgsTyped DEF Uncommitted, Spared
<1>5. \A f \in Spared(call.before, call.args) : Untouched(call.before, repo', f)
  BY <1>1, MadeLeaves
<1>6. \A f \in Uncommitted' : /\ repo'.work[f] = call'.before.work[f]
                              /\ call'.report = "unrestored" \/ Untouched(call'.before, repo', f)
  BY <1>2, <1>4, <1>5 DEF Untouched
<1> QED BY <1>3, <1>6, EndsSparing

LEMMA LogKeeps ==
    ASSUME GitInv, Log
    PROVE  GitInv'
<1>1. /\ Working /\ call.pc = "log" /\ ~call.cut /\ Still
      /\ repo' = repo /\ scenario' = scenario /\ Sound(repo') /\ Grows(repo, repo')
  BY StillFacts DEF Log, Working, Reads
<1>2. PICK report \in {"done", "failed"} :
        call' = [call EXCEPT !.pc = "ended", !.report = report]
  BY DEF Log, End
<1>3. ASSUME ~call.raced, ~call.returned, GitTypeOK', SameCall(call, call'),
             call'.report = report, call'.cut = call.cut
      PROVE  EndInv'
  <2>1. Made(call.before, call.args, repo') /\ call.args.tool \in {"commit", "merge"}
    BY <1>1, <1>3 DEF GitInv, StepInv, ToolInv
  <2>2. call.cut = FALSE
    BY <1>1, GitFacts
  <2> QED BY <1>1, <1>2, <1>3, <2>1, <2>2, EndsMade
<1> QED BY <1>1, <1>2, <1>3, Ends

LEMMA ExpireKeeps ==
    ASSUME GitInv, Expire
    PROVE  GitInv'
<1>1. /\ Working /\ call.pc \in Reads /\ Still
      /\ repo' = repo /\ scenario' = scenario /\ Sound(repo') /\ Grows(repo, repo')
      /\ call' = [call EXCEPT !.cut = TRUE] /\ Shape(call)
  BY StillFacts, GitFacts DEF Expire, Working
<1>2. Shape(call') /\ SameCall(call, call') /\ call'.pc = call.pc /\ call'.cut = TRUE
  BY <1>1 DEF Shape, SameCall, SameTask
<1>3. GitTypeOK' /\ (ToolInv' /\ StepInv' /\ EndInv' => GitInv')
  BY <1>1, <1>2, StepMoves DEF SameCall
<1>4. EndInv'
  BY <1>1, <1>2, <1>3, NotOver DEF Reads
<1>5. ToolInv'
  BY <1>1, <1>2 DEF GitInv, ToolInv, SameCall, SameTask, Working
<1>6. StepInv'
  BY <1>1, <1>2 DEF GitInv, StepInv, SameCall, SameTask
<1> QED BY <1>3, <1>4, <1>5, <1>6

\* A call whose time is over says nothing it does not know.
LEMMA GoesCut ==
    ASSUME GitInv, Working, scenario' = scenario, Sound(repo'), Grows(repo, repo'),
           Shape(call'), SameCall(call, call'), call'.cut = TRUE,
           \/ call'.pc = "restore" /\ call.pc \in {"only", "recheck"}
           \/ call'.pc = "merging" /\ call.pc = "merge"
           \/ /\ call'.pc = "ended"
              /\ call'.report \in {"unrestored", "failed", "mid-merge", "unsure"}
           \/ call'.pc = "ended" /\ call'.report = "refused" /\ call.pc = "replan" /\ repo' = repo
    PROVE  GitInv'
<1>1. SameTask(call, call')
  BY DEF SameCall
<1>2. GitTypeOK' /\ (ToolInv' /\ StepInv' /\ EndInv' => GitInv')
  BY <1>1, StepMoves DEF Writes, Reads
<1>3. ToolInv'
  BY <1>1, WorkingFacts DEF GitInv, ToolInv, SameCall, SameTask, Working, Writes, Reads
<1>4. StepInv'
  BY DEF StepInv
<1>5. EndInv'
  <2>1. CASE call'.pc # "ended" \/ call.raced
    BY <1>1, <1>2, <2>1, NotOver DEF SameTask
  <2>2. CASE call'.pc = "ended" /\ ~call.raced
    <3>1. call'.report = "refused" => repo' = call'.before
      BY <1>1, <2>2 DEF GitInv, StepInv, SameTask
    <3> QED BY <1>2, <2>2, <3>1, EndsCut
  <2> QED BY <2>1, <2>2
<1> QED BY <1>2, <1>3, <1>4, <1>5

\* Where a command that failed leads.
LeadsTo(c, step, report) ==
    \/ c.pc = "only" /\ step = "restore" /\ report = c.report
    \/ c.pc = "merge" /\ step = "merging" /\ report = c.report
    \/ step = "ended" /\ c.pc \in {"restore", "intent"} /\ report = "unrestored"
    \/ step = "ended" /\ c.pc = "abort" /\ report = "mid-merge"
    \/ step = "ended" /\ c.pc \in {"add", "commit", "switch", "push"} /\ report = "failed"

LEMMA FailedIs ==
    ASSUME Shape(call), call.pc \in Writes
    PROVE  \E step, report :
              /\ LeadsTo(call, step, report)
              /\ \/ step # "ended" /\ Failed = [call EXCEPT !.pc = step]
                 \/ step = "ended" /\ Failed = [call EXCEPT !.pc = step, !.report = report]
<1>1. CASE call.pc = "only"
  <2>1. Failed = [call EXCEPT !.pc = "restore"]
    BY <1>1 DEF Failed, To
  <2> QED BY <1>1, <2>1 DEF LeadsTo
<1>2. CASE call.pc = "merge"
  <2>1. Failed = [call EXCEPT !.pc = "merging"]
    BY <1>2 DEF Failed, To
  <2> QED BY <1>2, <2>1 DEF LeadsTo
<1>3. CASE call.pc \in {"restore", "intent"}
  <2>1. Failed = [call EXCEPT !.pc = "ended", !.report = "unrestored"]
    BY <1>3 DEF Failed, EndOf
  <2> QED BY <1>3, <2>1 DEF LeadsTo
<1>4. CASE call.pc = "abort"
  <2>1. Failed = [call EXCEPT !.pc = "ended", !.report = "mid-merge"]
    BY <1>4 DEF Failed, EndOf
  <2> QED BY <1>4, <2>1 DEF LeadsTo
<1>5. CASE call.pc \in {"add", "commit", "switch", "push"}
  <2>1. Failed = [call EXCEPT !.pc = "ended", !.report = "failed"]
    BY <1>5 DEF Failed, EndOf
  <2> QED BY <1>5, <2>1 DEF LeadsTo
<1> QED BY <1>1, <1>2, <1>3, <1>4, <1>5 DEF Writes

\* A command that failed, in a call that is out of time or is now.
LEMMA FailsCut ==
    ASSUME GitInv, call.pc \in Writes, scenario' = scenario, Sound(repo'), Grows(repo, repo'),
           call' = [Failed EXCEPT !.cut = TRUE] \/ (call.cut /\ call' = Failed)
    PROVE  GitInv'
<1>1. Working /\ Shape(call) /\ call.cut \in BOOLEAN
  BY GitFacts DEF Working
<1>2. PICK step, report :
        /\ LeadsTo(call, step, report)
        /\ \/ step # "ended" /\ Failed = [call EXCEPT !.pc = step]
           \/ step = "ended" /\ Failed = [call EXCEPT !.pc = step, !.report = report]
  BY <1>1, FailedIs
<1>3. /\ Shape(call') /\ SameCall(call, call') /\ call'.cut = TRUE /\ call'.pc = step
      /\ step = "ended" => call'.report = report
  <2>1. CASE step # "ended" /\ Failed = [call EXCEPT !.pc = step]
    BY <1>1, <2>1 DEF Shape, SameCall, SameTask
  <2>2. CASE step = "ended" /\ Failed = [call EXCEPT !.pc = step, !.report = report]
    BY <1>1, <2>2 DEF Shape, SameCall, SameTask
  <2> QED BY <1>2, <2>1, <2>2
<1> QED BY <1>1, <1>2, <1>3, GoesCut DEF LeadsTo

LEMMA CutKeeps ==
    ASSUME GitInv, Cut
    PROVE  GitInv'
<1>1. /\ call.pc \in Writes /\ scenario' = scenario /\ call' = [Failed EXCEPT !.cut = TRUE]
      /\ Working
  BY DEF Cut, Working
<1>2. Sound(repo) /\ MaxCommits \in Nat
  BY GitFacts
<1>3. PICK r \in {repo} \cup Successes \cup Failures, lock \in BOOLEAN :
        repo' = [r EXCEPT !.lock = @ \/ (lock /\ call.pc # "push")]
  BY DEF Cut
<1>4. Sound(r) /\ Grows(repo, r)
  <2>1. CASE r = repo
    BY <1>2, <2>1, GrowsHolds
  <2>2. CASE r \in Successes
    BY <1>1, <2>2, CommandSound DEF Successes
  <2>3. CASE r \in Failures
    BY <1>1, <2>3, FailureSound
  <2> QED BY <1>3, <2>1, <2>2, <2>3
<1>5. Sound(repo') /\ Grows(r, repo')
  <2>1. PICK held \in BOOLEAN : held = (r.lock \/ (lock /\ call.pc # "push"))
    OBVIOUS
  <2>2. repo' = [r EXCEPT !.lock = held]
    BY <1>2, <1>3, <1>4, <2>1, RepoTyped DEF Repos
  <2> QED BY <1>2, <1>4, <2>2, LockSound
<1>6. Grows(repo, repo')
  BY <1>2, <1>4, <1>5, GrowsOn
<1> QED BY <1>1, <1>5, <1>6, FailsCut

LEMMA SpentKeeps ==
    ASSUME GitInv, Spent
    PROVE  GitInv'
<1>1. /\ call.cut /\ call.pc \in Writes \cup Reads /\ Working /\ Still /\ Shape(call)
      /\ repo' = repo /\ scenario' = scenario /\ Sound(repo') /\ Grows(repo, repo')
      /\ call.cut = TRUE
  BY StillFacts, GitFacts DEF Spent, Working
<1>2. CASE call.pc \in Writes
  <2>1. call' = Failed
    BY <1>2 DEF Spent, Writes
  <2> QED BY <1>1, <1>2, <2>1, FailsCut
<1>3. CASE call.pc \in Reads
  <2>1. PICK step, report :
          /\ \/ step = "restore" /\ call.pc = "recheck" /\ call' = [call EXCEPT !.pc = step]
             \/ /\ step = "ended" /\ call' = [call EXCEPT !.pc = step, !.report = report]
                /\ \/ report = "refused" /\ call.pc = "replan"
                   \/ report \in {"unsure", "failed"}
    BY <1>3 DEF Spent, Reads, Writes, To, EndOf
  <2>2. /\ Shape(call') /\ SameCall(call, call') /\ call'.cut = TRUE /\ call'.pc = step
        /\ step = "ended" => call'.report = report
    BY <1>1, <2>1 DEF Shape, SameCall, SameTask
  <2> QED BY <1>1, <2>1, <2>2, GoesCut
<1> QED BY <1>1, <1>2, <1>3

\* A command that failed at once, or for a reason of its own.
LEMMA CommandFailsKeeps ==
    ASSUME GitInv, CommandFails
    PROVE  GitInv'
<1>1. /\ call.pc \in Writes /\ scenario' = scenario /\ call' = Failed /\ ~call.cut /\ Working
      /\ repo' \in Failures \/ repo' = repo
  BY DEF CommandFails, Working
<1>2. Sound(repo) /\ MaxCommits \in Nat /\ Shape(call)
  BY GitFacts
<1>3. /\ Sound(repo') /\ Grows(repo, repo')
      /\ \/ repo' = repo
         \/ call.pc = "merge" /\ repo' \in MergeStops(repo, repo.refs[call.args.branch])
  BY <1>1, <1>2, FailureSound, GrowsHolds
<1>4. PICK step, report :
        /\ LeadsTo(call, step, report)
        /\ \/ step # "ended" /\ Failed = [call EXCEPT !.pc = step]
           \/ step = "ended" /\ Failed = [call EXCEPT !.pc = step, !.report = report]
  BY <1>1, <1>2, FailedIs
<1>5. CASE step # "ended"
  <2>1. call' = [call EXCEPT !.pc = step] /\ step \in {"restore", "merging"}
    BY <1>1, <1>4, <1>5 DEF LeadsTo
  <2>2. /\ SameCall(call, call') /\ call'.pc = step /\ call'.cut = call.cut
        /\ (ToolInv' /\ StepInv' /\ EndInv' => GitInv') /\ EndInv'
        /\ call.raced => StepInv'
    <3>1. step \in Writes \cup Reads \cup {"ended"}
      BY <2>1 DEF Writes, Reads
    <3>2. PICK same : same = call.report
      OBVIOUS
    <3> QED BY <1>1, <1>3, <1>5, <2>1, <3>1, <3>2, Advance
  <2>3. ToolInv'
    BY <1>1, <1>4, <2>1, <2>2, WorkingFacts DEF GitInv, ToolInv, SameCall, SameTask, LeadsTo
  <2>4. StepInv'
    <3>1. SUFFICES ASSUME ~call.raced PROVE StepInv'
      BY <2>2
    <3>2. CASE step = "restore"
      <4>1. call.pc = "only" /\ repo' = repo
        BY <1>3, <1>4, <3>2 DEF LeadsTo
      <4>2. NotedIn(call.before, call.tree, call.intent) /\ StagedIn(call.before, call.args, repo)
        BY <1>1, <3>1, <4>1 DEF GitInv, StepInv
      <4> QED BY <2>2, <3>2, <4>1, <4>2 DEF StepInv, SameCall, SameTask
    <3>3. CASE step = "merging"
      <4>1. call.pc = "merge"
        BY <1>4, <3>3 DEF LeadsTo
      <4>2. /\ repo = call.before /\ PlanOf(repo, call.args).ok /\ call.args.tool = "merge"
        BY <1>1, <3>1, <4>1 DEF GitInv, StepInv, ToolInv
      <4>3. Tracked(repo) = {} /\ repo.refs[call.args.branch] # 0
        BY <4>2 DEF PlanOf, PlanMerge
      <4>4. \/ Tracked(repo') = {} /\ repo' = call.before
            \/ StoppedIn(call.before, call.args, repo')
        BY <1>3, <4>2, <4>3 DEF StoppedIn
      <4> QED BY <2>2, <3>3, <4>4 DEF StepInv, SameCall, SameTask
    <3> QED BY <2>1, <3>2, <3>3
  <2> QED BY <2>2, <2>3, <2>4
<1>6. CASE step = "ended"
  <2>1. call' = [call EXCEPT !.pc = "ended", !.report = report] /\ repo' = repo
    BY <1>1, <1>3, <1>4, <1>6 DEF LeadsTo
  <2>2. ASSUME ~call.raced, GitTypeOK', SameCall(call, call'), call'.report = report,
               call'.cut = call.cut
        PROVE  EndInv'
    <3>1. call'.before = call.before /\ call'.args = call.args /\ call'.cut = FALSE
      BY <1>1, <2>2, GitFacts DEF SameCall, SameTask
    <3>2. CASE call.pc \in {"add", "commit", "switch", "push"} /\ report = "failed"
      <4>1. repo = call.before
        BY <1>1, <2>2, <3>2 DEF GitInv, StepInv
      <4> QED BY <2>1, <2>2, <3>1, <3>2, <4>1, EndsSame
    <3>3. CASE call.pc = "abort" /\ report = "mid-merge"
      <4>1. call.args.tool = "merge"
        BY <1>1, <3>3 DEF GitInv, ToolInv
      <4>2. Uncommitted' = Changed(call.before)
        BY <3>1, <4>1 DEF Uncommitted
      <4>3. \A f \in Uncommitted' : Untouched(call.before, repo, f)
        BY <1>1, <2>2, <3>3, <4>2, MergeSpares
      <4> QED BY <2>1, <2>2, <3>1, <3>3, <4>3, EndsSparing DEF Untouched
    <3>4. CASE call.pc \in {"restore", "intent"} /\ report = "unrestored"
      <4>1. repo.work = call.before.work
        <5>1. CASE call.pc = "restore"
          <6>1. /\ StagedIn(call.before, call.args, repo) /\ call.args.tool = "commit"
                /\ call.args \in Args /\ Sound(call.before) /\ MaxCommits \in Nat
            BY <1>1, <2>2, <5>1, WorkingFacts, GitFacts DEF GitInv, StepInv, ToolInv
          <6> QED BY <6>1, ArgsTyped, AddFilesDoes DEF StagedIn
        <5>2. CASE call.pc = "intent"
          <6>1. repo = [call.before EXCEPT !.intent = {}] /\ call.before \in Repos
            BY <1>1, <2>2, <5>2, WorkingFacts DEF GitInv, StepInv, Sound
          <6> QED BY <6>1 DEF Repos
        <5> QED BY <3>4, <5>1, <5>2
      <4> QED BY <2>1, <2>2, <3>1, <3>4, <4>1, EndsSparing
    <3> QED BY <1>4, <1>6, <3>2, <3>3, <3>4 DEF LeadsTo
  <2> QED BY <1>1, <1>3, <2>1, <2>2, Ends
<1> QED BY <1>5, <1>6

\* What follows a command that succeeded.
LEMMA SucceededIs ==
    ASSUME call.pc \in Writes
    PROVE  /\ call.pc = "add" => Succeeded = [call EXCEPT !.pc = "recheck"]
           /\ call.pc \in {"commit", "only", "merge"} => Succeeded = [call EXCEPT !.pc = "log"]
           /\ call.pc = "abort" => Succeeded = [call EXCEPT !.pc = "verify"]
           /\ call.pc = "restore" /\ call.intent # {} =>
                Succeeded = [call EXCEPT !.pc = "intent"]
           /\ call.pc = "intent" \/ (call.pc = "restore" /\ call.intent = {}) =>
                Succeeded = [call EXCEPT !.pc = "ended", !.report = "restored"]
           /\ call.pc \in {"switch", "push"} =>
                Succeeded = [call EXCEPT !.pc = "ended", !.report = "done"]
  BY DEF Succeeded, To, EndOf

LEMMA CommandFacts ==
    ASSUME GitInv, Command
    PROVE  /\ call.pc \in Writes /\ Working /\ ~call.cut /\ call.cut = FALSE
           /\ repo' \in Results /\ call' = Succeeded /\ scenario' = scenario
           /\ Sound(repo') /\ Grows(repo, repo')
<1>1. /\ call.pc \in Writes /\ Working /\ ~call.cut
      /\ repo' \in Results /\ call' = Succeeded /\ scenario' = scenario
  BY DEF Command, Successes, Working
<1> QED BY <1>1, CommandSound, GitFacts

\* A call that goes on to its next step.
LEMMA GoesOn ==
    ASSUME GitInv, Command, NEW step \in {"recheck", "log", "verify", "intent"},
           call' = [call EXCEPT !.pc = step],
           ASSUME SameTask(call, call'), call'.tree = call.tree, call'.intent = call.intent,
                  call'.pc = step
           PROVE  ToolInv',
           ASSUME ~call.raced, SameTask(call, call'),
                  call'.tree = call.tree, call'.intent = call.intent, call'.pc = step
           PROVE  StepInv'
    PROVE  GitInv'
<1>1. /\ SameCall(call, call') /\ call'.pc = step
      /\ (ToolInv' /\ StepInv' /\ EndInv' => GitInv') /\ EndInv'
      /\ call.raced => StepInv'
  <2>1. step \in Writes \cup Reads \cup {"ended"} /\ step # "ended"
    BY DEF Writes, Reads
  <2>2. PICK same : same = call.report
    OBVIOUS
  <2>3. Working /\ scenario' = scenario /\ Sound(repo') /\ Grows(repo, repo')
    BY CommandFacts
  <2> QED BY <2>1, <2>2, <2>3, Advance
<1>2. ToolInv' /\ StepInv'
  BY <1>1 DEF SameCall
<1> QED BY <1>1, <1>2

LEMMA AddKeeps ==
    ASSUME GitInv, Command, call.pc = "add"
    PROVE  GitInv'
<1>1. /\ Working /\ ~call.cut /\ repo' \in AddFiles(repo, call.args.files)
      /\ call' = [call EXCEPT !.pc = "recheck"]
  BY CommandFacts, SucceededIs DEF Results
<1>2. ASSUME SameTask(call, call'), call'.tree = call.tree, call'.intent = call.intent,
             call'.pc = "recheck"
      PROVE  ToolInv'
  BY <1>1, <1>2, WorkingFacts DEF GitInv, ToolInv, SameTask
<1>3. ASSUME ~call.raced, SameTask(call, call'),
             call'.tree = call.tree, call'.intent = call.intent, call'.pc = "recheck"
      PROVE  StepInv'
  <2>1. repo = call.before /\ NotedIn(call.before, call.tree, call.intent)
    BY <1>1, <1>3 DEF GitInv, StepInv
  <2>2. StagedIn(call.before, call.args, repo')
    BY <1>1, <2>1 DEF StagedIn
  <2> QED BY <1>3, <2>1, <2>2 DEF StepInv, SameTask
<1> QED BY <1>1, <1>2, <1>3, GoesOn

LEMMA CommitKeeps ==
    ASSUME GitInv, Command, call.pc = "commit"
    PROVE  GitInv'
<1>1. /\ Working /\ ~call.cut /\ repo' \in CommitStaged(repo)
      /\ call' = [call EXCEPT !.pc = "log"]
  BY CommandFacts, SucceededIs DEF Results
<1>2. call.args.tool = "commit" /\ call.args.files = {}
  BY DEF GitInv, ToolInv
<1>3. ASSUME SameTask(call, call'), call'.pc = "log"
      PROVE  ToolInv'
  BY <1>1, <1>2, <1>3, WorkingFacts DEF ToolInv, SameTask
<1>4. ASSUME ~call.raced, SameTask(call, call'), call'.pc = "log"
      PROVE  StepInv'
  <2>1. repo = call.before /\ PlanOf(repo, call.args).ok
    BY <1>1, <1>4 DEF GitInv, StepInv
  <2>2. ~NamesSecret(call.before, {})
    BY <1>2, <2>1 DEF PlanOf, PlanCommit
  <2>3. Made(call.before, call.args, repo')
    BY <1>1, <1>2, <2>1, <2>2 DEF Made
  <2> QED BY <1>4, <2>3 DEF StepInv, SameTask
<1> QED BY <1>1, <1>3, <1>4, GoesOn

LEMMA OnlyKeeps ==
    ASSUME GitInv, Command, call.pc = "only"
    PROVE  GitInv'
<1>1. /\ Working /\ ~call.cut /\ repo' \in CommitOnly(repo, call.args.files)
      /\ call' = [call EXCEPT !.pc = "log"]
  BY CommandFacts, SucceededIs DEF Results
<1>2. call.args.tool = "commit" /\ call.args.files # {}
  BY DEF GitInv, ToolInv
<1>3. ASSUME SameTask(call, call'), call'.pc = "log"
      PROVE  ToolInv'
  BY <1>1, <1>2, <1>3, WorkingFacts DEF ToolInv, SameTask
<1>4. ASSUME ~call.raced, SameTask(call, call'), call'.pc = "log"
      PROVE  StepInv'
  <2>1. repo \in AddFiles(call.before, call.args.files) /\ ~NamesSecret(repo, call.args.files)
    BY <1>1, <1>4 DEF GitInv, StepInv, StagedIn
  <2>2. Made(call.before, call.args, repo')
    BY <1>1, <1>2, <2>1 DEF Made
  <2> QED BY <1>4, <2>2 DEF StepInv, SameTask
<1> QED BY <1>1, <1>3, <1>4, GoesOn

LEMMA MergeKeeps ==
    ASSUME GitInv, Command, call.pc = "merge"
    PROVE  GitInv'
<1>1. /\ Working /\ ~call.cut /\ repo' \in Merge(repo, repo.refs[call.args.branch])
      /\ call' = [call EXCEPT !.pc = "log"]
  BY CommandFacts, SucceededIs DEF Results
<1>2. call.args.tool = "merge" /\ repo.refs[call.args.branch] # 0
  BY DEF GitInv, ToolInv
<1>3. ASSUME SameTask(call, call'), call'.pc = "log"
      PROVE  ToolInv'
  BY <1>1, <1>2, <1>3, WorkingFacts DEF ToolInv, SameTask
<1>4. ASSUME ~call.raced, SameTask(call, call'), call'.pc = "log"
      PROVE  StepInv'
  <2>1. repo = call.before /\ PlanOf(repo, call.args).ok
    BY <1>1, <1>4 DEF GitInv, StepInv
  <2>2. Tracked(call.before) = {}
    BY <1>2, <2>1 DEF PlanOf, PlanMerge
  <2>3. Made(call.before, call.args, repo')
    BY <1>1, <1>2, <2>1, <2>2 DEF Made
  <2> QED BY <1>4, <2>3 DEF StepInv, SameTask
<1> QED BY <1>1, <1>3, <1>4, GoesOn

LEMMA AbortKeeps ==
    ASSUME GitInv, Command, call.pc = "abort"
    PROVE  GitInv'
<1>1. /\ Working /\ ~call.cut /\ repo' \in MergeAbort(repo)
      /\ call' = [call EXCEPT !.pc = "verify"]
  BY CommandFacts, SucceededIs DEF Results
<1>2. call.args.tool = "merge" /\ call.args \in Args
  BY <1>1, WorkingFacts DEF GitInv, ToolInv
<1>3. ASSUME SameTask(call, call'), call'.pc = "verify"
      PROVE  ToolInv'
  BY <1>2, <1>3 DEF ToolInv, SameTask
<1>4. ASSUME ~call.raced, SameTask(call, call'), call'.pc = "verify"
      PROVE  StepInv'
  <2>1. StoppedIn(call.before, call.args, repo) \/ OwnersIn(call.before, repo)
    BY <1>1, <1>4 DEF GitInv, StepInv
  <2>2. Sound(repo) /\ Sound(call.before) /\ MaxCommits \in Nat
    BY <1>1, GitFacts, WorkingFacts
  <2>3. repo' = [call.before EXCEPT !.merging = 0] /\ call.before.intent = {}
    BY <1>1, <1>2, <2>1, <2>2, AbortBack
  <2> QED BY <1>4, <2>3 DEF StepInv, SameTask
<1> QED BY <1>1, <1>3, <1>4, GoesOn

\* The index is read back.
LEMMA RestoreFacts ==
    ASSUME GitInv, Command, call.pc = "restore", ~call.raced
    PROVE  /\ NotedIn(call.before, call.tree, call.intent)
           /\ repo' = [call.before EXCEPT !.intent = {}] /\ repo'.intent = {}
           /\ repo'.work = call.before.work /\ repo'.index = call.before.index
<1>1. /\ Working /\ ~call.cut /\ repo' \in ReadTree(repo, call.tree)
  BY CommandFacts DEF Results
<1>2. /\ call.args.tool = "commit" /\ call.args \in Args
      /\ Sound(call.before) /\ MaxCommits \in Nat
  BY <1>1, WorkingFacts, GitFacts DEF GitInv, ToolInv
<1>3. NotedIn(call.before, call.tree, call.intent) /\ StagedIn(call.before, call.args, repo)
  BY <1>1 DEF GitInv, StepInv
<1>4. call.before.conflicts = {} /\ repo' \in ReadTree(repo, call.before.index)
  BY <1>1, <1>3 DEF NotedIn
<1>5. /\ repo' = [call.before EXCEPT !.intent = {}] /\ repo'.intent = {}
      /\ repo'.work = call.before.work /\ repo'.index = call.before.index
  BY <1>2, <1>3, <1>4, RestoredIs
<1> QED BY <1>3, <1>5

LEMMA RestoreKeeps ==
    ASSUME GitInv, Command, call.pc = "restore"
    PROVE  GitInv'
<1>1. /\ Working /\ ~call.cut /\ call.cut = FALSE /\ scenario' = scenario /\ call' = Succeeded
      /\ Sound(repo') /\ Grows(repo, repo')
  BY CommandFacts
<1>2. CASE call.intent # {}
  <2>1. call' = [call EXCEPT !.pc = "intent"]
    BY <1>1, <1>2, SucceededIs DEF Writes
  <2>2. ASSUME SameTask(call, call'), call'.tree = call.tree, call'.intent = call.intent,
               call'.pc = "intent"
        PROVE  ToolInv'
    BY <1>1, <2>2, WorkingFacts DEF GitInv, ToolInv, SameTask
  <2>3. ASSUME ~call.raced, SameTask(call, call'),
               call'.tree = call.tree, call'.intent = call.intent, call'.pc = "intent"
        PROVE  StepInv'
    <3>1. /\ NotedIn(call.before, call.tree, call.intent)
          /\ repo' = [call.before EXCEPT !.intent = {}]
      BY <2>3, RestoreFacts
    <3> QED BY <2>3, <3>1 DEF StepInv, SameTask
  <2> QED BY <2>1, <2>2, <2>3, GoesOn
<1>3. CASE call.intent = {}
  <2>1. call' = [call EXCEPT !.pc = "ended", !.report = "restored"]
    BY <1>1, <1>3, SucceededIs DEF Writes
  <2>2. ASSUME ~call.raced, GitTypeOK', SameCall(call, call'), call'.report = "restored",
               call'.cut = call.cut
        PROVE  EndInv'
    <3>1. /\ Intent(call.before) = {} /\ repo' = [call.before EXCEPT !.intent = {}]
          /\ repo'.intent = {} /\ repo'.work = call.before.work /\ repo'.index = call.before.index
      BY <1>3, <2>2, RestoreFacts DEF NotedIn
    <3>2. \A f \in Files : Untouched(call.before, repo', f)
      BY <3>1 DEF Untouched, Intent
    <3>3. call'.before = call.before
      BY <2>2 DEF SameCall, SameTask
    <3>4. repo' = [call'.before EXCEPT !.intent = repo'.intent]
      BY <3>1, <3>3
    <3>5. \A f \in Uncommitted' : Untouched(call'.before, repo', f)
      BY <3>2, <3>3 DEF Uncommitted, Changed
    <3> QED BY <1>1, <2>2, <3>4, <3>5, EndsBack
  <2> QED BY <1>1, <2>1, <2>2, Ends
<1> QED BY <1>2, <1>3

LEMMA IntentKeeps ==
    ASSUME GitInv, Command, call.pc = "intent"
    PROVE  GitInv'
<1>1. /\ Working /\ ~call.cut /\ call.cut = FALSE /\ scenario' = scenario
      /\ Sound(repo') /\ Grows(repo, repo') /\ repo' \in AddIntent(repo, call.intent)
      /\ call' = [call EXCEPT !.pc = "ended", !.report = "restored"]
  BY CommandFacts, SucceededIs DEF Results
<1>2. ASSUME ~call.raced, GitTypeOK', SameCall(call, call'), call'.report = "restored",
             call'.cut = call.cut
      PROVE  EndInv'
  <2>1. /\ call.intent = Intent(call.before) /\ repo = [call.before EXCEPT !.intent = {}]
        /\ Sound(call.before) /\ MaxCommits \in Nat
    BY <1>1, <1>2, WorkingFacts, GitFacts DEF GitInv, StepInv, NotedIn
  <2>2. repo' \in AddIntent(repo, Intent(call.before))
    BY <1>1, <2>1
  <2>3. /\ repo' = [call.before EXCEPT !.intent = repo'.intent]
        /\ \A f \in Files : Untouched(call.before, repo', f)
    BY <2>1, <2>2, IntentBack
  <2>4. call'.before = call.before
    BY <1>2 DEF SameCall, SameTask
  <2>5. \A f \in Uncommitted' : Untouched(call'.before, repo', f)
    BY <2>3, <2>4 DEF Uncommitted, Changed
  <2> QED BY <1>1, <1>2, <2>3, <2>4, <2>5, EndsBack
<1> QED BY <1>1, <1>2, Ends

\* A switch and a push are their one command.
LEMMA SwitchPushKeeps ==
    ASSUME GitInv, Command, call.pc \in {"switch", "push"}
    PROVE  GitInv'
<1>1. /\ Working /\ ~call.cut /\ call.cut = FALSE /\ scenario' = scenario
      /\ Sound(repo') /\ Grows(repo, repo') /\ repo' \in Results
      /\ call' = [call EXCEPT !.pc = "ended", !.report = "done"]
  BY CommandFacts, SucceededIs
<1>2. ASSUME ~call.raced, ~call.returned, GitTypeOK', SameCall(call, call'),
             call'.report = "done", call'.cut = call.cut
      PROVE  EndInv'
  <2>1. repo = call.before /\ call.args.tool = call.pc
    BY <1>1, <1>2 DEF GitInv, StepInv, ToolInv
  <2>2. Made(call.before, call.args, repo')
    BY <1>1, <2>1 DEF Made, Results
  <2> QED BY <1>1, <1>2, <2>2, EndsMade
<1> QED BY <1>1, <1>2, Ends

LEMMA CommandKeeps ==
    ASSUME GitInv, Command
    PROVE  GitInv'
  BY AddKeeps, CommitKeeps, OnlyKeeps, MergeKeeps, AbortKeeps, RestoreKeeps, IntentKeeps,
     SwitchPushKeeps DEF Command, Writes

-----------------------------------------------------------------------------
(* The card and its approval, and the others.                              *)

\* A call that has not begun to write.
LEMMA Begins ==
    ASSUME GitInv, scenario' = scenario, repo' = repo, Shape(call'),
           call'.cut = FALSE, call'.raced = FALSE, call'.returned \in BOOLEAN
    PROVE  /\ call'.pc = "planning" /\ call'.args \in Args => GitInv'
           /\ call'.pc = "idle" => GitInv'
           /\ call'.pc = "card" /\ call'.args \in Args /\ CardInv' => GitInv'
           /\ call'.pc = "ended" /\ call'.report \in {"refused", "changed"}
                /\ repo = call'.before => GitInv'
<1>1. GitConstants' /\ scenario' \in Scenarios' /\ Sound(repo')
  BY DEF GitInv, GitTypeOK, GitConstants
<1>2. ASSUME call'.pc \in {"planning", "idle", "card"},
             call'.pc # "idle" => call'.args \in Args, call'.pc = "card" => CardInv'
      PROVE  GitInv'
  <2>1. GitTypeOK' /\ QuietInv'
    BY <1>1, <1>2 DEF GitTypeOK, CallSteps, QuietInv, Under
  <2>2. CardInv' /\ ApprovedInv'
    BY <1>2 DEF CardInv, ApprovedInv, Working, Writes, Reads
  <2>3. ToolInv' /\ StepInv'
    BY <1>2 DEF ToolInv, StepInv, Working, Writes, Reads
  <2>4. EndInv'
    BY <1>2, <2>1, NotOver
  <2> QED BY <1>1, <2>1, <2>2, <2>3, <2>4 DEF GitInv
<1>3. ASSUME call'.pc = "ended", call'.report \in {"refused", "changed"}, repo = call'.before
      PROVE  GitInv'
  <2>1. GitTypeOK' /\ QuietInv'
    BY <1>1, <1>3 DEF GitTypeOK, CallSteps, QuietInv, Under
  <2>2. CardInv' /\ ApprovedInv'
    BY <1>3 DEF CardInv, ApprovedInv, Working, Writes, Reads
  <2>3. ToolInv' /\ StepInv'
    BY <1>3 DEF ToolInv, StepInv, Working, Writes, Reads
  <2>4. EndInv'
    BY <1>3, <2>1, EndsSame
  <2> QED BY <1>1, <2>1, <2>2, <2>3, <2>4 DEF GitInv
<1> QED BY <1>2, <1>3

LEMMA ShowCardKeeps ==
    ASSUME GitInv, NEW args \in scenario.args, ShowCard(args)
    PROVE  GitInv'
<1>1. scenario' = scenario /\ repo' = repo
  BY DEF ShowCard
<1>2. args \in Args
  BY DEF GitInv, GitConstants
<1>3. CASE call' = [NoCall EXCEPT !.pc = "planning", !.args = args, !.print = Fingerprint(repo)]
  <2>1. /\ Shape(call') /\ call'.cut = FALSE /\ call'.raced = FALSE /\ call'.returned = FALSE
        /\ call'.pc = "planning" /\ call'.args = args
    BY <1>3 DEF NoCall, Shape
  <2> QED BY <1>1, <1>2, <2>1, Begins
<1>4. CASE call' = [NoCall EXCEPT !.pc = "ended", !.report = "refused", !.before = repo,
                                  !.args = args]
  <2>1. /\ Shape(call') /\ call'.cut = FALSE /\ call'.raced = FALSE /\ call'.returned = FALSE
        /\ call'.pc = "ended" /\ call'.report = "refused" /\ call'.before = repo
    BY <1>4 DEF NoCall, Shape
  <2> QED BY <1>1, <2>1, Begins
<1> QED BY <1>3, <1>4 DEF ShowCard

LEMMA PreviewKeeps ==
    ASSUME GitInv, Preview
    PROVE  GitInv'
<1>1. /\ call.pc = "planning" /\ scenario' = scenario /\ repo' = repo
      /\ Sound(repo) /\ Grows(repo, repo) /\ Shape(call)
  BY GitFacts, GrowsHolds DEF Preview, Still
<1>2. call.args \in Args /\ call.cut = FALSE /\ call.raced = FALSE /\ call.returned \in BOOLEAN
  BY <1>1, GitFacts DEF GitInv, ToolInv, QuietInv, Under
<1>3. CASE /\ PlanOf(repo, call.args).ok
           /\ call' = [call EXCEPT !.pc = "card", !.plan = PlanOf(repo, call.args), !.shown = repo]
  <2>1. /\ Shape(call') /\ call'.cut = FALSE /\ call'.raced = FALSE
        /\ call'.returned = call.returned /\ call'.pc = "card" /\ call'.args = call.args
        /\ call'.plan = PlanOf(repo, call.args) /\ call'.shown = repo
    BY <1>1, <1>2, <1>3 DEF Shape
  <2>2. CardInv'
    BY <1>1, <1>3, <2>1 DEF CardInv
  <2> QED BY <1>1, <1>2, <2>1, <2>2, Begins
<1>4. CASE call' = [call EXCEPT !.pc = "ended", !.report = "refused", !.before = repo]
  <2>1. /\ Shape(call') /\ call'.cut = FALSE /\ call'.raced = FALSE
        /\ call'.returned = call.returned /\ call'.pc = "ended" /\ call'.report = "refused"
        /\ call'.before = repo
    BY <1>1, <1>2, <1>4 DEF Shape
  <2> QED BY <1>1, <1>2, <2>1, Begins
<1> QED BY <1>3, <1>4 DEF Preview

LEMMA DenyKeeps ==
    ASSUME GitInv, Deny
    PROVE  GitInv'
<1>1. scenario' = scenario /\ repo' = repo
  BY DEF Deny, Still
<1>2. /\ Shape(call') /\ call'.cut = FALSE /\ call'.raced = FALSE /\ call'.returned = FALSE
      /\ call'.pc = "idle"
  BY DEF Deny, NoCall, Shape
<1> QED BY <1>1, <1>2, Begins

LEMMA ApprovedKeeps ==
    ASSUME GitInv, Approved
    PROVE  GitInv'
<1>1. /\ call.pc = "card" /\ scenario' = scenario /\ repo' = repo
      /\ Sound(repo) /\ Grows(repo, repo) /\ Shape(call)
  BY GitFacts, GrowsHolds DEF Approved, Still
<1>2. call.args \in Args /\ call.cut = FALSE /\ call.raced = FALSE /\ call.returned \in BOOLEAN
  BY <1>1, GitFacts DEF GitInv, ToolInv, QuietInv, Under
<1>3. CASE /\ Unfiltered(repo) /\ Fingerprint(repo) = call.print
           /\ call' = [call EXCEPT !.pc = "replan", !.before = repo]
  <2>1. /\ Shape(call') /\ call'.cut = FALSE /\ call'.raced = FALSE
        /\ call'.returned = call.returned /\ call'.pc = "replan" /\ call'.args = call.args
        /\ call'.plan = call.plan /\ call'.shown = call.shown /\ call'.before = repo
    BY <1>1, <1>2, <1>3 DEF Shape
  <2>2. GitConstants' /\ scenario' \in Scenarios' /\ Sound(repo')
    BY <1>1 DEF GitInv, GitTypeOK, GitConstants
  <2>3. GitTypeOK' /\ QuietInv' /\ CardInv'
    BY <1>2, <2>1, <2>2 DEF GitTypeOK, CallSteps, Reads, QuietInv, Under, CardInv
  <2>4. /\ Sound(call.shown) /\ Grows(call.shown, repo)
        /\ call.plan = PlanOf(call.shown, call.args) /\ call.plan.ok
        /\ ~call.returned => /\ Fingerprint(call.shown) = Fingerprint(repo)
                             /\ call.shown.merging = repo.merging
    BY <1>1, <1>3 DEF GitInv, CardInv
  <2>5. ApprovedInv'
    BY <1>1, <1>3, <2>1, <2>4 DEF ApprovedInv, Unfiltered
  <2>6. ToolInv' /\ StepInv'
    BY <1>1, <1>2, <2>1 DEF ToolInv, StepInv
  <2>7. EndInv'
    BY <2>1, <2>3, NotOver
  <2> QED BY <2>1, <2>2, <2>3, <2>5, <2>6, <2>7 DEF GitInv
<1>4. CASE call' = [call EXCEPT !.pc = "ended", !.report = "changed", !.before = repo]
  <2>1. /\ Shape(call') /\ call'.cut = FALSE /\ call'.raced = FALSE
        /\ call'.returned = call.returned /\ call'.pc = "ended" /\ call'.report = "changed"
        /\ call'.before = repo
    BY <1>1, <1>2, <1>4 DEF Shape
  <2> QED BY <1>1, <1>2, <2>1, Begins
<1> QED BY <1>3, <1>4 DEF Approved

\* Somebody else wrote: what the card and the approval found is as it was found.
LEMMA OthersKeeps ==
    ASSUME GitInv, Others
    PROVE  GitInv'
<1>1. /\ scenario' = scenario /\ repo' \in Elsewhere(repo) /\ Sound(repo) /\ MaxCommits \in Nat
      /\ Shape(call) /\ call.pc \in CallSteps /\ call.cut \in BOOLEAN
      /\ call.raced \in BOOLEAN /\ call.returned \in BOOLEAN
  BY GitFacts DEF Others
<1>2. /\ Sound(repo') /\ Grows(repo, repo')
      /\ \A b \in Branches : repo.refs[b] # 0 => repo'.refs[b] # 0
      /\ repo'.merging = repo.merging \/ Fingerprint(repo') # Fingerprint(repo)
  BY <1>1, ElsewhereDoes DEF Outside
<1>3. PICK raced \in BOOLEAN, returned \in BOOLEAN :
        /\ raced = (call.raced \/ ~Under)
        /\ returned = (call.returned \/ (/\ Under /\ Fingerprint(repo) # call.print
                                         /\ Fingerprint(repo') = call.print))
        /\ call' = [call EXCEPT !.raced = raced, !.returned = returned]
  <2>1. call' = [call EXCEPT !.raced = call.raced \/ ~Under,
                             !.returned = call.returned \/
                                (/\ Under /\ Fingerprint(repo) # call.print
                                 /\ Fingerprint(repo') = call.print)]
    BY <1>1 DEF Others, Shape
  <2> QED BY <2>1
<1>4. /\ Shape(call') /\ call'.pc = call.pc /\ call'.args = call.args /\ call'.print = call.print
      /\ call'.plan = call.plan /\ call'.tree = call.tree /\ call'.intent = call.intent
      /\ call'.cut = call.cut /\ call'.report = call.report /\ call'.shown = call.shown
      /\ call'.before = call.before /\ call'.raced = raced /\ call'.returned = returned
  BY <1>1, <1>3 DEF Shape
<1>5. GitConstants' /\ scenario' \in Scenarios'
  BY <1>1 DEF GitInv, GitConstants
<1>6. GitTypeOK'
  BY <1>1, <1>2, <1>4 DEF GitTypeOK
<1>7. QuietInv'
  BY <1>3, <1>4 DEF GitInv, QuietInv, Under
<1>8. CardInv'
  <2>1. SUFFICES ASSUME call.pc = "card" PROVE CardInv'
    BY <1>4 DEF CardInv
  <2>2. /\ Sound(call.shown) /\ Grows(call.shown, repo)
        /\ call.plan = PlanOf(call.shown, call.args) /\ call.plan.ok
        /\ ~call.returned /\ Fingerprint(repo) = call.print =>
              /\ Fingerprint(call.shown) = call.print
              /\ call.shown.merging = repo.merging
    BY <2>1 DEF GitInv, CardInv
  <2>3. Grows(call.shown, repo')
    BY <1>1, <1>2, <2>2, GrowsOn
  <2>4. ASSUME ~returned, Fingerprint(repo') = call.print
        PROVE  Fingerprint(call.shown) = call.print /\ call.shown.merging = repo'.merging
    <3>1. ~call.returned /\ Fingerprint(repo) = call.print
      BY <1>3, <2>1, <2>4 DEF Under
    <3> QED BY <1>2, <2>2, <2>4, <3>1
  <2> QED BY <1>4, <2>2, <2>3, <2>4 DEF CardInv
<1>9. ApprovedInv'
  <2>1. SUFFICES ASSUME Working \/ (call.pc = "ended" /\ call.report = "done")
                 PROVE  ApprovedInv'
    BY <1>4 DEF ApprovedInv, Working
  <2>2. /\ Sound(call.shown) /\ Grows(call.shown, call.before)
        /\ Sound(call.before) /\ Grows(call.before, repo) /\ Verified(call.before)
        /\ call.plan = PlanOf(call.shown, call.args) /\ call.plan.ok
        /\ ~call.returned =>
              /\ Fingerprint(call.shown) = Fingerprint(call.before)
              /\ call.shown.merging = call.before.merging
    BY <2>1 DEF GitInv, ApprovedInv
  <2>3. Grows(call.before, repo')
    BY <1>1, <1>2, <2>2, GrowsOn
  <2> QED BY <1>3, <1>4, <2>2, <2>3 DEF ApprovedInv
<1>10. ToolInv'
  <2>1. call.pc = "merge" => repo'.refs[call.args.branch] # 0
    <3>1. SUFFICES ASSUME call.pc = "merge" PROVE repo'.refs[call.args.branch] # 0
      OBVIOUS
    <3>2. call.args \in Args /\ call.args.tool = "merge" /\ repo.refs[call.args.branch] # 0
      BY <3>1 DEF GitInv, ToolInv, Working, Writes
    <3> QED BY <1>2, <3>2, ArgsTyped
  <2> QED BY <1>4, <2>1 DEF GitInv, ToolInv, Working
<1>11. StepInv'
  BY <1>3, <1>4 DEF StepInv, Working, Under, Writes, Reads
<1>12. EndInv'
  BY <1>3, <1>4, <1>6, NotOver DEF Under
<1> QED BY <1>4, <1>5, <1>6, <1>7, <1>8, <1>9, <1>10, <1>11, <1>12 DEF GitInv

-----------------------------------------------------------------------------

LEMMA GitInvInit == GitInit => GitInv
<1> SUFFICES ASSUME GitInit PROVE GitInv
  OBVIOUS
<1>1. /\ GitConstants /\ scenario \in Scenarios /\ Sound(repo)
  BY GitAssumption DEF GitInit, GitConstants
<1>2. /\ Shape(call) /\ call.pc = "idle"
      /\ call.cut = FALSE /\ call.raced = FALSE /\ call.returned = FALSE
  BY DEF GitInit, NoCall, Shape
<1>3. GitTypeOK
  BY <1>1, <1>2 DEF GitTypeOK, CallSteps
<1>4. QuietInv /\ CardInv /\ ApprovedInv
  BY <1>2 DEF QuietInv, Under, CardInv, ApprovedInv, Working, Writes, Reads
<1>5. ToolInv /\ StepInv
  BY <1>2 DEF ToolInv, StepInv, Working, Writes, Reads
<1>6. EndInv
  BY <1>2, <1>3 DEF EndInv, AsShown, ReportsAreTrue, Undisturbed
<1> QED BY <1>1, <1>2, <1>3, <1>4, <1>5, <1>6 DEF GitInv

LEMMA GitInvNext == GitInv /\ [GitNext]_gitVars => GitInv'
<1> SUFFICES ASSUME GitInv, [GitNext]_gitVars PROVE GitInv'
  OBVIOUS
<1>1. ASSUME NEW args \in scenario.args, ShowCard(args) PROVE GitInv'
  BY <1>1, ShowCardKeeps
<1>2. CASE Approved
  BY <1>2, ApprovedKeeps
<1>3. CASE Deny
  BY <1>3, DenyKeeps
<1>4. CASE Step
  BY <1>4, PreviewKeeps, ReplanKeeps, RecheckKeeps, MergingKeeps, VerifyKeeps, LogKeeps,
     SpentKeeps DEF Step
<1>5. CASE Command
  BY <1>5, CommandKeeps
<1>6. CASE CommandFails
  BY <1>6, CommandFailsKeeps
<1>7. CASE Cut
  BY <1>7, CutKeeps
<1>8. CASE Expire
  BY <1>8, ExpireKeeps
<1>9. CASE Others
  BY <1>9, OthersKeeps
<1>10. CASE UNCHANGED gitVars
  <2>1. scenario' = scenario /\ repo' = repo /\ call' = call
    BY <1>10 DEF gitVars
  <2>2. (GitConstants /\ scenario \in Scenarios /\ GitTypeOK /\ Shape(call))'
    BY <2>1 DEF GitInv, GitConstants, GitTypeOK
  <2>3. QuietInv' /\ CardInv' /\ ApprovedInv'
    BY <2>1 DEF GitInv, QuietInv, Under, CardInv, ApprovedInv, Working
  <2>4. ToolInv' /\ StepInv'
    BY <2>1 DEF GitInv, ToolInv, StepInv, Working
  <2>5. EndInv'
    <3>1. EndInv
      BY DEF GitInv
    <3>2. /\ Undisturbed' = Undisturbed /\ Taken' = Taken /\ Uncommitted' = Uncommitted
          /\ \A f : NewSecret(f)' = NewSecret(f)
      BY <2>1 DEF Undisturbed, Taken, Uncommitted, NewSecret
    <3>3. AsShown'
      BY <2>1, <2>2, <3>1, <3>2 DEF EndInv, AsShown
    <3>4. ReportsAreTrue'
      BY <2>1, <3>1, <3>2 DEF EndInv, ReportsAreTrue
    <3> QED BY <3>3, <3>4 DEF EndInv
  <2> QED BY <2>2, <2>3, <2>4, <2>5 DEF GitInv
<1> QED BY <1>1, <1>2, <1>3, <1>4, <1>5, <1>6, <1>7, <1>8, <1>9, <1>10 DEF GitNext

\* The inductive invariant of the git tools that write holds.
THEOREM GitHolds == GitSpec => []GitInv
  BY GitInvInit, GitInvNext, PTL DEF GitSpec

\* What a call reports as done is what its card showed.
THEOREM DoneAsShown == GitSpec => []AsShown
<1>1. GitInv => AsShown
  BY DEF GitInv, EndInv
<1> QED BY <1>1, GitHolds, PTL

\* Uncommitted work survives, and the reports that nothing changed are true.
THEOREM ReportsHold == GitSpec => []ReportsAreTrue
<1>1. GitInv => ReportsAreTrue
  BY DEF GitInv, EndInv
<1> QED BY <1>1, GitHolds, PTL
=============================================================================
