----------------------------- MODULE RunLifecycle -----------------------------
(***************************************************************************)
(* One governed task between its approval and the outcome of its runs:     *)
(* worker.rs, run_boundary.rs and the recovery of tasks.rs.                *)
(*                                                                         *)
(* Several Alfredo processes share a mission.  In each, an actor is a      *)
(* worker (start_checked) or a /recover; the worker runs its approved check*)
(* in a blocking closure of its own.  They meet in the task store, in the  *)
(* task's owner lock and in the artifacts of a run, every one created      *)
(* exclusively and then written and synced.  A process may die at any step *)
(* and an I/O operation may fail; Quit drops the worker at an await while  *)
(* its closure still runs.                                                 *)
(***************************************************************************)
EXTENDS Naturals

CONSTANTS
    Procs,          \* the processes that may work on the task
    Nobody,         \* the holder of a free lock
    MaxRuns,        \* bound on the runs of the task
    Scenarios       \* bounds of an execution, one chosen at the start

ASSUME ProcsAssumption == Nobody \notin Procs

\* Bounds on the runs, on process deaths and on exits with a live worker.
ASSUME LimitsAssumption ==
    /\ MaxRuns \in Nat \ {0}
    /\ \A s \in Scenarios : s \in [runs : 1..MaxRuns, crashes : Nat, quits : Nat]

Runs == 1..MaxRuns

Results == {"ReviewReady", "Failed", "Cancelled"}

\* What the provider may report of a launched check.  "cancelled" stands for
\* every other terminal receipt of an effect that started.
Reports == {"completed", "failed", "cancelled", "outcome-unknown"}

Receipts == Reports \cup {"start-failed"}

\* An artifact: absent, being written, whole.
Writing == {"absent", "partial", "whole"}

\* The result of a run, by the worker or by a recovery before or after the check.
Proof == {"none", "worker", "before", "after"}

VARIABLES
    task,       \* the task in the store: its status and its latest run
    finished,   \* the Finish receipt of each run: its status or "none"
    owner,      \* the holder of worker-<task>.lock
    directory,  \* the runs whose directory exists
    boundary, intent, result, evidence,     \* the artifacts of each run
    launches,   \* how often each run's check was started
    actor,      \* what a process is doing: worker or recovery step, run, outcome
    check,      \* the blocking closure of a process
    cancel,     \* whether a process's worker was told to stop
    limit,      \* the scenario
    crashes, quits,
    orphans     \* ghost: runs whose check an exit left to its closure unlaunched

artifacts == <<directory, boundary, intent, result, evidence>>
faults == <<limit, crashes, quits, orphans>>
vars == <<task, finished, owner, artifacts, launches, actor, check, cancel, faults>>

Idle == [at |-> "idle", run |-> 0, outcome |-> "none"]
NoCheck == [at |-> "none", run |-> 0, report |-> "none"]

WorkerSteps ==
    {"preparing", "outdated", "claimed", "entered", "marking", "performing", "editing",
     "awaiting", "saving", "sealing", "publishing"}
RecoverySteps ==
    {"inspecting", "provingBefore", "provingAfter", "savingBefore", "savingAfter",
     "sealingRecovery", "submitting"}
CheckSteps ==
    {"none", "verifying", "intending", "recordingIntent", "launching", "running",
     "reporting", "recordingResult", "returned", "error"}

Task == [status : {"Approved", "Running"} \cup Results, run : 0..MaxRuns]
Result == [state : Writing, receipt : Receipts \cup {"none"}]
Evidence == [state : Writing, status : Results \cup {"none"}, by : Proof]
Actor == [at : {"idle"} \cup WorkerSteps \cup RecoverySteps, run : 0..MaxRuns,
          outcome : {"none", "ok", "failed"}]
Check == [at : CheckSteps, run : 0..MaxRuns, report : Receipts \cup {"none"}]

TypeOK ==
    /\ task \in Task
    /\ finished \in [Runs -> Results \cup {"none"}]
    /\ owner \in Procs \cup {Nobody}
    /\ directory \in SUBSET Runs
    /\ boundary \in [Runs -> Writing] /\ intent \in [Runs -> Writing]
    /\ result \in [Runs -> Result] /\ evidence \in [Runs -> Evidence]
    /\ launches \in [Runs -> Nat]
    /\ actor \in [Procs -> Actor]
    /\ check \in [Procs -> Check]
    /\ cancel \in [Procs -> BOOLEAN]
    /\ limit \in Scenarios /\ orphans \subseteq Runs
    /\ crashes \in 0..limit.crashes /\ quits \in 0..limit.quits

Absent == [state |-> "absent", receipt |-> "none"]
NoEvidence == [state |-> "absent", status |-> "none", by |-> "none"]

Init ==
    /\ task = [status |-> "Approved", run |-> 0]
    /\ finished = [r \in Runs |-> "none"]
    /\ owner = Nobody
    /\ directory = {}
    /\ boundary = [r \in Runs |-> "absent"]
    /\ intent = [r \in Runs |-> "absent"]
    /\ result = [r \in Runs |-> Absent]
    /\ evidence = [r \in Runs |-> NoEvidence]
    /\ launches = [r \in Runs |-> 0]
    /\ actor = [p \in Procs |-> Idle]
    /\ check = [p \in Procs |-> NoCheck]
    /\ cancel = [p \in Procs |-> FALSE]
    /\ limit \in Scenarios
    /\ crashes = 0 /\ quits = 0 /\ orphans = {}

-----------------------------------------------------------------------------
(* The actor of a process moves on, or stops and releases the owner lock. *)

At(p, step) == actor[p].at = step

Goto(p, step) == actor' = [actor EXCEPT ![p].at = step]

Stop(p) ==
    /\ actor' = [actor EXCEPT ![p] = Idle]
    /\ owner' = IF owner = p THEN Nobody ELSE owner

\* Another transaction moves the revision on, so that a worker still preparing
\* will have its Start refused.
Outdate ==
    actor' = [p \in Procs |-> IF At(p, "preparing")
                              THEN [actor[p] EXCEPT !.at = "outdated"] ELSE actor[p]]

\* The run is still the task's running one.
Claimed(r) == task.status = "Running" /\ task.run = r

\* The Finish transaction, refused unless the run is the running one.
FinishReceipt(r) ==
    /\ Claimed(r)
    /\ task' = [task EXCEPT !.status = evidence[r].status]
    /\ finished' = [finished EXCEPT ![r] = evidence[r].status]

-----------------------------------------------------------------------------
(* The worker: worker.rs, start_checked and perform. *)

\* Only an approved task gets a worker owner.
ClaimWorker(p) ==
    /\ actor[p] = Idle /\ check[p] = NoCheck
    /\ owner = Nobody /\ task.status = "Approved" /\ task.run < limit.runs
    /\ owner' = p
    /\ Goto(p, "preparing")
    /\ cancel' = [cancel EXCEPT ![p] = FALSE]
    /\ UNCHANGED <<task, finished, artifacts, launches, check, faults>>

\* Preparation fails or is cancelled, or Start is refused (a stale revision,
\* a busy store, a task that is no longer approved): nothing is claimed.
AbandonPreparation(p) ==
    /\ actor[p].at \in {"preparing", "outdated"}
    /\ Stop(p)
    /\ UNCHANGED <<task, finished, artifacts, launches, check, cancel, faults>>

Start(p) ==
    /\ At(p, "preparing")
    /\ task.status = "Approved"
    /\ task' = [status |-> "Running", run |-> task.run + 1]
    /\ actor' = [actor EXCEPT ![p] = [at |-> "claimed", run |-> task.run + 1,
                                      outcome |-> "none"]]
    /\ UNCHANGED <<finished, owner, artifacts, launches, check, cancel, faults>>

CreateDirectory(p) ==
    /\ At(p, "claimed")
    /\ actor[p].run \notin directory
    /\ directory' = directory \cup {actor[p].run}
    /\ Goto(p, "entered")
    /\ UNCHANGED <<task, finished, owner, boundary, intent, result, evidence,
                   launches, check, cancel, faults>>

CreateBoundary(p) ==
    /\ At(p, "entered")
    /\ boundary[actor[p].run] = "absent"
    /\ boundary' = [boundary EXCEPT ![actor[p].run] = "partial"]
    /\ Goto(p, "marking")
    /\ UNCHANGED <<task, finished, owner, directory, intent, result, evidence,
                   launches, check, cancel, faults>>

SyncBoundary(p) ==
    /\ At(p, "marking")
    /\ boundary' = [boundary EXCEPT ![actor[p].run] = "whole"]
    /\ Goto(p, "performing")
    /\ UNCHANGED <<task, finished, owner, directory, intent, result, evidence,
                   launches, check, cancel, faults>>

\* An artifact cannot be written, or the receipt is not confirmed after its 32
\* attempts: the worker gives up and leaves the run as it is.
GiveUp(p) ==
    /\ actor[p].at \in {"claimed", "entered", "marking", "saving", "sealing", "publishing"}
    /\ Stop(p)
    /\ UNCHANGED <<task, finished, artifacts, launches, check, cancel, faults>>

\* Inference is admitted only for the run as it was claimed.
Admit(p) ==
    /\ At(p, "performing")
    /\ Claimed(actor[p].run) /\ ~cancel[p]
    /\ Goto(p, "editing")
    /\ UNCHANGED <<task, finished, owner, artifacts, launches, check, cancel, faults>>

\* Inference, the answer or the edits fail, or the worker was told to stop.
FailEarly(p) ==
    /\ actor[p].at \in {"performing", "editing"}
    /\ actor' = [actor EXCEPT ![p].at = "saving", ![p].outcome = "failed"]
    /\ UNCHANGED <<task, finished, owner, artifacts, launches, check, cancel, faults>>

SpawnCheck(p) ==
    /\ At(p, "editing")
    /\ check' = [check EXCEPT ![p] = [at |-> "verifying", run |-> actor[p].run,
                                      report |-> "none"]]
    /\ Goto(p, "awaiting")
    /\ UNCHANGED <<task, finished, owner, artifacts, launches, cancel, faults>>

\* Fault: any receipt counts as a passed check.
AwaitAnyReceipt(p) ==
    /\ At(p, "awaiting") /\ check[p].at \in {"returned", "error"}
    /\ \E outcome \in {"ok", "failed"} :
          /\ outcome = "ok" => check[p].at = "returned" /\ ~cancel[p]
          /\ actor' = [actor EXCEPT ![p].at = "saving", ![p].outcome = outcome]
    /\ check' = [check EXCEPT ![p] = NoCheck]
    /\ UNCHANGED <<task, finished, owner, artifacts, launches, cancel, faults>>

\* Fault: the worker waits for a receipt and misses the closure's error.
AwaitReceipt(p) ==
    /\ At(p, "awaiting") /\ check[p].at = "returned"
    /\ actor' = [actor EXCEPT ![p].at = "saving",
                     ![p].outcome = IF check[p].report = "completed" THEN "ok" ELSE "failed"]
    /\ check' = [check EXCEPT ![p] = NoCheck]
    /\ UNCHANGED <<task, finished, owner, artifacts, launches, cancel, faults>>

\* The closure came back; a passed check may still have changed other files.
AwaitCheck(p) ==
    /\ At(p, "awaiting") /\ check[p].at \in {"returned", "error"}
    /\ \E outcome \in {"ok", "failed"} :
          /\ outcome = "ok" => /\ check[p].at = "returned"
                               /\ check[p].report = "completed"
                               /\ ~cancel[p]
          /\ actor' = [actor EXCEPT ![p].at = "saving", ![p].outcome = outcome]
    /\ check' = [check EXCEPT ![p] = NoCheck]
    /\ UNCHANGED <<task, finished, owner, artifacts, launches, cancel, faults>>

\* Fault: the receipt's own status is saved as the run's.
ReceiptStatuses(p) == {result[actor[p].run].receipt}

\* A failure is a cancellation if the worker was told to stop; work that passed
\* still fails without a diff or a candidate snapshot.
WorkerStatuses(p) ==
    IF actor[p].outcome = "ok" THEN {"ReviewReady", "Failed"}
    ELSE IF cancel[p] THEN {"Cancelled"} ELSE {"Failed"}

CreateEvidence(p) ==
    /\ At(p, "saving")
    /\ evidence[actor[p].run].state = "absent"
    /\ \E status \in WorkerStatuses(p) :
          evidence' = [evidence EXCEPT ![actor[p].run] =
                          [state |-> "partial", status |-> status, by |-> "worker"]]
    /\ Goto(p, "sealing")
    /\ UNCHANGED <<task, finished, owner, directory, boundary, intent, result,
                   launches, check, cancel, faults>>

SyncEvidence(p) ==
    /\ At(p, "sealing")
    /\ evidence' = [evidence EXCEPT ![actor[p].run].state = "whole"]
    /\ Goto(p, "publishing")
    /\ UNCHANGED <<task, finished, owner, directory, boundary, intent, result,
                   launches, check, cancel, faults>>

Publish(p) ==
    /\ At(p, "publishing")
    /\ FinishReceipt(actor[p].run)
    /\ Stop(p)
    /\ UNCHANGED <<artifacts, launches, check, cancel, faults>>

-----------------------------------------------------------------------------
(* The check: run_boundary.rs, execute_check_classified in its closure. *)

CheckAt(p, step) == check[p].at = step

CheckGoto(p, step) == check' = [check EXCEPT ![p].at = step]

\* The launch intent is still to be written.
VerifyStart(p) ==
    /\ CheckAt(p, "verifying")
    /\ boundary[check[p].run] = "whole"
    /\ evidence[check[p].run].state = "absent"
    /\ result[check[p].run].state = "absent"
    /\ CheckGoto(p, "intending")
    /\ UNCHANGED <<task, finished, owner, artifacts, launches, actor, cancel, faults>>

CreateIntent(p) ==
    /\ CheckAt(p, "intending")
    /\ intent[check[p].run] = "absent"
    /\ intent' = [intent EXCEPT ![check[p].run] = "partial"]
    /\ CheckGoto(p, "recordingIntent")
    /\ UNCHANGED <<task, finished, owner, directory, boundary, result, evidence,
                   launches, actor, cancel, faults>>

SyncIntent(p) ==
    /\ CheckAt(p, "recordingIntent")
    /\ intent' = [intent EXCEPT ![check[p].run] = "whole"]
    /\ CheckGoto(p, "launching")
    /\ UNCHANGED <<task, finished, owner, directory, boundary, result, evidence,
                   launches, actor, cancel, faults>>

\* The request is refused, an artifact exists already or cannot be written, or
\* the receipt does not verify: the closure returns an error.
FailCheck(p) ==
    /\ check[p].at \in {"verifying", "intending", "recordingIntent", "launching",
                        "reporting", "recordingResult"}
    /\ CheckGoto(p, "error")
    /\ UNCHANGED <<task, finished, owner, artifacts, launches, actor, cancel, faults>>

\* Fault: the check starts while its intent is still being synced.
EarlyLaunch(p) ==
    /\ check[p].at \in {"recordingIntent", "launching"}
    /\ launches' = [launches EXCEPT ![check[p].run] = @ + 1]
    /\ CheckGoto(p, "running")
    /\ UNCHANGED <<task, finished, owner, artifacts, actor, cancel, faults>>

Launch(p) ==
    /\ CheckAt(p, "launching")
    /\ launches' = [launches EXCEPT ![check[p].run] = @ + 1]
    /\ CheckGoto(p, "running")
    /\ UNCHANGED <<task, finished, owner, artifacts, actor, cancel, faults>>

\* The provider could not start the command: a receipt without an effect.
FailLaunch(p) ==
    /\ CheckAt(p, "launching")
    /\ check' = [check EXCEPT ![p].at = "reporting", ![p].report = "start-failed"]
    /\ UNCHANGED <<task, finished, owner, artifacts, launches, actor, cancel, faults>>

Report(p) ==
    /\ CheckAt(p, "running")
    /\ \E report \in Reports :
          check' = [check EXCEPT ![p].at = "reporting", ![p].report = report]
    /\ UNCHANGED <<task, finished, owner, artifacts, launches, actor, cancel, faults>>

CreateResult(p) ==
    /\ CheckAt(p, "reporting")
    /\ result[check[p].run].state = "absent"
    /\ result' = [result EXCEPT ![check[p].run] =
                     [state |-> "partial", receipt |-> check[p].report]]
    /\ CheckGoto(p, "recordingResult")
    /\ UNCHANGED <<task, finished, owner, directory, boundary, intent, evidence,
                   launches, actor, cancel, faults>>

SyncResult(p) ==
    /\ CheckAt(p, "recordingResult")
    /\ result' = [result EXCEPT ![check[p].run].state = "whole"]
    /\ CheckGoto(p, "returned")
    /\ UNCHANGED <<task, finished, owner, directory, boundary, intent, evidence,
                   launches, actor, cancel, faults>>

-----------------------------------------------------------------------------
(* Recovery: tasks.rs, recover_with, under the stopped worker's owner lock. *)

\* Fault: the owner lock is not tested.
Seize(p) ==
    /\ actor[p] = Idle /\ check[p] = NoCheck
    /\ task.status = "Running"
    /\ owner' = p
    /\ actor' = [actor EXCEPT ![p] = [at |-> "inspecting", run |-> task.run,
                                      outcome |-> "none"]]
    /\ UNCHANGED <<task, finished, artifacts, launches, check, cancel, faults>>

TakeOver(p) ==
    /\ actor[p] = Idle /\ check[p] = NoCheck
    /\ owner = Nobody /\ task.status = "Running"
    /\ owner' = p
    /\ actor' = [actor EXCEPT ![p] = [at |-> "inspecting", run |-> task.run,
                                      outcome |-> "none"]]
    /\ UNCHANGED <<task, finished, artifacts, launches, check, cancel, faults>>

\* Fault: a recorded launch intent is overlooked.
AnyIntent(r) ==
    /\ boundary[r] = "whole" /\ evidence[r].state = "absent"
    /\ result[r].state = "absent"

\* interrupted_before_check.
ProvenBefore(r) ==
    /\ boundary[r] = "whole" /\ evidence[r].state = "absent"
    /\ intent[r] = "absent" /\ result[r].state = "absent"

\* Fault: an uncertain result counts as terminal.
AnyResult(r) ==
    /\ boundary[r] = "whole" /\ evidence[r].state = "absent"
    /\ intent[r] = "whole" /\ result[r].state = "whole"

\* interrupted_after_check.
ProvenAfter(r) ==
    /\ boundary[r] = "whole" /\ evidence[r].state = "absent"
    /\ intent[r] = "whole" /\ result[r].state = "whole"
    /\ result[r].receipt # "outcome-unknown"

\* Fault: evidence that was never synced is submitted.
InspectAnyEvidence(p) ==
    /\ At(p, "inspecting")
    /\ \/ evidence[actor[p].run].state # "absent" /\ Goto(p, "submitting")
       \/ ProvenBefore(actor[p].run) /\ Goto(p, "provingBefore")
       \/ ProvenAfter(actor[p].run) /\ Goto(p, "provingAfter")
    /\ UNCHANGED <<task, finished, owner, artifacts, launches, check, cancel, faults>>

\* Saved evidence takes precedence; malformed evidence blocks recovery.
Inspect(p) ==
    /\ At(p, "inspecting")
    /\ \/ evidence[actor[p].run].state = "whole" /\ Goto(p, "submitting")
       \/ ProvenBefore(actor[p].run) /\ Goto(p, "provingBefore")
       \/ ProvenAfter(actor[p].run) /\ Goto(p, "provingAfter")
    /\ UNCHANGED <<task, finished, owner, artifacts, launches, check, cancel, faults>>

\* The proof is repeated before it is recorded.
Prove(p) ==
    /\ \/ At(p, "provingBefore") /\ ProvenBefore(actor[p].run) /\ Goto(p, "savingBefore")
       \/ At(p, "provingAfter") /\ ProvenAfter(actor[p].run) /\ Goto(p, "savingAfter")
    /\ UNCHANGED <<task, finished, owner, artifacts, launches, check, cancel, faults>>

\* /recover records a failure, /recover ID requeue a cancellation.
CreateRecovered(p) ==
    /\ actor[p].at \in {"savingBefore", "savingAfter"}
    /\ evidence[actor[p].run].state = "absent"
    /\ \E status \in {"Failed", "Cancelled"} :
          evidence' = [evidence EXCEPT ![actor[p].run] =
              [state |-> "partial", status |-> status,
               by |-> IF At(p, "savingBefore") THEN "before" ELSE "after"]]
    /\ Goto(p, "sealingRecovery")
    /\ UNCHANGED <<task, finished, owner, directory, boundary, intent, result,
                   launches, check, cancel, faults>>

SyncRecovered(p) ==
    /\ At(p, "sealingRecovery")
    /\ evidence' = [evidence EXCEPT ![actor[p].run].state = "whole"]
    /\ Goto(p, "submitting")
    /\ UNCHANGED <<task, finished, owner, directory, boundary, intent, result,
                   launches, check, cancel, faults>>

Submit(p) ==
    /\ At(p, "submitting")
    /\ FinishReceipt(actor[p].run)
    /\ Stop(p)
    /\ UNCHANGED <<artifacts, launches, check, cancel, faults>>

\* No proof holds, an artifact cannot be written, or the receipt is refused.
RefuseRecovery(p) ==
    /\ actor[p].at \in RecoverySteps
    /\ Stop(p)
    /\ UNCHANGED <<task, finished, artifacts, launches, check, cancel, faults>>

-----------------------------------------------------------------------------
(* The user, and the end of a process. *)

Withdraw ==
    /\ task.status = "Approved"
    /\ task' = [task EXCEPT !.status = "Cancelled"]
    /\ Outdate
    /\ UNCHANGED <<finished, owner, artifacts, launches, check, cancel, faults>>

\* Fault: a failed run is requeued like a cancelled one.
RequeueFailed ==
    /\ task.status \in {"Cancelled", "Failed"} /\ task.run # 0
    /\ task' = [task EXCEPT !.status = "Approved"]
    /\ Outdate
    /\ UNCHANGED <<finished, owner, artifacts, launches, check, cancel, faults>>

Requeue ==
    /\ task.status = "Cancelled" /\ task.run # 0
    /\ task' = [task EXCEPT !.status = "Approved"]
    /\ Outdate
    /\ UNCHANGED <<finished, owner, artifacts, launches, check, cancel, faults>>

\* /stop only raises the worker's flag.
StopWorker(p) ==
    /\ actor[p].at \in WorkerSteps /\ ~cancel[p]
    /\ cancel' = [cancel EXCEPT ![p] = TRUE]
    /\ UNCHANGED <<task, finished, owner, artifacts, launches, actor, check, faults>>

\* A process dies: the operating system frees its lock and ends its closure.
Crash(p) ==
    /\ crashes < limit.crashes
    /\ actor[p] # Idle \/ check[p] # NoCheck
    /\ Stop(p)
    /\ check' = [check EXCEPT ![p] = NoCheck]
    /\ crashes' = crashes + 1
    /\ UNCHANGED <<task, finished, artifacts, launches, cancel, limit, quits, orphans>>

Unlaunched == {"verifying", "intending", "recordingIntent", "launching"}

\* The program exits: every worker is told to stop and the runtime drops it at
\* its next await, but waits for its closure, up to a second.
Quit(p) ==
    /\ quits < limit.quits
    /\ actor[p].at \in {"preparing", "outdated", "performing", "editing", "awaiting",
                        "saving", "publishing"}
    /\ Stop(p)
    /\ cancel' = [cancel EXCEPT ![p] = TRUE]
    /\ quits' = quits + 1
    /\ orphans' = IF check[p].at \in Unlaunched THEN orphans \cup {check[p].run} ELSE orphans
    /\ UNCHANGED <<task, finished, artifacts, launches, check, limit, crashes>>

Exit(p) ==
    /\ actor[p] = Idle /\ check[p] # NoCheck
    /\ check' = [check EXCEPT ![p] = NoCheck]
    /\ UNCHANGED <<task, finished, owner, artifacts, launches, actor, cancel, faults>>

WorkerStep(p) ==
    \/ AbandonPreparation(p) \/ Start(p) \/ CreateDirectory(p)
    \/ CreateBoundary(p) \/ SyncBoundary(p) \/ GiveUp(p)
    \/ Admit(p) \/ FailEarly(p) \/ SpawnCheck(p) \/ AwaitCheck(p)
    \/ CreateEvidence(p) \/ SyncEvidence(p) \/ Publish(p)

CheckStep(p) ==
    \/ VerifyStart(p) \/ CreateIntent(p) \/ SyncIntent(p) \/ FailCheck(p)
    \/ Launch(p) \/ FailLaunch(p) \/ Report(p)
    \/ CreateResult(p) \/ SyncResult(p)

RecoveryStep(p) ==
    \/ Inspect(p) \/ Prove(p) \/ CreateRecovered(p) \/ SyncRecovered(p)
    \/ Submit(p) \/ RefuseRecovery(p)

Next ==
    \/ \E p \in Procs :
          \/ ClaimWorker(p) \/ WorkerStep(p) \/ CheckStep(p)
          \/ TakeOver(p) \/ RecoveryStep(p)
          \/ StopWorker(p) \/ Crash(p) \/ Quit(p) \/ Exit(p)
    \/ Withdraw
    \/ Requeue

Spec == Init /\ [][Next]_vars

\* The runtime schedules what it started: workers, closures and recoveries go
\* on until they return, with bounded waits.  Nobody has to claim or recover.
Fairness ==
    \A p \in Procs : WF_vars(WorkerStep(p)) /\ WF_vars(CheckStep(p)) /\ WF_vars(RecoveryStep(p))

FairSpec == Spec /\ Fairness

-----------------------------------------------------------------------------
(* Properties. *)

\* However often the task is requeued, stopped or recovered, the check of a run
\* starts at most once, and only after its launch intent is durable.
LaunchesProven ==
    \A r \in Runs : launches[r] <= 1 /\ (launches[r] = 1 => intent[r] = "whole")

\* A review-ready run comes from its own worker, whose check was started and
\* has a whole result checkpoint that says it completed.
ReviewReadyProven ==
    \A r \in Runs : finished[r] = "ReviewReady" =>
        /\ launches[r] = 1
        /\ result[r] = [state |-> "whole", receipt |-> "completed"]
        /\ evidence[r].by = "worker"

\* The recorded outcome of a run is the one of its whole, final evidence: a
\* partial or replaced evidence file is never published.
FinishBindsEvidence ==
    \A r \in Runs : finished[r] # "none" =>
        evidence[r].state = "whole" /\ evidence[r].status = finished[r]

\* What is recorded as interrupted before its check never launched it, then or
\* later, unless an exit left the check to its closure.
InterruptedBeforeLaunch ==
    \A r \in Runs \ orphans : evidence[r].by = "before" => launches[r] = 0 /\ intent[r] = "absent"

\* What is recorded as interrupted after its check has a certain result, of a
\* check that was launched unless the provider says it never started.
InterruptedAfterResult ==
    \A r \in Runs : evidence[r].by = "after" =>
        /\ result[r].state = "whole" /\ result[r].receipt # "outcome-unknown"
        /\ launches[r] = (IF result[r].receipt = "start-failed" THEN 0 ELSE 1)

\* Once a run's outcome is recorded nothing of the run changes: no late worker
\* or closure writes an artifact or launches its check, but the closure of an
\* exiting process.
SealedIsQuiet ==
    [][\A r \in Runs \ orphans : finished[r] # "none" =>
          /\ launches'[r] = launches[r] /\ intent'[r] = intent[r]
          /\ result'[r] = result[r] /\ evidence'[r] = evidence[r]]_vars

\* Every owner lock is released: no worker waits forever for its closure.
OwnerReleased == \A p \in Procs : owner = p ~> owner # p

\* The abstract governed run, for which the launches of exiting processes do not
\* count.
Governed == INSTANCE GovernedRun
                WITH status <- task.status, run <- task.run, outcome <- finished,
                     launches <- [r \in Runs |-> IF r \in orphans THEN 0 ELSE launches[r]]

ImplementsGovernedRun == Governed!Spec

\* Whatever is recorded of a run is true of its artifacts, through any order of
\* deaths, exits and recoveries: that its check completed, that it never started,
\* that its result is certain, and which evidence the outcome rests on.
ProofsHold ==
    /\ TypeOK
    /\ LaunchesProven
    /\ ReviewReadyProven
    /\ FinishBindsEvidence
    /\ InterruptedBeforeLaunch
    /\ InterruptedAfterResult
=============================================================================
