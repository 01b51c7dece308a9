-------------------------- MODULE RunLifecycle_proofs --------------------------
(***************************************************************************)
(* Proofs about the runs of a governed task, for any number of processes,  *)
(* runs, deaths and exits: what is recorded of a run is true of its        *)
(* artifacts, a recorded run is quiet, and the artifacts implement the     *)
(* abstract governed run.                                                  *)
(***************************************************************************)
EXTENDS RunLifecycle, TLAPS

-----------------------------------------------------------------------------
(* The inductive invariant, of each process's actor and closure and of each *)
(* run.                                                                     *)

\* How often a check with this receipt was started.
Started(receipt) == IF receipt = "start-failed" THEN 0 ELSE 1

\* No closure belongs to the run.
Unchecked(r) == \A q \in Procs : check[q].at = "none" \/ check[q].run # r

\* The steps of a worker before its check and of a closure at work.
BeforeCheck == {"claimed", "entered", "marking", "performing", "editing"}
AtWork == Unlaunched \cup {"running", "reporting", "recordingResult"}

\* The owner lock is held by whoever is not idle, and by nobody else.
LockOK(p) ==
    /\ owner = p <=> actor[p].at # "idle"
    /\ actor[p].at = "idle" => actor[p] = Idle
    /\ check[p].at = "none" => check[p] = NoCheck

\* An actor past its claim works on the task's running run, and knows what it
\* has proved, waited for or written.
ActorOK(p) ==
    LET r == actor[p].run IN
    /\ At(p, "preparing") => task.run < limit.runs
    /\ actor[p].at \notin {"idle", "preparing", "outdated"} => r \in Runs /\ Claimed(r)
    /\ actor[p].at \in WorkerSteps => r \notin orphans
    /\ actor[p].at \in BeforeCheck \cup {"saving", "sealing", "publishing"} => Unchecked(r)
    /\ actor[p].at \in BeforeCheck =>
          /\ launches[r] = 0 /\ intent[r] = "absent"
          /\ result[r].state = "absent" /\ evidence[r].state = "absent"
    /\ At(p, "awaiting") =>
          check[p].at # "none" /\ check[p].run = r /\ evidence[r].state = "absent"
    /\ At(p, "saving") /\ actor[p].outcome = "ok" =>
          launches[r] = 1 /\ result[r] = [state |-> "whole", receipt |-> "completed"]
    /\ At(p, "savingBefore") => r \in orphans \/ intent[r] = "absent"
    /\ At(p, "savingAfter") =>
          result[r].state = "whole" /\ result[r].receipt # "outcome-unknown"
    /\ actor[p].at \in {"sealing", "sealingRecovery"} => evidence[r].state = "partial"
    /\ actor[p].at \in {"publishing", "submitting"} => evidence[r].state = "whole"

\* A closure belongs to the worker that awaits it or was left by an exit; how
\* far it is shows in the artifacts of its run, which no other closure writes.
CheckOK(p) ==
    LET r == check[p].run IN
    check[p].at # "none" =>
        /\ r \in Runs /\ r <= task.run
        /\ \A q \in Procs \ {p} : check[q].at # "none" => check[q].run # r
        /\ actor[p].at = "idle" \/ (At(p, "awaiting") /\ actor[p].run = r)
        /\ check[p].at \in Unlaunched =>
              /\ r \in orphans \/ At(p, "awaiting")
              /\ launches[r] = 0 /\ result[r].state = "absent"
        /\ check[p].at = "recordingIntent" => intent[r] = "partial"
        /\ check[p].at \in {"launching", "running", "reporting", "recordingResult"} =>
              intent[r] = "whole"
        /\ check[p].at = "running" => launches[r] = 1 /\ result[r].state = "absent"
        /\ check[p].at = "reporting" =>
              /\ check[p].report \in Receipts /\ launches[r] = Started(check[p].report)
              /\ result[r].state = "absent"
        /\ check[p].at = "recordingResult" =>
              result[r] = [state |-> "partial", receipt |-> check[p].report]
        /\ check[p].at = "returned" =>
              result[r] = [state |-> "whole", receipt |-> check[p].report]
        /\ check[p].at \in AtWork => r \in orphans \/ evidence[r].state = "absent"

\* What the artifacts of a run say of each other and of its check.
RunOK(r) ==
    /\ r > task.run => /\ launches[r] = 0 /\ intent[r] = "absent" /\ r \notin orphans
                       /\ result[r].state = "absent" /\ evidence[r].state = "absent"
                       /\ finished[r] = "none"
    /\ Claimed(r) => finished[r] = "none"
    /\ launches[r] <= 1 /\ (launches[r] = 1 => intent[r] = "whole")
    /\ result[r].state # "absent" =>
          result[r].receipt \in Receipts /\ launches[r] = Started(result[r].receipt)
    /\ evidence[r].state # "absent" => evidence[r].status \in Results
    /\ evidence[r].state = "absent" => evidence[r].by = "none" /\ evidence[r].status = "none"
    /\ evidence[r].status = "ReviewReady" =>
          /\ evidence[r].by = "worker" /\ r \notin orphans /\ launches[r] = 1
          /\ result[r] = [state |-> "whole", receipt |-> "completed"]
    /\ evidence[r].by = "before" => r \in orphans \/ intent[r] = "absent"
    /\ evidence[r].by = "after" =>
          result[r].state = "whole" /\ result[r].receipt # "outcome-unknown"
    /\ finished[r] # "none" =>
          evidence[r].state = "whole" /\ evidence[r].status = finished[r]

LockInv == \A p \in Procs : LockOK(p)
ActorInv == \A p \in Procs : ActorOK(p)
CheckInv == \A p \in Procs : CheckOK(p)
RunInv == \A r \in Runs : RunOK(r)

\* A running task has a latest run.
TaskInv == task.status = "Running" => task.run \in Runs

IInv == TypeOK /\ TaskInv /\ LockInv /\ ActorInv /\ CheckInv /\ RunInv

-----------------------------------------------------------------------------
(* What the moves of an actor and of a closure change. *)

\* The actor of p goes to another step of its run.
Moved(p, step) ==
    /\ actor' \in [Procs -> Actor]
    /\ actor'[p].at = step /\ actor'[p].run = actor[p].run
    /\ actor'[p].outcome = actor[p].outcome
    /\ \A q \in Procs \ {p} : actor'[q] = actor[q]

\* The closure of p goes to another step of its run.
CheckMoved(p, step) ==
    /\ check' \in [Procs -> Check]
    /\ check'[p].at = step /\ check'[p].run = check[p].run
    /\ check'[p].report = check[p].report
    /\ \A q \in Procs \ {p} : check'[q] = check[q]

\* The actor of p stops and gives the owner lock up.
Left(p) ==
    /\ actor' \in [Procs -> Actor] /\ actor'[p] = Idle
    /\ \A q \in Procs \ {p} : actor'[q] = actor[q]
    /\ owner' = (IF owner = p THEN Nobody ELSE owner)
    /\ owner' \in Procs \cup {Nobody}

\* One run's entry changes.
Changed(old, new, r, entry) == new[r] = entry /\ \A s \in Runs \ {r} : new[s] = old[s]

LEMMA GotoMoves ==
    ASSUME TypeOK, NEW p \in Procs, NEW step \in {"idle"} \cup WorkerSteps \cup RecoverySteps,
           Goto(p, step)
    PROVE  Moved(p, step)
<1>1. actor[p] \in Actor /\ actor'[p] = [actor[p] EXCEPT !.at = step]
  BY DEF TypeOK, Goto
<1>2. actor'[p] \in Actor
  BY <1>1 DEF Actor
<1>3. /\ actor'[p].at = step /\ actor'[p].run = actor[p].run
      /\ actor'[p].outcome = actor[p].outcome
  BY <1>1 DEF Actor
<1> QED BY <1>1, <1>2, <1>3 DEF TypeOK, Goto, Moved

LEMMA CheckMoves ==
    ASSUME TypeOK, NEW p \in Procs, NEW step \in CheckSteps, CheckGoto(p, step)
    PROVE  CheckMoved(p, step)
<1>1. check[p] \in Check /\ check'[p] = [check[p] EXCEPT !.at = step]
  BY DEF TypeOK, CheckGoto
<1>2. check'[p] \in Check
  BY <1>1 DEF Check
<1>3. /\ check'[p].at = step /\ check'[p].run = check[p].run
      /\ check'[p].report = check[p].report
  BY <1>1 DEF Check
<1> QED BY <1>1, <1>2, <1>3 DEF TypeOK, CheckGoto, CheckMoved

LEMMA StopMoves ==
    ASSUME TypeOK, NEW p \in Procs, Stop(p)
    PROVE  Left(p)
<1>1. Idle \in Actor
  BY LimitsAssumption DEF Idle, Actor
<1> QED BY <1>1 DEF TypeOK, Stop, Left

\* The scenario bounds the runs.
LEMMA LimitRuns == TypeOK => limit.runs \in Runs /\ MaxRuns \in Nat /\ Runs \subseteq Nat
<1>1. limit \in Scenarios => limit \in [runs : 1..MaxRuns, crashes : Nat, quits : Nat]
  BY LimitsAssumption
<1> QED BY <1>1, LimitsAssumption DEF TypeOK, Runs

\* Whoever is not idle holds the lock, so that everyone else is idle.
LEMMA OthersIdle ==
    ASSUME LockInv, NEW p \in Procs, actor[p].at # "idle"
    PROVE  \A q \in Procs \ {p} : actor[q].at = "idle"
  BY DEF LockInv, LockOK

\* A worker whose check is over, or was never started, goes on to its evidence.
LEMMA SaveMoves ==
    ASSUME TypeOK, NEW p \in Procs, NEW outcome \in {"ok", "failed"},
           actor' = [actor EXCEPT ![p].at = "saving", ![p].outcome = outcome]
    PROVE  /\ actor' \in [Procs -> Actor]
           /\ actor'[p].at = "saving" /\ actor'[p].run = actor[p].run
           /\ actor'[p].outcome = outcome
           /\ \A q \in Procs \ {p} : actor'[q] = actor[q]
<1>1. actor[p] \in Actor /\ actor'[p] = [actor[p] EXCEPT !.at = "saving", !.outcome = outcome]
  BY DEF TypeOK
<1>2. actor'[p] \in Actor
  BY <1>1 DEF Actor, WorkerSteps
<1>3. /\ actor'[p].at = "saving" /\ actor'[p].run = actor[p].run
      /\ actor'[p].outcome = outcome
  BY <1>1 DEF Actor
<1> QED BY <1>1, <1>2, <1>3 DEF TypeOK

\* A closure has the receipt of its check.
LEMMA ReportMoves ==
    ASSUME TypeOK, NEW p \in Procs, NEW report \in Receipts,
           check' = [check EXCEPT ![p].at = "reporting", ![p].report = report]
    PROVE  /\ check' \in [Procs -> Check]
           /\ check'[p].at = "reporting" /\ check'[p].run = check[p].run
           /\ check'[p].report = report
           /\ \A q \in Procs \ {p} : check'[q] = check[q]
<1>1. check[p] \in Check /\ check'[p] = [check[p] EXCEPT !.at = "reporting", !.report = report]
  BY DEF TypeOK
<1>2. check'[p] \in Check
  <2>1. "reporting" \in CheckSteps /\ report \in Receipts \cup {"none"}
    BY DEF CheckSteps
  <2> QED BY <1>1, <2>1 DEF Check
<1>3. /\ check'[p].at = "reporting" /\ check'[p].run = check[p].run
      /\ check'[p].report = report
  BY <1>1 DEF Check
<1> QED BY <1>1, <1>2, <1>3 DEF TypeOK

\* A worker still preparing is outdated; nobody else notices.
LEMMA OutdateMoves ==
    ASSUME TypeOK, Outdate
    PROVE  /\ actor' \in [Procs -> Actor]
           /\ \A q \in Procs :
                 /\ actor'[q].run = actor[q].run /\ actor'[q].outcome = actor[q].outcome
                 /\ actor'[q].at = IF actor[q].at = "preparing" THEN "outdated" ELSE actor[q].at
                 /\ actor[q].at # "preparing" => actor'[q] = actor[q]
<1>1. \A a \in Actor : /\ [a EXCEPT !.at = "outdated"] \in Actor
                        /\ [a EXCEPT !.at = "outdated"].at = "outdated"
                        /\ [a EXCEPT !.at = "outdated"].run = a.run
                        /\ [a EXCEPT !.at = "outdated"].outcome = a.outcome
  BY DEF Actor, WorkerSteps
<1> QED BY <1>1 DEF TypeOK, Outdate, At

-----------------------------------------------------------------------------
(* The invariant holds at the start and in every step.  The lemma of an action *)
(* first says what the action changes of the actor, the closure and the run it *)
(* is about, and then takes the parts of the invariant one by one.             *)

LEMMA InitKeeps == Init => IInv
<1> SUFFICES ASSUME Init PROVE IInv
  OBVIOUS
<1>1. TypeOK
  BY LimitsAssumption DEF Init, TypeOK, Runs, Results, Idle, NoCheck, Absent, NoEvidence,
     Writing, Proof, CheckSteps, Receipts, Reports, Task, Actor, Check, Result, Evidence
<1>2. TaskInv /\ LockInv /\ ActorInv /\ CheckInv
  BY ProcsAssumption DEF Init, TaskInv, LockInv, LockOK, ActorInv, ActorOK, CheckInv,
     CheckOK, Idle, NoCheck, At, WorkerSteps, RecoverySteps, BeforeCheck
<1>3. RunInv
  BY DEF Init, RunInv, RunOK, Absent, NoEvidence, Claimed
<1> QED BY <1>1, <1>2, <1>3 DEF IInv

LEMMA StutterKeeps == IInv /\ UNCHANGED vars => IInv'
  BY DEF IInv, vars, artifacts, faults, TypeOK, TaskInv, LockInv, LockOK, ActorInv, ActorOK,
     CheckInv, CheckOK, RunInv, RunOK, Unchecked, Claimed, At

-----------------------------------------------------------------------------
(* The worker. *)

LEMMA ClaimWorkerKeeps ==
    ASSUME IInv, NEW p \in Procs, ClaimWorker(p)
    PROVE  IInv'
<1> USE DEF IInv, artifacts, faults
<1>1. /\ Moved(p, "preparing")
      /\ \A q \in Procs \ {p} : actor[q].at = "idle"
  BY GotoMoves, ProcsAssumption DEF ClaimWorker, At, ActorInv, ActorOK, WorkerSteps,
     RecoverySteps, BeforeCheck, LockInv, LockOK
<1>2. /\ 0 \notin orphans
      /\ actor[p].at = "idle" /\ actor[p].run = 0 /\ check[p].at = "none"
      /\ orphans' = orphans
  BY DEF ClaimWorker, TypeOK, Runs, Idle, NoCheck
<1>3. TypeOK'
  BY <1>1, <1>2 DEF ClaimWorker, Moved, TypeOK
<1>4. TaskInv'
  BY <1>1, <1>2 DEF ClaimWorker, Moved, TaskInv
<1>5. LockInv'
  BY <1>1, <1>2, ProcsAssumption DEF ClaimWorker, Moved, LockInv, LockOK
<1>6. ActorInv'
  BY <1>1, <1>2, ProcsAssumption DEF ClaimWorker, At, Moved, ActorInv, ActorOK, Claimed,
     WorkerSteps, BeforeCheck, Unchecked
<1>7. CheckInv'
  BY <1>1, <1>2, ProcsAssumption DEF ClaimWorker, At, Moved, CheckInv, CheckOK, Unlaunched,
     AtWork
<1>8. RunInv'
  BY <1>1, <1>2, ProcsAssumption DEF ClaimWorker, Moved, RunInv, RunOK, Claimed
<1> QED BY <1>3, <1>4, <1>5, <1>6, <1>7, <1>8

LEMMA AbandonPreparationKeeps ==
    ASSUME IInv, NEW p \in Procs, AbandonPreparation(p)
    PROVE  IInv'
<1> USE DEF IInv, artifacts, faults
<1>1. /\ Left(p)
      /\ \A q \in Procs \ {p} : actor[q].at = "idle"
  BY StopMoves, ProcsAssumption DEF AbandonPreparation, At, ActorInv, ActorOK, WorkerSteps,
     BeforeCheck, LockInv, LockOK
<1>2. TypeOK'
  BY <1>1 DEF AbandonPreparation, Left, Idle, TypeOK
<1>3. TaskInv'
  BY <1>1 DEF AbandonPreparation, Left, Idle, TaskInv
<1>4. LockInv'
  BY <1>1, ProcsAssumption DEF AbandonPreparation, Left, Idle, LockInv, LockOK
<1>5. ActorInv'
  BY <1>1, ProcsAssumption DEF AbandonPreparation, At, Left, Idle, ActorInv, ActorOK,
     Claimed, WorkerSteps, BeforeCheck, Unchecked
<1>6. CheckInv'
  BY <1>1, ProcsAssumption DEF AbandonPreparation, At, Left, Idle, CheckInv, CheckOK,
     Unlaunched, AtWork
<1>7. RunInv'
  BY <1>1, ProcsAssumption DEF AbandonPreparation, Left, Idle, RunInv, RunOK, Claimed
<1> QED BY <1>2, <1>3, <1>4, <1>5, <1>6, <1>7

LEMMA StartKeeps ==
    ASSUME IInv, NEW p \in Procs, Start(p)
    PROVE  IInv'
<1> USE DEF IInv, artifacts, faults
<1>1. /\ actor[p].at = "preparing"
      /\ \A q \in Procs \ {p} : actor[q].at = "idle"
  BY OthersIdle DEF Start, At
<1>2. /\ task.run + 1 \in Runs
      /\ task.run \in Nat
  BY <1>1, LimitRuns DEF Start, TypeOK, Task, Runs, At, ActorInv, ActorOK
<1>3. /\ \A q \in Procs : check[q].at # "none" => check[q].run <= task.run
      /\ check[p].at = "none"
  BY <1>1 DEF CheckInv, CheckOK, At
<1>4. Runs \subseteq Nat
  BY LimitRuns
<1>5. /\ Unchecked(task.run + 1)
      /\ task.run + 1 \notin orphans
  BY <1>2, <1>3, <1>4 DEF Unchecked, RunInv, RunOK, TypeOK, Check
<1>6. /\ task' \in Task
      /\ task'.run = task.run + 1
      /\ task'.status = "Running"
      /\ task.status = "Approved"
  BY <1>2 DEF Start, Task, Runs
<1>7. /\ actor' \in [Procs -> Actor]
      /\ actor'[p].at = "claimed"
      /\ actor'[p].run = task.run + 1
      /\ actor'[p].outcome = "none"
      /\ \A q \in Procs \ {p} : actor'[q] = actor[q]
  BY <1>2 DEF Start, TypeOK, Actor, WorkerSteps, Task, Runs
<1>8. TypeOK'
  BY <1>1, <1>2, <1>3, <1>4, <1>5, <1>6, <1>7 DEF Start, At, TypeOK, Runs
<1>9. TaskInv'
  BY <1>1, <1>2, <1>3, <1>4, <1>5, <1>6, <1>7 DEF Start, At, TaskInv
<1>10. LockInv'
  BY <1>1, <1>2, <1>3, <1>4, <1>5, <1>6, <1>7, ProcsAssumption DEF Start, At, LockInv,
     LockOK
<1>11. ActorInv'
  BY <1>1, <1>2, <1>3, <1>4, <1>5, <1>6, <1>7, ProcsAssumption DEF Start, At, ActorInv,
     ActorOK, Claimed, WorkerSteps, BeforeCheck, Unchecked, RunInv, RunOK
<1>12. CheckInv'
  BY <1>1, <1>2, <1>3, <1>4, <1>5, <1>6, <1>7, ProcsAssumption DEF Start, At, CheckInv,
     CheckOK, Unlaunched, AtWork, Task, Runs, TypeOK
<1>13. RunInv'
  BY <1>1, <1>2, <1>3, <1>4, <1>5, <1>6, <1>7, ProcsAssumption DEF Start, At, RunInv, RunOK,
     Claimed, TypeOK, Task, Runs
<1> QED BY <1>8, <1>9, <1>10, <1>11, <1>12, <1>13

LEMMA CreateDirectoryKeeps ==
    ASSUME IInv, NEW p \in Procs, CreateDirectory(p)
    PROVE  IInv'
<1> USE DEF IInv, artifacts, faults
<1>1. /\ Moved(p, "entered")
      /\ \A q \in Procs \ {p} : actor[q].at = "idle"
      /\ actor[p].run \in Runs
  BY GotoMoves, ProcsAssumption DEF CreateDirectory, At, ActorInv, ActorOK, WorkerSteps,
     RecoverySteps, BeforeCheck, LockInv, LockOK
<1>2. TypeOK'
  BY <1>1 DEF CreateDirectory, At, Moved, TypeOK
<1>3. TaskInv'
  BY <1>1 DEF CreateDirectory, At, Moved, TaskInv
<1>4. LockInv'
  BY <1>1, ProcsAssumption DEF CreateDirectory, At, Moved, LockInv, LockOK
<1>5. ActorInv'
  BY <1>1, ProcsAssumption DEF CreateDirectory, At, Moved, ActorInv, ActorOK, Claimed,
     WorkerSteps, BeforeCheck, Unchecked
<1>6. CheckInv'
  BY <1>1, ProcsAssumption DEF CreateDirectory, At, Moved, CheckInv, CheckOK, Unlaunched,
     AtWork
<1>7. RunInv'
  BY <1>1, ProcsAssumption DEF CreateDirectory, At, Moved, RunInv, RunOK, Claimed
<1> QED BY <1>2, <1>3, <1>4, <1>5, <1>6, <1>7

LEMMA CreateBoundaryKeeps ==
    ASSUME IInv, NEW p \in Procs, CreateBoundary(p)
    PROVE  IInv'
<1> USE DEF IInv, artifacts, faults
<1>1. /\ Moved(p, "marking")
      /\ \A q \in Procs \ {p} : actor[q].at = "idle"
      /\ actor[p].run \in Runs
  BY GotoMoves, ProcsAssumption DEF CreateBoundary, At, ActorInv, ActorOK, WorkerSteps,
     RecoverySteps, BeforeCheck, LockInv, LockOK
<1>2. boundary' \in [Runs -> Writing]
  BY <1>1 DEF CreateBoundary, TypeOK, Writing
<1>3. TypeOK'
  BY <1>1, <1>2 DEF CreateBoundary, At, Moved, TypeOK
<1>4. TaskInv'
  BY <1>1, <1>2 DEF CreateBoundary, At, Moved, TaskInv
<1>5. LockInv'
  BY <1>1, <1>2, ProcsAssumption DEF CreateBoundary, At, Moved, LockInv, LockOK
<1>6. ActorInv'
  BY <1>1, <1>2, ProcsAssumption DEF CreateBoundary, At, Moved, ActorInv, ActorOK, Claimed,
     WorkerSteps, BeforeCheck, Unchecked
<1>7. CheckInv'
  BY <1>1, <1>2, ProcsAssumption DEF CreateBoundary, At, Moved, CheckInv, CheckOK,
     Unlaunched, AtWork
<1>8. RunInv'
  BY <1>1, <1>2, ProcsAssumption DEF CreateBoundary, At, Moved, RunInv, RunOK, Claimed
<1> QED BY <1>3, <1>4, <1>5, <1>6, <1>7, <1>8

LEMMA SyncBoundaryKeeps ==
    ASSUME IInv, NEW p \in Procs, SyncBoundary(p)
    PROVE  IInv'
<1> USE DEF IInv, artifacts, faults
<1>1. /\ Moved(p, "performing")
      /\ \A q \in Procs \ {p} : actor[q].at = "idle"
      /\ actor[p].run \in Runs
  BY GotoMoves, ProcsAssumption DEF SyncBoundary, At, ActorInv, ActorOK, WorkerSteps,
     RecoverySteps, BeforeCheck, LockInv, LockOK
<1>2. boundary' \in [Runs -> Writing]
  BY <1>1 DEF SyncBoundary, TypeOK, Writing
<1>3. TypeOK'
  BY <1>1, <1>2 DEF SyncBoundary, At, Moved, TypeOK
<1>4. TaskInv'
  BY <1>1, <1>2 DEF SyncBoundary, At, Moved, TaskInv
<1>5. LockInv'
  BY <1>1, <1>2, ProcsAssumption DEF SyncBoundary, At, Moved, LockInv, LockOK
<1>6. ActorInv'
  BY <1>1, <1>2, ProcsAssumption DEF SyncBoundary, At, Moved, ActorInv, ActorOK, Claimed,
     WorkerSteps, BeforeCheck, Unchecked
<1>7. CheckInv'
  BY <1>1, <1>2, ProcsAssumption DEF SyncBoundary, At, Moved, CheckInv, CheckOK, Unlaunched,
     AtWork
<1>8. RunInv'
  BY <1>1, <1>2, ProcsAssumption DEF SyncBoundary, At, Moved, RunInv, RunOK, Claimed
<1> QED BY <1>3, <1>4, <1>5, <1>6, <1>7, <1>8

LEMMA GiveUpKeeps ==
    ASSUME IInv, NEW p \in Procs, GiveUp(p)
    PROVE  IInv'
<1> USE DEF IInv, artifacts, faults
<1>1. /\ Left(p)
      /\ \A q \in Procs \ {p} : actor[q].at = "idle"
  BY StopMoves, ProcsAssumption DEF GiveUp, At, ActorInv, ActorOK, WorkerSteps, BeforeCheck,
     LockInv, LockOK
<1>2. TypeOK'
  BY <1>1 DEF GiveUp, Left, Idle, TypeOK
<1>3. TaskInv'
  BY <1>1 DEF GiveUp, Left, Idle, TaskInv
<1>4. LockInv'
  BY <1>1, ProcsAssumption DEF GiveUp, Left, Idle, LockInv, LockOK
<1>5. ActorInv'
  BY <1>1, ProcsAssumption DEF GiveUp, At, Left, Idle, ActorInv, ActorOK, Claimed,
     WorkerSteps, BeforeCheck, Unchecked
<1>6. CheckInv'
  BY <1>1, ProcsAssumption DEF GiveUp, At, Left, Idle, CheckInv, CheckOK, Unlaunched, AtWork
<1>7. RunInv'
  BY <1>1, ProcsAssumption DEF GiveUp, Left, Idle, RunInv, RunOK, Claimed
<1> QED BY <1>2, <1>3, <1>4, <1>5, <1>6, <1>7

LEMMA AdmitKeeps ==
    ASSUME IInv, NEW p \in Procs, Admit(p)
    PROVE  IInv'
<1> USE DEF IInv, artifacts, faults
<1>1. /\ Moved(p, "editing")
      /\ \A q \in Procs \ {p} : actor[q].at = "idle"
      /\ actor[p].run \in Runs
  BY GotoMoves, ProcsAssumption DEF Admit, At, ActorInv, ActorOK, WorkerSteps,
     RecoverySteps, BeforeCheck, LockInv, LockOK
<1>2. TypeOK'
  BY <1>1 DEF Admit, At, Moved, TypeOK
<1>3. TaskInv'
  BY <1>1 DEF Admit, At, Moved, TaskInv
<1>4. LockInv'
  BY <1>1, ProcsAssumption DEF Admit, At, Moved, LockInv, LockOK
<1>5. ActorInv'
  BY <1>1, ProcsAssumption DEF Admit, At, Moved, ActorInv, ActorOK, Claimed, WorkerSteps,
     BeforeCheck, Unchecked
<1>6. CheckInv'
  BY <1>1, ProcsAssumption DEF Admit, At, Moved, CheckInv, CheckOK, Claimed, Unlaunched,
     AtWork
<1>7. RunInv'
  BY <1>1, ProcsAssumption DEF Admit, At, Moved, RunInv, RunOK, Claimed
<1> QED BY <1>2, <1>3, <1>4, <1>5, <1>6, <1>7

LEMMA FailEarlyKeeps ==
    ASSUME IInv, NEW p \in Procs, FailEarly(p)
    PROVE  IInv'
<1> USE DEF IInv, artifacts, faults
<1>1. /\ actor[p].run \in Runs
      /\ \A q \in Procs \ {p} : actor[q].at = "idle"
  BY OthersIdle DEF FailEarly, ActorInv, ActorOK
<1>2. /\ actor' \in [Procs -> Actor]
      /\ actor'[p].at = "saving" /\ actor'[p].run = actor[p].run
      /\ \A q \in Procs \ {p} : actor'[q] = actor[q]
      /\ actor'[p].outcome = "failed"
  BY SaveMoves DEF FailEarly
<1>3. TypeOK'
  BY <1>1, <1>2 DEF FailEarly, TypeOK
<1>4. TaskInv'
  BY <1>1, <1>2 DEF FailEarly, TaskInv
<1>5. LockInv'
  BY <1>1, <1>2, ProcsAssumption DEF FailEarly, LockInv, LockOK
<1>6. ActorInv'
  BY <1>1, <1>2, ProcsAssumption DEF FailEarly, At, ActorInv, ActorOK, Claimed, WorkerSteps,
     BeforeCheck, Unchecked
<1>7. CheckInv'
  BY <1>1, <1>2, ProcsAssumption DEF FailEarly, At, CheckInv, CheckOK, Unlaunched, AtWork
<1>8. RunInv'
  BY <1>1, <1>2, ProcsAssumption DEF FailEarly, RunInv, RunOK, Claimed
<1> QED BY <1>3, <1>4, <1>5, <1>6, <1>7, <1>8

LEMMA SpawnCheckKeeps ==
    ASSUME IInv, NEW p \in Procs, SpawnCheck(p)
    PROVE  IInv'
<1> USE DEF IInv, artifacts, faults
<1>1. /\ Moved(p, "awaiting")
      /\ \A q \in Procs \ {p} : actor[q].at = "idle"
      /\ actor[p].run \in Runs
      /\ Unchecked(actor[p].run)
  BY GotoMoves, ProcsAssumption DEF SpawnCheck, At, ActorInv, ActorOK, WorkerSteps,
     RecoverySteps, BeforeCheck, LockInv, LockOK
<1>2. /\ check' \in [Procs -> Check]
      /\ check'[p].at = "verifying"
      /\ check'[p].run = actor[p].run
      /\ \A q \in Procs \ {p} : check'[q] = check[q]
  BY <1>1 DEF SpawnCheck, TypeOK, Check, CheckSteps, Runs
<1>3. TypeOK'
  BY <1>1, <1>2 DEF SpawnCheck, At, Moved, TypeOK
<1>4. TaskInv'
  BY <1>1, <1>2 DEF SpawnCheck, At, Moved, TaskInv
<1>5. LockInv'
  BY <1>1, <1>2, ProcsAssumption DEF SpawnCheck, At, Moved, LockInv, LockOK
<1>6. ActorInv'
  BY <1>1, <1>2, ProcsAssumption DEF SpawnCheck, At, Moved, ActorInv, ActorOK, Claimed,
     WorkerSteps, BeforeCheck, Unchecked
<1>7. CheckInv'
  BY <1>1, <1>2, ProcsAssumption DEF SpawnCheck, At, Moved, CheckInv, CheckOK, Claimed,
     Unlaunched, AtWork, Unchecked, ActorInv, ActorOK, BeforeCheck, LockInv, LockOK, TypeOK,
     Task, Runs
<1>8. RunInv'
  BY <1>1, <1>2, ProcsAssumption DEF SpawnCheck, At, Moved, RunInv, RunOK, Claimed
<1> QED BY <1>3, <1>4, <1>5, <1>6, <1>7, <1>8

LEMMA AwaitCheckKeeps ==
    ASSUME IInv, NEW p \in Procs, AwaitCheck(p)
    PROVE  IInv'
<1> USE DEF IInv, artifacts, faults
<1>1. /\ actor[p].run \in Runs
      /\ \A q \in Procs \ {p} : actor[q].at = "idle"
      /\ check[p].run = actor[p].run
      /\ evidence[actor[p].run].state = "absent"
  BY OthersIdle DEF AwaitCheck, ActorInv, ActorOK, At
<1>2. /\ actor' \in [Procs -> Actor]
      /\ actor'[p].at = "saving" /\ actor'[p].run = actor[p].run
      /\ \A q \in Procs \ {p} : actor'[q] = actor[q]
      /\ actor'[p].outcome = "ok" => check[p].at = "returned" /\ check[p].report = "completed"
  BY SaveMoves DEF AwaitCheck
<1>3. check[p].at # "none"
  BY DEF AwaitCheck
<1>4. /\ check[p].at = "returned" => result[actor[p].run] = [state |-> "whole", receipt |-> check[p].report]
      /\ \A q \in Procs \ {p} : check[q].at # "none" => check[q].run # actor[p].run
  BY <1>1, <1>3 DEF CheckInv, CheckOK
<1>5. check[p].at = "returned" /\ check[p].report = "completed" => launches[actor[p].run] = 1
  BY <1>1, <1>4 DEF RunInv, RunOK, Started
<1>6. /\ check' \in [Procs -> Check]
      /\ check'[p] = NoCheck
      /\ \A q \in Procs \ {p} : check'[q] = check[q]
  BY LimitsAssumption DEF AwaitCheck, TypeOK, NoCheck, Check, CheckSteps, Runs
<1>7. TypeOK'
  BY <1>1, <1>2, <1>3, <1>4, <1>5, <1>6 DEF AwaitCheck, At, TypeOK
<1>8. TaskInv'
  BY <1>1, <1>2, <1>3, <1>4, <1>5, <1>6 DEF AwaitCheck, At, TaskInv
<1>9. LockInv'
  BY <1>1, <1>2, <1>3, <1>4, <1>5, <1>6, ProcsAssumption DEF AwaitCheck, At, LockInv,
     LockOK, NoCheck
<1>10. ActorInv'
  BY <1>1, <1>2, <1>3, <1>4, <1>5, <1>6, ProcsAssumption DEF AwaitCheck, At, ActorInv,
     ActorOK, Claimed, WorkerSteps, BeforeCheck, Unchecked, NoCheck
<1>11. CheckInv'
  BY <1>1, <1>2, <1>3, <1>4, <1>5, <1>6, ProcsAssumption DEF AwaitCheck, At, CheckInv,
     CheckOK, Unlaunched, AtWork, NoCheck
<1>12. RunInv'
  BY <1>1, <1>2, <1>3, <1>4, <1>5, <1>6, ProcsAssumption DEF AwaitCheck, At, RunInv, RunOK,
     Claimed
<1> QED BY <1>7, <1>8, <1>9, <1>10, <1>11, <1>12

LEMMA CreateEvidenceKeeps ==
    ASSUME IInv, NEW p \in Procs, CreateEvidence(p)
    PROVE  IInv'
<1> USE DEF IInv, artifacts, faults
<1>1. /\ Moved(p, "sealing")
      /\ \A q \in Procs \ {p} : actor[q].at = "idle"
      /\ actor[p].run \in Runs
  BY GotoMoves, ProcsAssumption DEF CreateEvidence, At, ActorInv, ActorOK, WorkerSteps,
     RecoverySteps, BeforeCheck, LockInv, LockOK
<1>2. /\ \E status \in WorkerStatuses(p) :
           Changed(evidence, evidence', actor[p].run, [state |-> "partial", status |-> status, by |-> "worker"])
      /\ evidence' \in [Runs -> Evidence]
      /\ evidence[actor[p].run].state = "absent"
  BY <1>1 DEF CreateEvidence, Changed, TypeOK, Evidence, Writing, Proof, Results,
     WorkerStatuses, At
<1>3. /\ evidence'[actor[p].run].state = "partial" /\ evidence'[actor[p].run].by = "worker"
      /\ evidence'[actor[p].run].status \in Results
      /\ evidence'[actor[p].run].status = "ReviewReady" => actor[p].outcome = "ok"
      /\ \A r \in Runs \ {actor[p].run} : evidence'[r] = evidence[r]
      /\ Unchecked(actor[p].run)
  BY <1>1, <1>2 DEF Changed, WorkerStatuses, Results, CreateEvidence, At, ActorInv, ActorOK,
     WorkerSteps, BeforeCheck, LockInv, LockOK
<1>4. /\ actor[p].run \notin orphans /\ Claimed(actor[p].run)
      /\ actor[p].outcome = "ok" => launches[actor[p].run] = 1 /\ result[actor[p].run] = [state |-> "whole", receipt |-> "completed"]
  BY DEF CreateEvidence, At, ActorInv, ActorOK, WorkerSteps, BeforeCheck, LockInv, LockOK
<1>5. Runs \subseteq Nat
  BY LimitRuns
<1>6. TypeOK'
  BY <1>1, <1>2, <1>3, <1>4, <1>5 DEF CreateEvidence, At, Moved, TypeOK
<1>7. TaskInv'
  BY <1>1, <1>2, <1>3, <1>4, <1>5 DEF CreateEvidence, At, Moved, TaskInv
<1>8. LockInv'
  BY <1>1, <1>2, <1>3, <1>4, <1>5, ProcsAssumption DEF CreateEvidence, At, Moved, LockInv,
     LockOK
<1>9. ActorInv'
  BY <1>1, <1>2, <1>3, <1>4, <1>5, ProcsAssumption DEF CreateEvidence, At, Moved, ActorInv,
     ActorOK, Claimed, WorkerSteps, BeforeCheck, Unchecked, LockInv, LockOK
<1>10. CheckInv'
  BY <1>1, <1>2, <1>3, <1>4, <1>5, ProcsAssumption DEF CreateEvidence, At, Moved, CheckInv,
     CheckOK, Claimed, Unlaunched, AtWork, Unchecked, LockInv, LockOK
<1>11. RunInv'
  <2> SUFFICES ASSUME NEW r \in Runs PROVE RunOK(r)'
    BY DEF RunInv
  <2>1. CASE r = actor[p].run
    BY <2>1, <1>1, <1>2, <1>3, <1>4, <1>5, ProcsAssumption DEF CreateEvidence, At, Moved,
       RunInv, RunOK, Claimed, ActorInv, ActorOK, WorkerSteps
  <2>2. CASE r # actor[p].run
    BY <2>2, <1>1, <1>2, <1>3, <1>4, <1>5, ProcsAssumption DEF CreateEvidence, At, Moved,
       RunInv, RunOK, Claimed, ActorInv, ActorOK, WorkerSteps
  <2> QED BY <2>1, <2>2
<1> QED BY <1>6, <1>7, <1>8, <1>9, <1>10, <1>11

LEMMA SyncEvidenceKeeps ==
    ASSUME IInv, NEW p \in Procs, SyncEvidence(p)
    PROVE  IInv'
<1> USE DEF IInv, artifacts, faults
<1>1. /\ Moved(p, "publishing")
      /\ \A q \in Procs \ {p} : actor[q].at = "idle"
      /\ actor[p].run \in Runs
      /\ evidence[actor[p].run].state = "partial"
      /\ Unchecked(actor[p].run)
  BY GotoMoves, ProcsAssumption DEF SyncEvidence, At, ActorInv, ActorOK, WorkerSteps,
     RecoverySteps, BeforeCheck, LockInv, LockOK
<1>2. evidence[actor[p].run] \in Evidence
  BY <1>1 DEF TypeOK
<1>3. [evidence[actor[p].run] EXCEPT !.state = "whole"] \in Evidence
  BY <1>2 DEF Evidence, Writing
<1>4. /\ evidence' \in [Runs -> Evidence]
      /\ evidence'[actor[p].run] = [evidence[actor[p].run] EXCEPT !.state = "whole"]
      /\ \A r \in Runs \ {actor[p].run} : evidence'[r] = evidence[r]
  BY <1>1, <1>2, <1>3 DEF SyncEvidence, TypeOK
<1>5. /\ evidence'[actor[p].run].status = evidence[actor[p].run].status
      /\ evidence'[actor[p].run].by = evidence[actor[p].run].by
      /\ evidence'[actor[p].run].state = "whole"
  BY <1>2, <1>4 DEF Evidence
<1>6. TypeOK'
  BY <1>1, <1>2, <1>3, <1>4, <1>5 DEF SyncEvidence, At, Moved, TypeOK
<1>7. TaskInv'
  BY <1>1, <1>2, <1>3, <1>4, <1>5 DEF SyncEvidence, At, Moved, TaskInv
<1>8. LockInv'
  BY <1>1, <1>2, <1>3, <1>4, <1>5, ProcsAssumption DEF SyncEvidence, At, Moved, LockInv,
     LockOK
<1>9. ActorInv'
  BY <1>1, <1>2, <1>3, <1>4, <1>5, ProcsAssumption DEF SyncEvidence, At, Moved, ActorInv,
     ActorOK, Claimed, WorkerSteps, BeforeCheck, Unchecked
<1>10. CheckInv'
  BY <1>1, <1>2, <1>3, <1>4, <1>5, ProcsAssumption DEF SyncEvidence, At, Moved, CheckInv,
     CheckOK, Unlaunched, AtWork, Unchecked
<1>11. RunInv'
  <2> SUFFICES ASSUME NEW r \in Runs PROVE RunOK(r)'
    BY DEF RunInv
  <2>1. CASE r = actor[p].run
    BY <2>1, <1>1, <1>2, <1>3, <1>4, <1>5, ProcsAssumption DEF SyncEvidence, At, Moved,
       RunInv, RunOK, Claimed, ActorInv, ActorOK, WorkerSteps, Unchecked
  <2>2. CASE r # actor[p].run
    BY <2>2, <1>1, <1>2, <1>3, <1>4, <1>5, ProcsAssumption DEF SyncEvidence, At, Moved,
       RunInv, RunOK, Claimed, ActorInv, ActorOK, WorkerSteps, Unchecked
  <2> QED BY <2>1, <2>2
<1> QED BY <1>6, <1>7, <1>8, <1>9, <1>10, <1>11

LEMMA PublishKeeps ==
    ASSUME IInv, NEW p \in Procs, Publish(p)
    PROVE  IInv'
<1> USE DEF IInv, artifacts, faults
<1>1. /\ Left(p)
      /\ \A q \in Procs \ {p} : actor[q].at = "idle"
  BY StopMoves, ProcsAssumption DEF Publish, At, ActorInv, ActorOK, WorkerSteps,
     BeforeCheck, LockInv, LockOK
<1>2. /\ actor[p].run \in Runs
      /\ evidence[actor[p].run].status \in Results
      /\ task' \in Task
      /\ task'.status = evidence[actor[p].run].status
      /\ task'.run = task.run
      /\ task.run = actor[p].run
      /\ Changed(finished, finished', actor[p].run, evidence[actor[p].run].status)
      /\ finished' \in [Runs -> Results \cup {"none"}]
  BY DEF Publish, FinishReceipt, Claimed, TypeOK, Task, Changed, RunInv, RunOK, At,
     ActorInv, ActorOK, WorkerSteps, BeforeCheck, LockInv, LockOK
<1>3. TypeOK'
  BY <1>1, <1>2 DEF Publish, At, Left, Idle, TypeOK
<1>4. TaskInv'
  BY <1>1, <1>2 DEF Publish, At, Left, Idle, TaskInv
<1>5. LockInv'
  BY <1>1, <1>2, ProcsAssumption DEF Publish, At, Left, Idle, LockInv, LockOK
<1>6. ActorInv'
  BY <1>1, <1>2, ProcsAssumption DEF Publish, At, Left, Idle, ActorInv, ActorOK, Claimed,
     WorkerSteps, BeforeCheck, Unchecked, FinishReceipt, Changed, Results
<1>7. CheckInv'
  BY <1>1, <1>2, ProcsAssumption DEF Publish, At, Left, Idle, CheckInv, CheckOK, Claimed,
     Unlaunched, AtWork, FinishReceipt
<1>8. RunInv'
  BY <1>1, <1>2, ProcsAssumption DEF Publish, At, Left, Idle, RunInv, RunOK, Claimed,
     FinishReceipt, Changed, ActorInv, ActorOK, Results
<1> QED BY <1>3, <1>4, <1>5, <1>6, <1>7, <1>8

-----------------------------------------------------------------------------
(* The check in its closure. *)

LEMMA VerifyStartKeeps ==
    ASSUME IInv, NEW p \in Procs, VerifyStart(p)
    PROVE  IInv'
<1> USE DEF IInv, artifacts, faults
<1>1. /\ CheckMoved(p, "intending")
      /\ check[p].run \in Runs
  BY CheckMoves DEF VerifyStart, At, CheckAt, CheckInv, CheckOK, CheckSteps, Unlaunched,
     AtWork
<1>2. TypeOK'
  BY <1>1 DEF VerifyStart, CheckAt, CheckMoved, TypeOK
<1>3. TaskInv'
  BY <1>1 DEF VerifyStart, CheckAt, CheckMoved, TaskInv
<1>4. LockInv'
  BY <1>1, ProcsAssumption DEF VerifyStart, CheckAt, CheckMoved, LockInv, LockOK
<1>5. ActorInv'
  BY <1>1, ProcsAssumption DEF VerifyStart, At, CheckAt, CheckMoved, ActorInv, ActorOK,
     Claimed, WorkerSteps, BeforeCheck, Unchecked
<1>6. CheckInv'
  BY <1>1, ProcsAssumption DEF VerifyStart, At, CheckAt, CheckMoved, CheckInv, CheckOK,
     Unlaunched, AtWork
<1>7. RunInv'
  BY <1>1, ProcsAssumption DEF VerifyStart, CheckAt, CheckMoved, RunInv, RunOK, Claimed
<1> QED BY <1>2, <1>3, <1>4, <1>5, <1>6, <1>7

LEMMA CreateIntentKeeps ==
    ASSUME IInv, NEW p \in Procs, CreateIntent(p)
    PROVE  IInv'
<1> USE DEF IInv, artifacts, faults
<1>1. /\ CheckMoved(p, "recordingIntent")
      /\ check[p].run \in Runs
  BY CheckMoves DEF CreateIntent, At, CheckAt, CheckInv, CheckOK, CheckSteps, Unlaunched,
     AtWork
<1>2. /\ Changed(intent, intent', check[p].run, "partial")
      /\ intent' \in [Runs -> Writing]
  BY <1>1 DEF CreateIntent, Changed, TypeOK, Writing
<1>3. /\ launches[check[p].run] = 0
      /\ check[p].run \in orphans \/ (At(p, "awaiting") /\ actor[p].run = check[p].run)
      /\ check[p].run <= task.run
      /\ check[p].run \in orphans \/ evidence[check[p].run].state = "absent"
  BY DEF CreateIntent, At, CheckAt, CheckInv, CheckOK, Unlaunched, AtWork
<1>4. TypeOK'
  BY <1>1, <1>2, <1>3 DEF CreateIntent, At, CheckAt, CheckMoved, TypeOK
<1>5. TaskInv'
  BY <1>1, <1>2, <1>3 DEF CreateIntent, At, CheckAt, CheckMoved, TaskInv
<1>6. LockInv'
  BY <1>1, <1>2, <1>3, ProcsAssumption DEF CreateIntent, At, CheckAt, CheckMoved, LockInv,
     LockOK
<1>7. ActorInv'
  BY <1>1, <1>2, <1>3, ProcsAssumption DEF CreateIntent, At, CheckAt, CheckMoved, ActorInv,
     ActorOK, Claimed, WorkerSteps, BeforeCheck, Unchecked, Changed, LockInv, LockOK
<1>8. CheckInv'
  BY <1>1, <1>2, <1>3, ProcsAssumption DEF CreateIntent, At, CheckAt, CheckMoved, CheckInv,
     CheckOK, Unlaunched, AtWork, Changed
<1>9. RunInv'
  <2> SUFFICES ASSUME NEW r \in Runs PROVE RunOK(r)'
    BY DEF RunInv
  <2>1. CASE r = check[p].run
    BY <2>1, <1>1, <1>2, <1>3, ProcsAssumption DEF CreateIntent, At, CheckAt, CheckMoved,
       RunInv, RunOK, Claimed, Changed, TypeOK, Writing, Task, Runs
  <2>2. CASE r # check[p].run
    BY <2>2, <1>1, <1>2, <1>3, ProcsAssumption DEF CreateIntent, At, CheckAt, CheckMoved,
       RunInv, RunOK, Claimed, Changed, TypeOK, Writing, Task, Runs
  <2> QED BY <2>1, <2>2
<1> QED BY <1>4, <1>5, <1>6, <1>7, <1>8, <1>9

LEMMA SyncIntentKeeps ==
    ASSUME IInv, NEW p \in Procs, SyncIntent(p)
    PROVE  IInv'
<1> USE DEF IInv, artifacts, faults
<1>1. /\ CheckMoved(p, "launching")
      /\ check[p].run \in Runs
  BY CheckMoves DEF SyncIntent, At, CheckAt, CheckInv, CheckOK, CheckSteps, Unlaunched,
     AtWork
<1>2. /\ Changed(intent, intent', check[p].run, "whole")
      /\ intent' \in [Runs -> Writing]
  BY <1>1 DEF SyncIntent, Changed, TypeOK, Writing
<1>3. /\ launches[check[p].run] = 0
      /\ check[p].run \in orphans \/ (At(p, "awaiting") /\ actor[p].run = check[p].run)
      /\ check[p].run <= task.run
      /\ check[p].run \in orphans \/ evidence[check[p].run].state = "absent"
  BY DEF SyncIntent, At, CheckAt, CheckInv, CheckOK, Unlaunched, AtWork
<1>4. TypeOK'
  BY <1>1, <1>2, <1>3 DEF SyncIntent, At, CheckAt, CheckMoved, TypeOK
<1>5. TaskInv'
  BY <1>1, <1>2, <1>3 DEF SyncIntent, At, CheckAt, CheckMoved, TaskInv
<1>6. LockInv'
  BY <1>1, <1>2, <1>3, ProcsAssumption DEF SyncIntent, At, CheckAt, CheckMoved, LockInv,
     LockOK
<1>7. ActorInv'
  BY <1>1, <1>2, <1>3, ProcsAssumption DEF SyncIntent, At, CheckAt, CheckMoved, ActorInv,
     ActorOK, Claimed, WorkerSteps, BeforeCheck, Unchecked, Changed, LockInv, LockOK
<1>8. CheckInv'
  BY <1>1, <1>2, <1>3, ProcsAssumption DEF SyncIntent, At, CheckAt, CheckMoved, CheckInv,
     CheckOK, Unlaunched, AtWork, Changed
<1>9. RunInv'
  <2> SUFFICES ASSUME NEW r \in Runs PROVE RunOK(r)'
    BY DEF RunInv
  <2>1. CASE r = check[p].run
    BY <2>1, <1>1, <1>2, <1>3, ProcsAssumption DEF SyncIntent, At, CheckAt, CheckMoved,
       RunInv, RunOK, Claimed, Changed, TypeOK, Task, Runs
  <2>2. CASE r # check[p].run
    BY <2>2, <1>1, <1>2, <1>3, ProcsAssumption DEF SyncIntent, At, CheckAt, CheckMoved,
       RunInv, RunOK, Claimed, Changed, TypeOK, Task, Runs
  <2> QED BY <2>1, <2>2
<1> QED BY <1>4, <1>5, <1>6, <1>7, <1>8, <1>9

LEMMA FailCheckKeeps ==
    ASSUME IInv, NEW p \in Procs, FailCheck(p)
    PROVE  IInv'
<1> USE DEF IInv, artifacts, faults
<1>1. /\ CheckMoved(p, "error")
      /\ check[p].run \in Runs
  BY CheckMoves DEF FailCheck, At, CheckInv, CheckOK, CheckSteps, Unlaunched, AtWork
<1>2. TypeOK'
  BY <1>1 DEF FailCheck, CheckMoved, TypeOK
<1>3. TaskInv'
  BY <1>1 DEF FailCheck, CheckMoved, TaskInv
<1>4. LockInv'
  BY <1>1, ProcsAssumption DEF FailCheck, CheckMoved, LockInv, LockOK
<1>5. ActorInv'
  BY <1>1, ProcsAssumption DEF FailCheck, At, CheckMoved, ActorInv, ActorOK, Claimed,
     WorkerSteps, BeforeCheck, Unchecked
<1>6. CheckInv'
  BY <1>1, ProcsAssumption DEF FailCheck, At, CheckMoved, CheckInv, CheckOK, Unlaunched,
     AtWork
<1>7. RunInv'
  BY <1>1, ProcsAssumption DEF FailCheck, CheckMoved, RunInv, RunOK, Claimed
<1> QED BY <1>2, <1>3, <1>4, <1>5, <1>6, <1>7

LEMMA LaunchKeeps ==
    ASSUME IInv, NEW p \in Procs, Launch(p)
    PROVE  IInv'
<1> USE DEF IInv, artifacts, faults
<1>1. /\ CheckMoved(p, "running")
      /\ check[p].run \in Runs
  BY CheckMoves DEF Launch, At, CheckAt, CheckInv, CheckOK, CheckSteps, Unlaunched, AtWork
<1>2. /\ launches[check[p].run] = 0
      /\ result[check[p].run].state = "absent"
      /\ check[p].run \in orphans \/ (At(p, "awaiting") /\ actor[p].run = check[p].run)
      /\ check[p].run <= task.run
      /\ intent[check[p].run] = "whole"
      /\ check[p].run \in orphans \/ evidence[check[p].run].state = "absent"
  BY DEF Launch, At, CheckAt, CheckInv, CheckOK, Unlaunched, AtWork
<1>3. /\ Changed(launches, launches', check[p].run, 1)
      /\ launches' \in [Runs -> Nat]
  BY <1>1, <1>2 DEF Launch, Changed, TypeOK
<1>4. TypeOK'
  BY <1>1, <1>2, <1>3 DEF Launch, At, CheckAt, CheckMoved, TypeOK
<1>5. TaskInv'
  BY <1>1, <1>2, <1>3 DEF Launch, At, CheckAt, CheckMoved, TaskInv
<1>6. LockInv'
  BY <1>1, <1>2, <1>3, ProcsAssumption DEF Launch, At, CheckAt, CheckMoved, LockInv, LockOK
<1>7. ActorInv'
  BY <1>1, <1>2, <1>3, ProcsAssumption DEF Launch, At, CheckAt, CheckMoved, ActorInv,
     ActorOK, Claimed, WorkerSteps, BeforeCheck, Unchecked, Changed, LockInv, LockOK
<1>8. CheckInv'
  BY <1>1, <1>2, <1>3, ProcsAssumption DEF Launch, At, CheckAt, CheckMoved, CheckInv,
     CheckOK, Unlaunched, AtWork, Changed
<1>9. RunInv'
  <2> SUFFICES ASSUME NEW r \in Runs PROVE RunOK(r)'
    BY DEF RunInv
  <2>1. CASE r = check[p].run
    BY <2>1, <1>1, <1>2, <1>3, ProcsAssumption DEF Launch, At, CheckAt, CheckMoved, RunInv,
       RunOK, Claimed, Changed, TypeOK, Task, Runs
  <2>2. CASE r # check[p].run
    BY <2>2, <1>1, <1>2, <1>3, ProcsAssumption DEF Launch, At, CheckAt, CheckMoved, RunInv,
       RunOK, Claimed, Changed, TypeOK, Task, Runs
  <2> QED BY <2>1, <2>2
<1> QED BY <1>4, <1>5, <1>6, <1>7, <1>8, <1>9

LEMMA FailLaunchKeeps ==
    ASSUME IInv, NEW p \in Procs, FailLaunch(p)
    PROVE  IInv'
<1> USE DEF IInv, artifacts, faults
<1>1. /\ check' \in [Procs -> Check]
      /\ check'[p].at = "reporting" /\ check'[p].run = check[p].run
      /\ \A q \in Procs \ {p} : check'[q] = check[q]
      /\ check'[p].report = "start-failed"
  BY ReportMoves DEF FailLaunch, Receipts
<1>2. /\ check[p].at # "none"
      /\ check[p].run \in Runs
      /\ launches[check[p].run] = Started("start-failed")
      /\ "start-failed" \in Receipts
  BY DEF FailLaunch, Started, Receipts, At, CheckAt, CheckInv, CheckOK, Unlaunched, AtWork
<1>3. /\ check[p].run \in Runs /\ check[p].run <= task.run
      /\ \A q \in Procs \ {p} : check[q].at # "none" => check[q].run # check[p].run
      /\ actor[p].at = "idle" \/ (At(p, "awaiting") /\ actor[p].run = check[p].run)
      /\ intent[check[p].run] = "whole" /\ result[check[p].run].state = "absent"
      /\ check[p].run \in orphans \/ evidence[check[p].run].state = "absent"
  BY <1>2 DEF FailLaunch, At, CheckAt, CheckInv, CheckOK, Unlaunched, AtWork
<1>4. TypeOK'
  BY <1>1, <1>2, <1>3 DEF FailLaunch, At, CheckAt, TypeOK
<1>5. TaskInv'
  BY <1>1, <1>2, <1>3 DEF FailLaunch, At, CheckAt, TaskInv
<1>6. LockInv'
  BY <1>1, <1>2, <1>3, ProcsAssumption DEF FailLaunch, At, CheckAt, LockInv, LockOK
<1>7. ActorInv'
  BY <1>1, <1>2, <1>3, ProcsAssumption DEF FailLaunch, At, CheckAt, ActorInv, ActorOK,
     Claimed, WorkerSteps, BeforeCheck, Unchecked
<1>8. CheckInv'
  <2> SUFFICES ASSUME NEW q \in Procs PROVE CheckOK(q)'
    BY DEF CheckInv
  <2>1. CASE q = p
    BY <2>1, <1>1, <1>2, <1>3, ProcsAssumption DEF FailLaunch, At, CheckAt, CheckInv,
       CheckOK, Unlaunched, AtWork
  <2>2. CASE q # p
    BY <2>2, <1>1, <1>2, <1>3, ProcsAssumption DEF FailLaunch, At, CheckAt, CheckInv,
       CheckOK, Unlaunched, AtWork
  <2> QED BY <2>1, <2>2
<1>9. RunInv'
  BY <1>1, <1>2, <1>3, ProcsAssumption DEF FailLaunch, At, CheckAt, RunInv, RunOK, Claimed
<1> QED BY <1>4, <1>5, <1>6, <1>7, <1>8, <1>9

LEMMA ReportKeeps ==
    ASSUME IInv, NEW p \in Procs, Report(p)
    PROVE  IInv'
<1> USE DEF IInv, artifacts, faults
<1>1. /\ check' \in [Procs -> Check]
      /\ check'[p].at = "reporting" /\ check'[p].run = check[p].run
      /\ \A q \in Procs \ {p} : check'[q] = check[q]
      /\ check'[p].report \in Reports
  BY ReportMoves DEF Report, Receipts
<1>2. /\ check[p].at # "none"
      /\ check[p].run \in Runs
      /\ launches[check[p].run] = Started(check'[p].report)
      /\ check'[p].report \in Receipts
  BY <1>1 DEF Report, Started, Reports, Receipts, At, CheckAt, CheckInv, CheckOK,
     Unlaunched, AtWork
<1>3. /\ check[p].run \in Runs /\ check[p].run <= task.run
      /\ \A q \in Procs \ {p} : check[q].at # "none" => check[q].run # check[p].run
      /\ actor[p].at = "idle" \/ (At(p, "awaiting") /\ actor[p].run = check[p].run)
      /\ intent[check[p].run] = "whole" /\ result[check[p].run].state = "absent"
      /\ check[p].run \in orphans \/ evidence[check[p].run].state = "absent"
  BY <1>2 DEF Report, At, CheckAt, CheckInv, CheckOK, Unlaunched, AtWork
<1>4. TypeOK'
  BY <1>1, <1>2, <1>3 DEF Report, At, CheckAt, TypeOK
<1>5. TaskInv'
  BY <1>1, <1>2, <1>3 DEF Report, At, CheckAt, TaskInv
<1>6. LockInv'
  BY <1>1, <1>2, <1>3, ProcsAssumption DEF Report, At, CheckAt, LockInv, LockOK
<1>7. ActorInv'
  BY <1>1, <1>2, <1>3, ProcsAssumption DEF Report, At, CheckAt, ActorInv, ActorOK, Claimed,
     WorkerSteps, BeforeCheck, Unchecked
<1>8. CheckInv'
  <2> SUFFICES ASSUME NEW q \in Procs PROVE CheckOK(q)'
    BY DEF CheckInv
  <2>1. CASE q = p
    BY <2>1, <1>1, <1>2, <1>3, ProcsAssumption DEF Report, At, CheckAt, CheckInv, CheckOK,
       Unlaunched, AtWork
  <2>2. CASE q # p
    BY <2>2, <1>1, <1>2, <1>3, ProcsAssumption DEF Report, At, CheckAt, CheckInv, CheckOK,
       Unlaunched, AtWork
  <2> QED BY <2>1, <2>2
<1>9. RunInv'
  BY <1>1, <1>2, <1>3, ProcsAssumption DEF Report, At, CheckAt, RunInv, RunOK, Claimed
<1> QED BY <1>4, <1>5, <1>6, <1>7, <1>8, <1>9

LEMMA CreateResultKeeps ==
    ASSUME IInv, NEW p \in Procs, CreateResult(p)
    PROVE  IInv'
<1> USE DEF IInv, artifacts, faults
<1>1. /\ CheckMoved(p, "recordingResult")
      /\ check[p].run \in Runs
  BY CheckMoves DEF CreateResult, At, CheckAt, CheckInv, CheckOK, CheckSteps, Unlaunched,
     AtWork
<1>2. /\ check[p].report \in Receipts
      /\ launches[check[p].run] = Started(check[p].report)
      /\ result[check[p].run].state = "absent"
      /\ intent[check[p].run] = "whole"
      /\ check[p].run <= task.run
      /\ check[p].run \in orphans \/ evidence[check[p].run].state = "absent"
  BY DEF CreateResult, At, CheckAt, CheckInv, CheckOK, Unlaunched, AtWork
<1>3. /\ result' \in [Runs -> Result]
      /\ Changed(result, result', check[p].run, [state |-> "partial", receipt |-> check[p].report])
  BY <1>1, <1>2 DEF CreateResult, Changed, TypeOK, Result, Check, Writing
<1>4. TypeOK'
  BY <1>1, <1>2, <1>3 DEF CreateResult, CheckAt, CheckMoved, TypeOK
<1>5. TaskInv'
  BY <1>1, <1>2, <1>3 DEF CreateResult, CheckAt, CheckMoved, TaskInv
<1>6. LockInv'
  BY <1>1, <1>2, <1>3, ProcsAssumption DEF CreateResult, CheckAt, CheckMoved, LockInv,
     LockOK
<1>7. ActorInv'
  BY <1>1, <1>2, <1>3, ProcsAssumption DEF CreateResult, At, CheckAt, CheckMoved, ActorInv,
     ActorOK, Claimed, WorkerSteps, BeforeCheck, Unchecked, Changed, CheckInv, CheckOK,
     LockInv, LockOK
<1>8. CheckInv'
  BY <1>1, <1>2, <1>3, ProcsAssumption DEF CreateResult, At, CheckAt, CheckMoved, CheckInv,
     CheckOK, Unlaunched, AtWork, Changed
<1>9. RunInv'
  <2> SUFFICES ASSUME NEW r \in Runs PROVE RunOK(r)'
    BY DEF RunInv
  <2>1. CASE r = check[p].run
    BY <2>1, <1>1, <1>2, <1>3, ProcsAssumption DEF CreateResult, CheckAt, CheckMoved,
       RunInv, RunOK, Claimed, Changed, TypeOK, Task, Runs
  <2>2. CASE r # check[p].run
    BY <2>2, <1>1, <1>2, <1>3, ProcsAssumption DEF CreateResult, CheckAt, CheckMoved,
       RunInv, RunOK, Claimed, Changed, TypeOK, Task, Runs
  <2> QED BY <2>1, <2>2
<1> QED BY <1>4, <1>5, <1>6, <1>7, <1>8, <1>9

LEMMA SyncResultKeeps ==
    ASSUME IInv, NEW p \in Procs, SyncResult(p)
    PROVE  IInv'
<1> USE DEF IInv, artifacts, faults
<1>1. /\ CheckMoved(p, "returned")
      /\ check[p].run \in Runs
  BY CheckMoves DEF SyncResult, At, CheckAt, CheckInv, CheckOK, CheckSteps, Unlaunched,
     AtWork
<1>2. result[check[p].run] = [state |-> "partial", receipt |-> check[p].report]
  BY <1>1 DEF SyncResult, At, CheckAt, CheckInv, CheckOK, Unlaunched, AtWork
<1>3. /\ check[p].report \in Receipts
      /\ check[p].run <= task.run
      /\ check[p].run \in orphans \/ evidence[check[p].run].state = "absent"
  BY <1>1, <1>2 DEF SyncResult, RunInv, RunOK, At, CheckAt, CheckInv, CheckOK, Unlaunched,
     AtWork
<1>4. /\ [result[check[p].run] EXCEPT !.state = "whole"] = [state |-> "whole", receipt |-> check[p].report]
      /\ [state |-> "whole", receipt |-> check[p].report] \in Result
  BY <1>2, <1>3 DEF Result, Writing
<1>5. /\ result' \in [Runs -> Result]
      /\ Changed(result, result', check[p].run, [state |-> "whole", receipt |-> check[p].report])
  BY <1>1, <1>2, <1>4 DEF SyncResult, Changed, TypeOK
<1>6. TypeOK'
  BY <1>1, <1>2, <1>3, <1>4, <1>5 DEF SyncResult, CheckAt, CheckMoved, TypeOK
<1>7. TaskInv'
  BY <1>1, <1>2, <1>3, <1>4, <1>5 DEF SyncResult, CheckAt, CheckMoved, TaskInv
<1>8. LockInv'
  BY <1>1, <1>2, <1>3, <1>4, <1>5, ProcsAssumption DEF SyncResult, CheckAt, CheckMoved,
     LockInv, LockOK
<1>9. ActorInv'
  BY <1>1, <1>2, <1>3, <1>4, <1>5, ProcsAssumption DEF SyncResult, At, CheckAt, CheckMoved,
     ActorInv, ActorOK, Claimed, WorkerSteps, BeforeCheck, Unchecked, Changed, CheckInv,
     CheckOK, LockInv, LockOK
<1>10. CheckInv'
  BY <1>1, <1>2, <1>3, <1>4, <1>5, ProcsAssumption DEF SyncResult, At, CheckAt, CheckMoved,
     CheckInv, CheckOK, Unlaunched, AtWork, Changed
<1>11. RunInv'
  <2> SUFFICES ASSUME NEW r \in Runs PROVE RunOK(r)'
    BY DEF RunInv
  <2>1. CASE r = check[p].run
    BY <2>1, <1>1, <1>2, <1>3, <1>4, <1>5, ProcsAssumption DEF SyncResult, CheckAt,
       CheckMoved, RunInv, RunOK, Claimed, Changed, TypeOK, Task, Runs
  <2>2. CASE r # check[p].run
    BY <2>2, <1>1, <1>2, <1>3, <1>4, <1>5, ProcsAssumption DEF SyncResult, CheckAt,
       CheckMoved, RunInv, RunOK, Claimed, Changed, TypeOK, Task, Runs
  <2> QED BY <2>1, <2>2
<1> QED BY <1>6, <1>7, <1>8, <1>9, <1>10, <1>11

-----------------------------------------------------------------------------
(* Recovery. *)

LEMMA TakeOverKeeps ==
    ASSUME IInv, NEW p \in Procs, TakeOver(p)
    PROVE  IInv'
<1> USE DEF IInv, artifacts, faults
<1>1. /\ actor[p].at = "idle" /\ check[p].at = "none"
      /\ \A q \in Procs : actor[q].at = "idle"
  BY ProcsAssumption DEF TakeOver, LockInv, LockOK, Idle, NoCheck
<1>2. /\ task.run \in Runs
      /\ Claimed(task.run)
  BY DEF TakeOver, TaskInv, Claimed
<1>3. /\ actor' \in [Procs -> Actor]
      /\ actor'[p].at = "inspecting" /\ actor'[p].run = task.run /\ actor'[p].outcome = "none"
      /\ \A q \in Procs \ {p} : actor'[q] = actor[q]
  BY <1>2 DEF TakeOver, TypeOK, Actor, RecoverySteps, Task, Runs
<1>4. TypeOK'
  BY <1>1, <1>2, <1>3 DEF TakeOver, TypeOK
<1>5. TaskInv'
  BY <1>1, <1>2, <1>3 DEF TakeOver, TaskInv
<1>6. LockInv'
  BY <1>1, <1>2, <1>3, ProcsAssumption DEF TakeOver, LockInv, LockOK
<1>7. ActorInv'
  BY <1>1, <1>2, <1>3, ProcsAssumption DEF TakeOver, At, ActorInv, ActorOK, Claimed,
     WorkerSteps, BeforeCheck, Unchecked
<1>8. CheckInv'
  BY <1>1, <1>2, <1>3, ProcsAssumption DEF TakeOver, At, CheckInv, CheckOK, Claimed,
     Unlaunched, AtWork, TypeOK
<1>9. RunInv'
  BY <1>1, <1>2, <1>3, ProcsAssumption DEF TakeOver, RunInv, RunOK, Claimed
<1> QED BY <1>4, <1>5, <1>6, <1>7, <1>8, <1>9

LEMMA InspectKeeps ==
    ASSUME IInv, NEW p \in Procs, Inspect(p)
    PROVE  IInv'
<1> USE DEF IInv, artifacts, faults
<1>1. /\ actor' \in [Procs -> Actor]
      /\ actor'[p].run = actor[p].run /\ actor'[p].outcome = actor[p].outcome
      /\ \A q \in Procs \ {p} : actor'[q] = actor[q]
      /\ actor[p].run \in Runs
      /\ \A q \in Procs \ {p} : actor[q].at = "idle"
  BY GotoMoves, OthersIdle DEF Inspect, Moved, At, ActorInv, ActorOK, WorkerSteps,
     RecoverySteps, BeforeCheck, LockInv, LockOK
<1>2. /\ \/ actor'[p].at = "submitting" /\ evidence[actor[p].run].state = "whole"
         \/ actor'[p].at \in {"provingBefore", "provingAfter"}
      /\ actor[p].at \in RecoverySteps
  BY GotoMoves DEF Inspect, Moved, At, RecoverySteps
<1>3. TypeOK'
  BY <1>1, <1>2 DEF Inspect, At, TypeOK
<1>4. TaskInv'
  BY <1>1, <1>2 DEF Inspect, At, TaskInv
<1>5. LockInv'
  BY <1>1, <1>2, ProcsAssumption DEF Inspect, At, LockInv, LockOK
<1>6. ActorInv'
  BY <1>1, <1>2, ProcsAssumption DEF Inspect, At, ActorInv, ActorOK, Claimed, WorkerSteps,
     RecoverySteps, BeforeCheck, Unchecked, ProvenBefore, ProvenAfter
<1>7. CheckInv'
  BY <1>1, <1>2, ProcsAssumption DEF Inspect, At, CheckInv, CheckOK, Unlaunched, AtWork
<1>8. RunInv'
  BY <1>1, <1>2, ProcsAssumption DEF Inspect, At, RunInv, RunOK, Claimed
<1> QED BY <1>3, <1>4, <1>5, <1>6, <1>7, <1>8

LEMMA ProveKeeps ==
    ASSUME IInv, NEW p \in Procs, Prove(p)
    PROVE  IInv'
<1> USE DEF IInv, artifacts, faults
<1>1. /\ actor' \in [Procs -> Actor]
      /\ actor'[p].run = actor[p].run /\ actor'[p].outcome = actor[p].outcome
      /\ \A q \in Procs \ {p} : actor'[q] = actor[q]
      /\ actor[p].run \in Runs
      /\ \A q \in Procs \ {p} : actor[q].at = "idle"
  BY GotoMoves, OthersIdle DEF Prove, Moved, At, ActorInv, ActorOK, WorkerSteps,
     RecoverySteps, BeforeCheck, LockInv, LockOK
<1>2. /\ \/ actor'[p].at = "savingBefore" /\ ProvenBefore(actor[p].run)
         \/ actor'[p].at = "savingAfter" /\ ProvenAfter(actor[p].run)
      /\ actor[p].at \in RecoverySteps
  BY GotoMoves DEF Prove, Moved, At, RecoverySteps
<1>3. TypeOK'
  BY <1>1, <1>2 DEF Prove, At, TypeOK
<1>4. TaskInv'
  BY <1>1, <1>2 DEF Prove, At, TaskInv
<1>5. LockInv'
  BY <1>1, <1>2, ProcsAssumption DEF Prove, At, LockInv, LockOK
<1>6. ActorInv'
  BY <1>1, <1>2, ProcsAssumption DEF Prove, At, ActorInv, ActorOK, Claimed, WorkerSteps,
     RecoverySteps, BeforeCheck, Unchecked, ProvenBefore, ProvenAfter
<1>7. CheckInv'
  BY <1>1, <1>2, ProcsAssumption DEF Prove, At, CheckInv, CheckOK, Unlaunched, AtWork
<1>8. RunInv'
  BY <1>1, <1>2, ProcsAssumption DEF Prove, At, RunInv, RunOK, Claimed
<1> QED BY <1>3, <1>4, <1>5, <1>6, <1>7, <1>8

LEMMA CreateRecoveredKeeps ==
    ASSUME IInv, NEW p \in Procs, CreateRecovered(p)
    PROVE  IInv'
<1> USE DEF IInv, artifacts, faults
<1>1. /\ Moved(p, "sealingRecovery")
      /\ \A q \in Procs \ {p} : actor[q].at = "idle"
      /\ actor[p].run \in Runs
  BY GotoMoves, ProcsAssumption DEF CreateRecovered, At, ActorInv, ActorOK, WorkerSteps,
     RecoverySteps, BeforeCheck, LockInv, LockOK
<1>2. /\ evidence' \in [Runs -> Evidence]
      /\ evidence[actor[p].run].state = "absent"
      /\ evidence'[actor[p].run].state = "partial"
      /\ evidence'[actor[p].run].status \in {"Failed", "Cancelled"}
      /\ evidence'[actor[p].run].by = (IF At(p, "savingBefore") THEN "before" ELSE "after")
      /\ \A r \in Runs \ {actor[p].run} : evidence'[r] = evidence[r]
  BY <1>1 DEF CreateRecovered, TypeOK, Evidence, Writing, Proof, Results
<1>3. /\ At(p, "savingBefore") => actor[p].run \in orphans \/ intent[actor[p].run] = "absent"
      /\ ~At(p, "savingBefore") => result[actor[p].run].state = "whole" /\ result[actor[p].run].receipt # "outcome-unknown"
      /\ Claimed(actor[p].run)
      /\ finished[actor[p].run] = "none"
      /\ \A q \in Procs : check[q].at # "none" => actor[q].at \in {"idle", "awaiting"}
  BY <1>1 DEF CreateRecovered, CheckInv, CheckOK, RunInv, RunOK, At, ActorInv, ActorOK,
     WorkerSteps, BeforeCheck, LockInv, LockOK
<1>4. Runs \subseteq Nat
  BY LimitRuns
<1>5. TypeOK'
  BY <1>1, <1>2, <1>3, <1>4 DEF CreateRecovered, At, Moved, TypeOK
<1>6. TaskInv'
  BY <1>1, <1>2, <1>3, <1>4 DEF CreateRecovered, At, Moved, TaskInv
<1>7. LockInv'
  BY <1>1, <1>2, <1>3, <1>4, ProcsAssumption DEF CreateRecovered, At, Moved, LockInv, LockOK
<1>8. ActorInv'
  BY <1>1, <1>2, <1>3, <1>4, ProcsAssumption DEF CreateRecovered, At, Moved, ActorInv,
     ActorOK, Claimed, WorkerSteps, BeforeCheck, Unchecked
<1>9. CheckInv'
  BY <1>1, <1>2, <1>3, <1>4, ProcsAssumption DEF CreateRecovered, At, Moved, CheckInv,
     CheckOK, Claimed, Unlaunched, AtWork, RunInv, RunOK
<1>10. RunInv'
  <2> SUFFICES ASSUME NEW r \in Runs PROVE RunOK(r)'
    BY DEF RunInv
  <2>1. CASE r = actor[p].run
    BY <2>1, <1>1, <1>2, <1>3, <1>4, ProcsAssumption DEF CreateRecovered, At, Moved, RunInv,
       RunOK, Claimed, Results
  <2>2. CASE r # actor[p].run
    BY <2>2, <1>1, <1>2, <1>3, <1>4, ProcsAssumption DEF CreateRecovered, At, Moved, RunInv,
       RunOK, Claimed, Results
  <2> QED BY <2>1, <2>2
<1> QED BY <1>5, <1>6, <1>7, <1>8, <1>9, <1>10

LEMMA SyncRecoveredKeeps ==
    ASSUME IInv, NEW p \in Procs, SyncRecovered(p)
    PROVE  IInv'
<1> USE DEF IInv, artifacts, faults
<1>1. /\ Moved(p, "submitting")
      /\ \A q \in Procs \ {p} : actor[q].at = "idle"
      /\ actor[p].run \in Runs
      /\ evidence[actor[p].run].state = "partial"
  BY GotoMoves, ProcsAssumption DEF SyncRecovered, At, ActorInv, ActorOK, WorkerSteps,
     RecoverySteps, BeforeCheck, LockInv, LockOK
<1>2. evidence[actor[p].run] \in Evidence
  BY <1>1 DEF TypeOK
<1>3. [evidence[actor[p].run] EXCEPT !.state = "whole"] \in Evidence
  BY <1>2 DEF Evidence, Writing
<1>4. /\ evidence' \in [Runs -> Evidence]
      /\ evidence'[actor[p].run] = [evidence[actor[p].run] EXCEPT !.state = "whole"]
      /\ \A r \in Runs \ {actor[p].run} : evidence'[r] = evidence[r]
  BY <1>1, <1>2, <1>3 DEF SyncRecovered, TypeOK
<1>5. /\ evidence'[actor[p].run].status = evidence[actor[p].run].status
      /\ evidence'[actor[p].run].by = evidence[actor[p].run].by
      /\ evidence'[actor[p].run].state = "whole"
  BY <1>2, <1>4 DEF Evidence
<1>6. /\ Claimed(actor[p].run)
      /\ finished[actor[p].run] = "none"
  BY <1>1 DEF SyncRecovered, RunInv, RunOK, At, ActorInv, ActorOK, WorkerSteps, BeforeCheck,
     LockInv, LockOK
<1>7. Runs \subseteq Nat
  BY LimitRuns
<1>8. TypeOK'
  BY <1>1, <1>2, <1>3, <1>4, <1>5, <1>6, <1>7 DEF SyncRecovered, At, Moved, TypeOK
<1>9. TaskInv'
  BY <1>1, <1>2, <1>3, <1>4, <1>5, <1>6, <1>7 DEF SyncRecovered, At, Moved, TaskInv
<1>10. LockInv'
  BY <1>1, <1>2, <1>3, <1>4, <1>5, <1>6, <1>7, ProcsAssumption DEF SyncRecovered, At, Moved,
     LockInv, LockOK
<1>11. ActorInv'
  BY <1>1, <1>2, <1>3, <1>4, <1>5, <1>6, <1>7, ProcsAssumption DEF SyncRecovered, At, Moved,
     ActorInv, ActorOK, Claimed, WorkerSteps, BeforeCheck, Unchecked
<1>12. CheckInv'
  BY <1>1, <1>2, <1>3, <1>4, <1>5, <1>6, <1>7, ProcsAssumption DEF SyncRecovered, At, Moved,
     CheckInv, CheckOK, Claimed, Unlaunched, AtWork
<1>13. RunInv'
  <2> SUFFICES ASSUME NEW r \in Runs PROVE RunOK(r)'
    BY DEF RunInv
  <2>1. CASE r = actor[p].run
    BY <2>1, <1>1, <1>2, <1>3, <1>4, <1>5, <1>6, <1>7, ProcsAssumption DEF SyncRecovered,
       At, Moved, RunInv, RunOK, Claimed
  <2>2. CASE r # actor[p].run
    BY <2>2, <1>1, <1>2, <1>3, <1>4, <1>5, <1>6, <1>7, ProcsAssumption DEF SyncRecovered,
       At, Moved, RunInv, RunOK, Claimed
  <2> QED BY <2>1, <2>2
<1> QED BY <1>8, <1>9, <1>10, <1>11, <1>12, <1>13

LEMMA SubmitKeeps ==
    ASSUME IInv, NEW p \in Procs, Submit(p)
    PROVE  IInv'
<1> USE DEF IInv, artifacts, faults
<1>1. /\ Left(p)
      /\ \A q \in Procs \ {p} : actor[q].at = "idle"
  BY StopMoves, ProcsAssumption DEF Submit, At, ActorInv, ActorOK, WorkerSteps, BeforeCheck,
     LockInv, LockOK
<1>2. /\ actor[p].run \in Runs
      /\ evidence[actor[p].run].status \in Results
      /\ task' \in Task
      /\ task'.status = evidence[actor[p].run].status
      /\ task'.run = task.run
      /\ task.run = actor[p].run
      /\ Changed(finished, finished', actor[p].run, evidence[actor[p].run].status)
      /\ finished' \in [Runs -> Results \cup {"none"}]
  BY DEF Submit, FinishReceipt, Claimed, TypeOK, Task, Changed, RunInv, RunOK, At, ActorInv,
     ActorOK, WorkerSteps, BeforeCheck, LockInv, LockOK
<1>3. TypeOK'
  BY <1>1, <1>2 DEF Submit, At, Left, Idle, TypeOK
<1>4. TaskInv'
  BY <1>1, <1>2 DEF Submit, At, Left, Idle, TaskInv
<1>5. LockInv'
  BY <1>1, <1>2, ProcsAssumption DEF Submit, At, Left, Idle, LockInv, LockOK
<1>6. ActorInv'
  BY <1>1, <1>2, ProcsAssumption DEF Submit, At, Left, Idle, ActorInv, ActorOK, Claimed,
     WorkerSteps, BeforeCheck, Unchecked, FinishReceipt, Changed, Results
<1>7. CheckInv'
  BY <1>1, <1>2, ProcsAssumption DEF Submit, At, Left, Idle, CheckInv, CheckOK, Claimed,
     Unlaunched, AtWork, FinishReceipt
<1>8. RunInv'
  BY <1>1, <1>2, ProcsAssumption DEF Submit, At, Left, Idle, RunInv, RunOK, Claimed,
     FinishReceipt, Changed, ActorInv, ActorOK, Results
<1> QED BY <1>3, <1>4, <1>5, <1>6, <1>7, <1>8

LEMMA RefuseRecoveryKeeps ==
    ASSUME IInv, NEW p \in Procs, RefuseRecovery(p)
    PROVE  IInv'
<1> USE DEF IInv, artifacts, faults
<1>1. /\ Left(p)
      /\ \A q \in Procs \ {p} : actor[q].at = "idle"
  BY StopMoves, ProcsAssumption DEF RefuseRecovery, At, ActorInv, ActorOK, WorkerSteps,
     RecoverySteps, BeforeCheck, LockInv, LockOK
<1>2. TypeOK'
  BY <1>1 DEF RefuseRecovery, Left, Idle, TypeOK
<1>3. TaskInv'
  BY <1>1 DEF RefuseRecovery, Left, Idle, TaskInv
<1>4. LockInv'
  BY <1>1, ProcsAssumption DEF RefuseRecovery, Left, Idle, LockInv, LockOK
<1>5. ActorInv'
  BY <1>1, ProcsAssumption DEF RefuseRecovery, At, Left, Idle, ActorInv, ActorOK, Claimed,
     WorkerSteps, RecoverySteps, BeforeCheck, Unchecked
<1>6. CheckInv'
  BY <1>1, ProcsAssumption DEF RefuseRecovery, At, Left, Idle, CheckInv, CheckOK,
     Unlaunched, AtWork, RecoverySteps
<1>7. RunInv'
  BY <1>1, ProcsAssumption DEF RefuseRecovery, Left, Idle, RunInv, RunOK, Claimed
<1> QED BY <1>2, <1>3, <1>4, <1>5, <1>6, <1>7

-----------------------------------------------------------------------------
(* The user and the end of a process. *)

LEMMA StopWorkerKeeps ==
    ASSUME IInv, NEW p \in Procs, StopWorker(p)
    PROVE  IInv'
<1> USE DEF IInv, artifacts, faults
<1>1. cancel' \in [Procs -> BOOLEAN]
  BY DEF StopWorker, TypeOK
<1>2. TypeOK'
  BY <1>1 DEF StopWorker, TypeOK
<1>3. TaskInv'
  BY <1>1 DEF StopWorker, TaskInv
<1>4. LockInv'
  BY <1>1, ProcsAssumption DEF StopWorker, LockInv, LockOK
<1>5. ActorInv'
  BY <1>1, ProcsAssumption DEF StopWorker, At, ActorInv, ActorOK, Claimed, WorkerSteps,
     BeforeCheck, Unchecked
<1>6. CheckInv'
  BY <1>1, ProcsAssumption DEF StopWorker, At, CheckInv, CheckOK, Unlaunched, AtWork
<1>7. RunInv'
  BY <1>1, ProcsAssumption DEF StopWorker, RunInv, RunOK, Claimed
<1> QED BY <1>2, <1>3, <1>4, <1>5, <1>6, <1>7

LEMMA CrashKeeps ==
    ASSUME IInv, NEW p \in Procs, Crash(p)
    PROVE  IInv'
<1> USE DEF IInv, artifacts, faults
<1>1. Left(p)
  BY StopMoves DEF Crash
<1>2. /\ check' \in [Procs -> Check]
      /\ check'[p] = NoCheck
      /\ \A q \in Procs \ {p} : check'[q] = check[q]
  BY LimitsAssumption DEF Crash, TypeOK, NoCheck, Check, CheckSteps, Runs
<1>3. crashes' \in 0..limit.crashes
  BY LimitsAssumption DEF Crash, TypeOK
<1>4. TypeOK'
  BY <1>1, <1>2, <1>3 DEF Crash, Left, Idle, NoCheck, TypeOK
<1>5. TaskInv'
  BY <1>1, <1>2, <1>3 DEF Crash, Left, Idle, NoCheck, TaskInv
<1>6. LockInv'
  BY <1>1, <1>2, <1>3, ProcsAssumption DEF Crash, Left, Idle, NoCheck, LockInv, LockOK
<1>7. ActorInv'
  BY <1>1, <1>2, <1>3, ProcsAssumption DEF Crash, At, Left, Idle, NoCheck, ActorInv,
     ActorOK, Claimed, WorkerSteps, BeforeCheck, Unchecked
<1>8. CheckInv'
  BY <1>1, <1>2, <1>3, ProcsAssumption DEF Crash, At, Left, Idle, NoCheck, CheckInv,
     CheckOK, Unlaunched, AtWork
<1>9. RunInv'
  BY <1>1, <1>2, <1>3, ProcsAssumption DEF Crash, Left, Idle, NoCheck, RunInv, RunOK,
     Claimed
<1> QED BY <1>4, <1>5, <1>6, <1>7, <1>8, <1>9

LEMMA QuitKeeps ==
    ASSUME IInv, NEW p \in Procs, Quit(p)
    PROVE  IInv'
<1> USE DEF IInv, artifacts, faults
<1>1. /\ Left(p)
      /\ \A q \in Procs \ {p} : actor[q].at = "idle"
  BY StopMoves, OthersIdle DEF Quit
<1>2. cancel' \in [Procs -> BOOLEAN]
  BY DEF Quit, TypeOK
<1>3. quits' \in 0..limit.quits
  BY LimitsAssumption DEF Quit, TypeOK
<1>4. /\ check[p].at \in Unlaunched => check[p].run \in Runs /\ check[p].run <= task.run /\ launches[check[p].run] = 0
      /\ Runs \subseteq Nat
  BY LimitRuns DEF CheckInv, CheckOK, Unlaunched
<1>5. orphans' \subseteq Runs
  BY <1>4 DEF Quit, TypeOK
<1>6. /\ \A r \in Runs : r \in orphans' => r \in orphans \/ (r <= task.run /\ launches[r] = 0)
      /\ orphans \subseteq orphans'
      /\ actor[p].at # "idle"
  BY <1>4 DEF Quit
<1>7. task.run \in Nat
  BY <1>4 DEF TypeOK, Task
<1>8. TypeOK'
  BY <1>1, <1>2, <1>3, <1>4, <1>5, <1>6, <1>7 DEF Quit, Left, Idle, TypeOK
<1>9. TaskInv'
  BY <1>1, <1>2, <1>3, <1>4, <1>5, <1>6, <1>7 DEF Quit, Left, Idle, TaskInv
<1>10. LockInv'
  BY <1>1, <1>2, <1>3, <1>4, <1>5, <1>6, <1>7, ProcsAssumption DEF Quit, Left, Idle,
     LockInv, LockOK
<1>11. ActorInv'
  BY <1>1, <1>2, <1>3, <1>4, <1>5, <1>6, <1>7, ProcsAssumption DEF Quit, At, Left, Idle,
     ActorInv, ActorOK, Claimed, WorkerSteps, BeforeCheck, Unchecked
<1>12. CheckInv'
  BY <1>1, <1>2, <1>3, <1>4, <1>5, <1>6, <1>7, ProcsAssumption DEF Quit, At, Left, Idle,
     CheckInv, CheckOK, Unlaunched, AtWork
<1>13. RunInv'
  BY <1>1, <1>2, <1>3, <1>4, <1>5, <1>6, <1>7, ProcsAssumption DEF Quit, Left, Idle, RunInv,
     RunOK, Claimed
<1> QED BY <1>8, <1>9, <1>10, <1>11, <1>12, <1>13

LEMMA ExitKeeps ==
    ASSUME IInv, NEW p \in Procs, Exit(p)
    PROVE  IInv'
<1> USE DEF IInv, artifacts, faults
<1>1. /\ check' \in [Procs -> Check]
      /\ check'[p] = NoCheck
      /\ \A q \in Procs \ {p} : check'[q] = check[q]
  BY LimitsAssumption DEF Exit, TypeOK, NoCheck, Check, CheckSteps, Runs
<1>2. TypeOK'
  BY <1>1 DEF Exit, Idle, NoCheck, TypeOK
<1>3. TaskInv'
  BY <1>1 DEF Exit, Idle, NoCheck, TaskInv
<1>4. LockInv'
  BY <1>1, ProcsAssumption DEF Exit, Idle, NoCheck, LockInv, LockOK
<1>5. ActorInv'
  BY <1>1, ProcsAssumption DEF Exit, At, Idle, NoCheck, ActorInv, ActorOK, Claimed,
     WorkerSteps, BeforeCheck, Unchecked
<1>6. CheckInv'
  BY <1>1, ProcsAssumption DEF Exit, At, Idle, NoCheck, CheckInv, CheckOK, Unlaunched,
     AtWork
<1>7. RunInv'
  BY <1>1, ProcsAssumption DEF Exit, Idle, NoCheck, RunInv, RunOK, Claimed
<1> QED BY <1>2, <1>3, <1>4, <1>5, <1>6, <1>7

LEMMA WithdrawKeeps ==
    ASSUME IInv, Withdraw
    PROVE  IInv'
<1> USE DEF IInv, artifacts, faults
<1>1. /\ task' \in Task
      /\ task'.run = task.run
      /\ task'.status = "Cancelled"
      /\ task.status # "Running"
  BY DEF Withdraw, TypeOK, Task, Results
<1>2. /\ actor' \in [Procs -> Actor]
      /\ \A q \in Procs : actor'[q].run = actor[q].run /\ actor'[q].outcome = actor[q].outcome
      /\ \A q \in Procs : actor'[q].at = IF actor[q].at = "preparing" THEN "outdated" ELSE actor[q].at
      /\ \A q \in Procs : actor[q].at # "preparing" => actor'[q] = actor[q]
  BY OutdateMoves DEF Withdraw
<1>3. TypeOK'
  BY <1>1, <1>2 DEF Withdraw, TypeOK
<1>4. TaskInv'
  BY <1>1, <1>2 DEF Withdraw, TaskInv
<1>5. LockInv'
  BY <1>1, <1>2, ProcsAssumption DEF Withdraw, LockInv, LockOK
<1>6. ActorInv'
  BY <1>1, <1>2, ProcsAssumption DEF Withdraw, At, ActorInv, ActorOK, Claimed, WorkerSteps,
     BeforeCheck, Unchecked
<1>7. CheckInv'
  BY <1>1, <1>2, ProcsAssumption DEF Withdraw, At, CheckInv, CheckOK, Unlaunched, AtWork
<1>8. RunInv'
  BY <1>1, <1>2, ProcsAssumption DEF Withdraw, RunInv, RunOK, Claimed
<1> QED BY <1>3, <1>4, <1>5, <1>6, <1>7, <1>8

LEMMA RequeueKeeps ==
    ASSUME IInv, Requeue
    PROVE  IInv'
<1> USE DEF IInv, artifacts, faults
<1>1. /\ task' \in Task
      /\ task'.run = task.run
      /\ task'.status = "Approved"
      /\ task.status # "Running"
  BY DEF Requeue, TypeOK, Task, Results
<1>2. /\ actor' \in [Procs -> Actor]
      /\ \A q \in Procs : actor'[q].run = actor[q].run /\ actor'[q].outcome = actor[q].outcome
      /\ \A q \in Procs : actor'[q].at = IF actor[q].at = "preparing" THEN "outdated" ELSE actor[q].at
      /\ \A q \in Procs : actor[q].at # "preparing" => actor'[q] = actor[q]
  BY OutdateMoves DEF Requeue
<1>3. TypeOK'
  BY <1>1, <1>2 DEF Requeue, TypeOK
<1>4. TaskInv'
  BY <1>1, <1>2 DEF Requeue, TaskInv
<1>5. LockInv'
  BY <1>1, <1>2, ProcsAssumption DEF Requeue, LockInv, LockOK
<1>6. ActorInv'
  BY <1>1, <1>2, ProcsAssumption DEF Requeue, At, ActorInv, ActorOK, Claimed, WorkerSteps,
     BeforeCheck, Unchecked
<1>7. CheckInv'
  BY <1>1, <1>2, ProcsAssumption DEF Requeue, At, CheckInv, CheckOK, Unlaunched, AtWork
<1>8. RunInv'
  BY <1>1, <1>2, ProcsAssumption DEF Requeue, RunInv, RunOK, Claimed
<1> QED BY <1>3, <1>4, <1>5, <1>6, <1>7, <1>8

-----------------------------------------------------------------------------
(* Every step. *)

LEMMA NextKeeps == IInv /\ [Next]_vars => IInv'
<1>1. ASSUME IInv, NEW p \in Procs, WorkerStep(p) PROVE IInv'
  BY <1>1, AbandonPreparationKeeps, StartKeeps, CreateDirectoryKeeps, CreateBoundaryKeeps,
     SyncBoundaryKeeps, GiveUpKeeps, AdmitKeeps, FailEarlyKeeps, SpawnCheckKeeps,
     AwaitCheckKeeps, CreateEvidenceKeeps, SyncEvidenceKeeps, PublishKeeps DEF WorkerStep
<1>2. ASSUME IInv, NEW p \in Procs, CheckStep(p) PROVE IInv'
  BY <1>2, VerifyStartKeeps, CreateIntentKeeps, SyncIntentKeeps, FailCheckKeeps,
     LaunchKeeps, FailLaunchKeeps, ReportKeeps, CreateResultKeeps, SyncResultKeeps
     DEF CheckStep
<1>3. ASSUME IInv, NEW p \in Procs, RecoveryStep(p) PROVE IInv'
  BY <1>3, InspectKeeps, ProveKeeps, CreateRecoveredKeeps, SyncRecoveredKeeps, SubmitKeeps,
     RefuseRecoveryKeeps DEF RecoveryStep
<1> QED
  BY <1>1, <1>2, <1>3, ClaimWorkerKeeps, TakeOverKeeps, StopWorkerKeeps, CrashKeeps,
     QuitKeeps, ExitKeeps, WithdrawKeeps, RequeueKeeps, StutterKeeps DEF Next

-----------------------------------------------------------------------------
(* The theorems. *)

\* The invariant holds of every reachable state.
THEOREM Inductive == Spec => []IInv
<1>1. Init => IInv
  BY InitKeeps
<1>2. IInv /\ [Next]_vars => IInv'
  BY NextKeeps
<1> QED BY <1>1, <1>2, PTL DEF Spec

LEMMA ProofsFollow == IInv => ProofsHold
<1> SUFFICES ASSUME IInv PROVE ProofsHold
  OBVIOUS
<1> USE DEF IInv, RunInv, RunOK
<1>1. TypeOK /\ LaunchesProven /\ FinishBindsEvidence
  BY DEF LaunchesProven, FinishBindsEvidence
<1>2. ReviewReadyProven
  BY DEF ReviewReadyProven, TypeOK, Results
<1>3. InterruptedBeforeLaunch
  <2> SUFFICES ASSUME NEW r \in Runs \ orphans, evidence[r].by = "before"
               PROVE  launches[r] = 0 /\ intent[r] = "absent"
    BY DEF InterruptedBeforeLaunch
  <2>1. intent[r] = "absent" /\ launches[r] \in Nat /\ launches[r] <= 1 /\ launches[r] # 1
    BY DEF TypeOK
  <2> QED BY <2>1
<1>4. InterruptedAfterResult
  <2> SUFFICES ASSUME NEW r \in Runs, evidence[r].by = "after"
               PROVE  /\ result[r].state = "whole" /\ result[r].receipt # "outcome-unknown"
                      /\ launches[r] = Started(result[r].receipt)
    BY DEF InterruptedAfterResult, Started
  <2> QED OBVIOUS
<1> QED BY <1>1, <1>2, <1>3, <1>4 DEF ProofsHold

\* Whatever is recorded of a run is true of its artifacts, through any order of
\* deaths, exits and recoveries, of any number of processes and runs.
THEOREM ProofsTrue == Spec => []ProofsHold
  BY Inductive, ProofsFollow, PTL

-----------------------------------------------------------------------------
(* A recorded run is quiet. *)

\* What a step may change of a run.
Quiet(r) ==
    /\ launches'[r] = launches[r] /\ intent'[r] = intent[r]
    /\ result'[r] = result[r] /\ evidence'[r] = evidence[r]

\* Whoever works on a run works on one without an outcome.
LEMMA ActorUnsealed ==
    ASSUME IInv, NEW p \in Procs, actor[p].at \notin {"idle", "preparing", "outdated"}
    PROVE  actor[p].run \in Runs /\ finished[actor[p].run] = "none"
  BY DEF IInv, ActorInv, ActorOK, RunInv, RunOK

\* So does a closure that is at work, unless an exit left it.
LEMMA CheckUnsealed ==
    ASSUME IInv, NEW p \in Procs, check[p].at \in AtWork
    PROVE  /\ check[p].run \in Runs
           /\ check[p].run \in orphans \/ finished[check[p].run] = "none"
  BY DEF IInv, CheckInv, CheckOK, RunInv, RunOK, AtWork, Unlaunched

LEMMA StepIsQuiet ==
    ASSUME IInv, [Next]_vars, NEW r \in Runs \ orphans, finished[r] # "none"
    PROVE  Quiet(r)
<1> USE DEF Quiet, artifacts, faults
<1>1. ASSUME NEW p \in Procs,
             \/ CreateEvidence(p) \/ SyncEvidence(p) \/ CreateRecovered(p) \/ SyncRecovered(p)
      PROVE  Quiet(r)
  <2>1. actor[p].run \in Runs /\ actor[p].run # r
    BY <1>1, ActorUnsealed DEF CreateEvidence, SyncEvidence, CreateRecovered, SyncRecovered,
       At
  <2>2. UNCHANGED <<launches, intent, result>> /\ evidence \in [Runs -> Evidence]
    BY <1>1 DEF CreateEvidence, SyncEvidence, CreateRecovered, SyncRecovered, IInv, TypeOK
  <2>3. evidence'[r] = evidence[r]
    BY <1>1, <2>1, <2>2 DEF CreateEvidence, SyncEvidence, CreateRecovered, SyncRecovered
  <2> QED BY <2>2, <2>3
<1>2. ASSUME NEW p \in Procs,
             \/ CreateIntent(p) \/ SyncIntent(p) \/ Launch(p) \/ CreateResult(p) \/ SyncResult(p)
      PROVE  Quiet(r)
  <2>1. check[p].run \in Runs /\ check[p].run # r
    BY <1>2, CheckUnsealed DEF CreateIntent, SyncIntent, Launch, CreateResult, SyncResult,
       CheckAt, AtWork, Unlaunched
  <2>2. /\ intent \in [Runs -> Writing] /\ result \in [Runs -> Result]
        /\ launches \in [Runs -> Nat]
    BY DEF IInv, TypeOK
  <2> QED BY <1>2, <2>1, <2>2 DEF CreateIntent, SyncIntent, Launch, CreateResult, SyncResult
<1>3. ASSUME UNCHANGED <<launches, intent, result, evidence>> PROVE Quiet(r)
  BY <1>3
<1>4. CASE UNCHANGED vars
  BY <1>3, <1>4 DEF vars
<1>5. ASSUME NEW p \in Procs, WorkerStep(p) PROVE Quiet(r)
  BY <1>1, <1>3, <1>5 DEF WorkerStep, AbandonPreparation, Start, CreateDirectory,
     CreateBoundary, SyncBoundary, GiveUp, Admit, FailEarly, SpawnCheck, AwaitCheck, Publish
<1>6. ASSUME NEW p \in Procs, CheckStep(p) PROVE Quiet(r)
  BY <1>2, <1>3, <1>6 DEF CheckStep, VerifyStart, FailCheck, FailLaunch, Report
<1>7. ASSUME NEW p \in Procs, RecoveryStep(p) PROVE Quiet(r)
  BY <1>1, <1>3, <1>7 DEF RecoveryStep, Inspect, Prove, Submit, RefuseRecovery
<1>8. ASSUME NEW p \in Procs,
             \/ ClaimWorker(p) \/ TakeOver(p) \/ StopWorker(p) \/ Crash(p) \/ Quit(p) \/ Exit(p)
      PROVE  Quiet(r)
  BY <1>3, <1>8 DEF ClaimWorker, TakeOver, StopWorker, Crash, Quit, Exit
<1>9. CASE Withdraw \/ Requeue
  BY <1>3, <1>9 DEF Withdraw, Requeue
<1> QED BY <1>4, <1>5, <1>6, <1>7, <1>8, <1>9 DEF Next

\* Once a run's outcome is recorded nothing of the run changes, whichever
\* processes die, exit or recover.
THEOREM SealedQuiet == Spec => SealedIsQuiet
<1>1. IInv /\ [Next]_vars =>
          [\A r \in Runs \ orphans : finished[r] # "none" =>
             /\ launches'[r] = launches[r] /\ intent'[r] = intent[r]
             /\ result'[r] = result[r] /\ evidence'[r] = evidence[r]]_vars
  BY StepIsQuiet DEF Quiet
<1> QED BY <1>1, Inductive, PTL DEF Spec, SealedIsQuiet

-----------------------------------------------------------------------------
(* The implementation of the abstract governed run. *)

\* The launches that count.
Counted == [r \in Runs |-> IF r \in orphans THEN 0 ELSE launches[r]]

\* What the steps that the abstract run does not see leave alone.
Unseen == UNCHANGED <<task.status, task.run, finished, Counted>>

LEMMA UnseenStutters == Unseen => UNCHANGED Governed!vars
  BY DEF Unseen, Counted, Governed!vars

\* The step of the abstract run that a step of a process implements.
AbstractStep == Governed!Next \/ UNCHANGED Governed!vars

LEMMA StartClaims ==
    ASSUME IInv, NEW p \in Procs, Start(p)
    PROVE  Governed!Claim
<1>1. /\ task.run \in 0..MaxRuns /\ task.run < limit.runs /\ limit.runs \in 1..MaxRuns
      /\ MaxRuns \in Nat
  BY LimitRuns DEF IInv, TypeOK, Task, ActorInv, ActorOK, Start, At, Runs
<1>2. task.run < MaxRuns
  BY <1>1
<1>3. task'.status = "Running" /\ task'.run = task.run + 1 /\ UNCHANGED <<finished, Counted>>
  BY DEF Start, artifacts, faults, Counted
<1> QED BY <1>2, <1>3 DEF Governed!Claim, Counted, Start

LEMMA LaunchLaunches ==
    ASSUME IInv, NEW p \in Procs, Launch(p)
    PROVE  AbstractStep
<1> DEFINE r == check[p].run
<1>1. /\ r \in Runs /\ launches[r] = 0
      /\ r \in orphans \/ (task.status = "Running" /\ task.run = r)
  BY DEF IInv, CheckInv, CheckOK, ActorInv, ActorOK, Launch, CheckAt, At, Unlaunched,
     Claimed
<1>2. /\ launches \in [Runs -> Nat] /\ launches' = [launches EXCEPT ![r] = 1]
      /\ UNCHANGED <<task, finished, orphans>>
  BY <1>1 DEF IInv, TypeOK, Launch, faults
<1>3. CASE r \in orphans
  <2>1. Counted' = Counted
    BY <1>1, <1>2, <1>3 DEF Counted
  <2> QED BY <1>2, <2>1, UnseenStutters DEF Unseen, AbstractStep
<1>4. CASE r \notin orphans
  <2>1. Counted[r] = 0 /\ Counted' = [Counted EXCEPT ![r] = 1]
    BY <1>1, <1>2, <1>4 DEF Counted
  <2>2. Governed!Launch
    BY <1>1, <1>2, <1>4, <2>1 DEF Governed!Launch, Counted
  <2> QED BY <2>2 DEF AbstractStep, Governed!Next
<1> QED BY <1>3, <1>4

LEMMA FinishRecords ==
    ASSUME IInv, NEW r \in Runs, evidence[r].state = "whole", FinishReceipt(r),
           UNCHANGED <<launches, orphans>>
    PROVE  AbstractStep
<1>1. /\ task.status = "Running" /\ task.run = r /\ finished[r] = "none"
      /\ evidence[r].status \in Results
      /\ evidence[r].status = "ReviewReady" => launches[r] = 1 /\ r \notin orphans
  BY DEF IInv, RunInv, RunOK, FinishReceipt, Claimed
<1>2. /\ task'.status = evidence[r].status /\ task'.run = task.run
      /\ finished' = [finished EXCEPT ![r] = evidence[r].status]
  BY DEF IInv, TypeOK, Task, FinishReceipt
<1>3. Counted' = Counted /\ (evidence[r].status = "ReviewReady" => Counted[r] = 1)
  BY <1>1 DEF Counted
<1>4. Governed!Record(evidence[r].status)
  BY <1>1, <1>2, <1>3 DEF Governed!Record, Counted
<1>5. evidence[r].status \in Governed!Results
  BY <1>1 DEF Results, Governed!Results
<1> QED BY <1>4, <1>5 DEF AbstractStep, Governed!Next

LEMMA QuitIsUnseen ==
    ASSUME IInv, NEW p \in Procs, Quit(p)
    PROVE  Unseen
<1>1. check[p].at \in Unlaunched => launches[check[p].run] = 0
  BY DEF IInv, CheckInv, CheckOK, Unlaunched
<1>2. Counted' = Counted
  BY <1>1 DEF Counted, Quit
<1> QED BY <1>2 DEF Unseen, Quit

LEMMA StepImplements == IInv /\ [Next]_vars => AbstractStep
<1> SUFFICES ASSUME IInv, [Next]_vars PROVE AbstractStep
  OBVIOUS
<1> USE DEF artifacts, faults
<1>1. ASSUME UNCHANGED <<task, finished, launches, orphans>> PROVE AbstractStep
  BY <1>1, UnseenStutters DEF Unseen, Counted, AbstractStep
<1>2. CASE UNCHANGED vars
  BY <1>1, <1>2 DEF vars
<1>3. ASSUME NEW p \in Procs, Publish(p) \/ Submit(p) PROVE AbstractStep
  <2>1. actor[p].run \in Runs /\ evidence[actor[p].run].state = "whole"
    BY <1>3 DEF IInv, ActorInv, ActorOK, Publish, Submit, At
  <2> QED BY <1>3, <2>1, FinishRecords DEF Publish, Submit
<1>4. ASSUME NEW p \in Procs, WorkerStep(p) PROVE AbstractStep
  <2>1. CASE Start(p)
    BY <2>1, StartClaims DEF AbstractStep, Governed!Next
  <2>2. CASE ~Start(p) /\ ~Publish(p)
    BY <1>1, <1>4, <2>2 DEF WorkerStep, AbandonPreparation, CreateDirectory, CreateBoundary,
       SyncBoundary, GiveUp, Admit, FailEarly, SpawnCheck, AwaitCheck, CreateEvidence,
       SyncEvidence
  <2> QED BY <1>3, <2>1, <2>2
<1>5. ASSUME NEW p \in Procs, CheckStep(p) PROVE AbstractStep
  <2>1. CASE ~Launch(p)
    BY <1>1, <1>5, <2>1 DEF CheckStep, VerifyStart, CreateIntent, SyncIntent, FailCheck,
       FailLaunch, Report, CreateResult, SyncResult
  <2> QED BY <2>1, LaunchLaunches
<1>6. ASSUME NEW p \in Procs, RecoveryStep(p) PROVE AbstractStep
  BY <1>1, <1>3, <1>6 DEF RecoveryStep, Inspect, Prove, CreateRecovered, SyncRecovered,
     RefuseRecovery
<1>7. ASSUME NEW p \in Procs,
             ClaimWorker(p) \/ TakeOver(p) \/ StopWorker(p) \/ Crash(p) \/ Quit(p) \/ Exit(p)
      PROVE  AbstractStep
  <2>1. CASE Quit(p)
    BY <2>1, QuitIsUnseen, UnseenStutters DEF AbstractStep
  <2>2. CASE ~Quit(p)
    BY <1>1, <1>7, <2>2 DEF ClaimWorker, TakeOver, StopWorker, Crash, Exit
  <2> QED BY <2>1, <2>2
<1>8. CASE Withdraw
  <2>1. task'.status = "Cancelled" /\ task'.run = task.run /\ UNCHANGED <<finished, Counted>>
    BY <1>8 DEF Withdraw, IInv, TypeOK, Task, Counted
  <2>2. Governed!Withdraw
    BY <1>8, <2>1 DEF Withdraw, Governed!Withdraw, Counted
  <2> QED BY <2>2 DEF AbstractStep, Governed!Next
<1>9. CASE Requeue
  <2>1. task'.status = "Approved" /\ task'.run = task.run /\ UNCHANGED <<finished, Counted>>
    BY <1>9 DEF Requeue, IInv, TypeOK, Task, Counted
  <2>2. Governed!Requeue
    BY <1>9, <2>1 DEF Requeue, Governed!Requeue, Counted
  <2> QED BY <2>2 DEF AbstractStep, Governed!Next
<1> QED BY <1>2, <1>4, <1>5, <1>6, <1>7, <1>8, <1>9 DEF Next

\* The workers, checks and recoveries of all processes, with their deaths and
\* exits, implement the abstract governed run.
THEOREM Implements == Spec => ImplementsGovernedRun
<1>1. Init => Governed!Init
  BY DEF Init, Governed!Init, Governed!Runs, Runs
<1>2. IInv /\ [Next]_vars => [Governed!Next]_Governed!vars
  BY StepImplements DEF AbstractStep
<1> QED BY <1>1, <1>2, Inductive, PTL DEF Spec, ImplementsGovernedRun, Governed!Spec
=============================================================================
