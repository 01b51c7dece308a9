------------------------------ MODULE Dispatch ------------------------------
(***************************************************************************)
(* Automatic starting of approved tasks in one terminal: dispatch.rs,      *)
(* control_command.rs, task_control.rs and the turn of the main loop that  *)
(* stages, saves and opens commands (main.rs).                             *)
(*                                                                         *)
(* /dispatch on is checked in the background against the saved scope and   *)
(* then enables the controller; each launch is chosen on the loaded        *)
(* snapshot, waits for its intent to be saved, is validated again and      *)
(* spawns a worker that claims the task in the store.  Other terminals     *)
(* write to the store, the scope is redrafted, reads find the store busy,  *)
(* and the user toggles, retries, runs, cancels and restarts meanwhile.    *)
(***************************************************************************)
EXTENDS Integers, Sequences, FiniteSets, SequencesExt

CONSTANTS
    Tasks,          \* positive task ids
    Planned,        \* those whose plan is bound to the initial scope revision
    MaxWorkers,     \* task_control.rs:1717, four
    TransientLimit, \* dispatch.rs:TRANSIENT_LIMIT, five
    Scenarios       \* bounds of an execution: tasks, those approved from the start,
                    \* receipts, revisions of the understanding, inputs, failed saves,
                    \* restarts

ASSUME DispatchBounds ==
    /\ Tasks \subseteq Nat \ {0} /\ IsFiniteSet(Tasks) /\ Planned \subseteq Tasks
    /\ MaxWorkers \in Nat \ {0} /\ TransientLimit \in Nat \ {0}
    /\ \A b \in Scenarios :
          /\ b.tasks \subseteq Tasks /\ b.approved \subseteq b.tasks
          /\ Cardinality(b.approved) <= b.receipts
          /\ {b.receipts, b.scopes, b.inputs, b.failures, b.restarts} \subseteq Nat

Unknown == -1       \* the revision of a scope that cannot be read

Nobody == [at |-> "none", id |-> 0, revision |-> 0, source |-> 0,
           outcome |-> "none", seen |-> 0, cancelled |-> FALSE]

NoCommand == [kind |-> "none", id |-> 0, task |-> 0, revision |-> 0, approval |-> 0]

NoRead == [done |-> FALSE, revision |-> 0, scope |-> 0]

VARIABLES
    limit,          \* the scenario
    journal,        \* the receipts of the task store: [kind, task]
    scopes,         \* the understanding after each of its revisions: open or not
    controller,     \* incarnation, epoch, enabled and the toggle that enabled it
    view,           \* the loaded revision of the store and the observed scope
    attempts,       \* the approval each task was last started for, 0 for none
    transient,      \* consecutive launch refusals that wrote nothing, per task
    busyReads,      \* consecutive background reads that found the store busy
    console,        \* the toggles and cancels typed so far, each with what it is bound to
    acknowledged,   \* those whose outcome was recorded
    pendingOn,      \* control_pending: the toggle whose scope is being checked, 0 for none
    checks,         \* the scope checks in flight or answered, per toggle
    barrier,        \* pending_command: the intent that waits to be saved
    workers,        \* this terminal's worker of each task
    spawned,        \* workers spawned so far: their identities
    reading,        \* the background refresh
    call,           \* the user's other task command under way
    inputs, failures, restarts,
    stoppedAt,      \* ghost: toggles typed when dispatch was last stopped
    spent,          \* ghost: [task, approval] whose start failed for good
    cancels         \* ghost: the workers the user asked to cancel

store == <<journal, scopes>>
memory == <<attempts, transient, busyReads>>
controls == <<console, acknowledged, pendingOn, checks>>
work == <<workers, spawned>>
bounds == <<inputs, failures, restarts>>
ghosts == <<stoppedAt, spent, cancels>>
system == <<store, controller, view, memory, controls, barrier, work, reading, call, bounds, ghosts>>
vars == <<limit, system>>

-----------------------------------------------------------------------------
(* The store as a snapshot at some revision shows it. *)

Of(t, revision) == {i \in 1..revision : journal[i].task = t}

LatestOf(t, revision) ==
    IF Of(t, revision) = {} THEN "Propose" ELSE journal[Max(Of(t, revision))].kind

Approved(t, revision) == LatestOf(t, revision) = "Approve"

\* approval: the latest /approve or /requeue of the task.
Approval(t, revision) ==
    LET approvals == {i \in Of(t, revision) : journal[i].kind = "Approve"}
    IN IF approvals = {} THEN 0 ELSE Max(approvals)

Blocked(scope) == scope = Unknown \/ (scope > 0 /\ ~scopes[scope])

GateBlocked == Blocked(view.scope)

RunBlocked(t, scope) == Blocked(scope) \/ (t \in Planned /\ scope # 0)

\* An older observation of the scope does not replace a newer one.
Observed(scope) ==
    IF scope = Unknown \/ view.scope = Unknown \/ scope >= view.scope THEN scope ELSE view.scope

\* A snapshot older than the loaded one is dropped.
Loaded(revision) == IF revision >= view.revision THEN revision ELSE view.revision

Active == {t \in Tasks : workers[t].at # "none"}

-----------------------------------------------------------------------------
Receipt == [kind : {"Approve", "Start", "Finish"}, task : Tasks]

Request == [kind : {"on", "off", "cancel"}, controller : Nat, epoch : Nat, scope : Int,
            task : Tasks \cup {0}, worker : Nat]

Command == [kind : {"none", "control", "launch", "run"}, id : Nat, task : Tasks \cup {0},
            revision : Nat, approval : Nat]

Read == [done : BOOLEAN, revision : Nat, scope : Nat]

Worker == [at : {"none", "spawned", "claimed", "answered"}, id : Nat, revision : Nat,
           source : Nat, outcome : {"none", "ok", "stale", "busy", "denied", "uncertain"},
           seen : Nat, cancelled : BOOLEAN]

StoreOK ==
    /\ journal \in Seq(Receipt) /\ Len(journal) <= limit.receipts
    /\ scopes \in Seq(BOOLEAN) /\ Len(scopes) <= limit.scopes

ControllerOK ==
    /\ controller \in [incarnation : 0..limit.restarts, epoch : Nat, enabled : BOOLEAN,
                       origin : 0..Len(console)]
    /\ controller.incarnation = restarts
    /\ controller.enabled => controller.origin # 0

ViewOK == view \in [revision : 0..Len(journal), scope : Unknown..Len(scopes)]

MemoryOK ==
    /\ attempts \in [Tasks -> 0..Len(journal)]
    /\ transient \in [Tasks -> 0..TransientLimit - 1]
    /\ busyReads \in 0..TransientLimit

ControlsOK ==
    /\ console \in Seq(Request) /\ acknowledged \subseteq 1..Len(console)
    /\ pendingOn \in 0..Len(console)
    /\ checks \in Seq(Read) /\ Len(checks) = Len(console)
    /\ \A id \in 1..Len(console) : checks[id].scope <= Len(scopes)

BarrierOK ==
    /\ barrier \in Command /\ barrier.id <= Len(console)
    /\ barrier.revision <= Len(journal) /\ barrier.approval <= Len(journal)
    /\ barrier.kind = "control" => barrier.id # 0
    /\ barrier.kind \in {"launch", "run"} => barrier.task # 0

WorkOK ==
    /\ workers \in [Tasks -> Worker] /\ Cardinality(Active) <= MaxWorkers /\ spawned \in Nat
    /\ \A t \in Tasks : workers[t].seen <= Len(journal)

ReadsOK ==
    /\ reading \in Read /\ reading.revision <= Len(journal) /\ reading.scope <= Len(scopes)
    /\ call \in Read /\ call.revision <= Len(journal)

TypeOK ==
    /\ limit \in Scenarios
    /\ StoreOK /\ ControllerOK /\ ViewOK /\ MemoryOK /\ ControlsOK /\ BarrierOK /\ WorkOK /\ ReadsOK

Init ==
    /\ limit \in Scenarios
    /\ journal \in [1..Cardinality(limit.approved) -> [kind : {"Approve"}, task : limit.approved]]
    /\ \A t \in limit.approved : \E i \in DOMAIN journal : journal[i].task = t
    /\ scopes = <<>>
    /\ controller = [incarnation |-> 0, epoch |-> 0, enabled |-> FALSE, origin |-> 0]
    /\ view = [revision |-> Len(journal), scope |-> 0]
    /\ attempts = [t \in Tasks |-> 0] /\ transient = [t \in Tasks |-> 0] /\ busyReads = 0
    /\ console = <<>> /\ acknowledged = {} /\ pendingOn = 0 /\ checks = <<>>
    /\ barrier = NoCommand
    /\ workers = [t \in Tasks |-> Nobody] /\ spawned = 0
    /\ reading = NoRead /\ call = NoRead
    /\ inputs = 0 /\ failures = 0 /\ restarts = 0
    /\ stoppedAt = 0 /\ spent = {} /\ cancels = {}

-----------------------------------------------------------------------------
(* Other terminals and other commands. *)

MayFollow(kind, t) ==
    CASE kind = "Approve" -> LatestOf(t, Len(journal)) \in {"Propose", "Finish"}
      [] kind = "Start"   -> Approved(t, Len(journal))
      [] kind = "Finish"  -> LatestOf(t, Len(journal)) = "Start"

Write(kind, t) ==
    /\ Len(journal) < limit.receipts /\ t \in limit.tasks /\ MayFollow(kind, t)
    /\ journal' = Append(journal, [kind |-> kind, task |-> t])

\* The result of this terminal's worker is its own to write.
WriteElsewhere(kind, t) ==
    /\ kind = "Finish" => workers[t].at # "claimed"
    /\ Write(kind, t)
    /\ UNCHANGED <<scopes, controller, view, memory, controls, barrier, work, reading, call,
                   bounds, ghosts>>

\* A draft holds the scope, a confirmation opens it, each at a new revision.
ReviseScope ==
    /\ Len(scopes) < limit.scopes
    /\ scopes' = Append(scopes, scopes # <<>> /\ ~Last(scopes))
    /\ UNCHANGED <<journal, controller, view, memory, controls, barrier, work, reading, call,
                   bounds, ghosts>>

-----------------------------------------------------------------------------
(* Stopping. *)

\* The epoch tells toggles apart, so one that no toggle carries need not move.
EpochUsed ==
    \E id \in 1..Len(console) :
        /\ console[id].kind # "cancel" /\ console[id].controller = controller.incarnation
        /\ console[id].epoch = controller.epoch

\* Fault: what was prepared before stays valid.
DisableOnly ==
    /\ controller' = [controller EXCEPT !.enabled = FALSE, !.origin = 0]
    /\ busyReads' = 0 /\ UNCHANGED pendingOn
    /\ stoppedAt' = Len(console)

\* disable_dispatch: invalidates every prepared toggle and the pending enable.
Disable ==
    /\ controller' = [controller EXCEPT !.enabled = FALSE, !.origin = 0,
                                        !.epoch = IF EpochUsed THEN @ + 1 ELSE @]
    /\ busyReads' = 0 /\ pendingOn' = 0
    /\ stoppedAt' = Len(console)

KeepEnabled == UNCHANGED <<controller, busyReads, pendingOn, stoppedAt>>

\* refuse_dispatch: a stale request cannot turn off a newer controller.
Refuse(command) ==
    IF controller.origin = command.id
    THEN /\ attempts' = [attempts EXCEPT
              ![command.task] = IF @ > command.approval THEN @ ELSE command.approval]
         /\ Disable
    ELSE KeepEnabled /\ UNCHANGED attempts

\* Fault: refusals in a row never stop dispatch.
DeferAgain(t) ==
    /\ attempts' = [attempts EXCEPT ![t] = 0]
    /\ transient' = [transient EXCEPT ![t] = @ + 1]
    /\ KeepEnabled

\* defer_launch: nothing was claimed, so the approval may be tried again; the
\* last refusal in a row stops dispatch.
Defer(t) ==
    /\ attempts' = [attempts EXCEPT ![t] = 0]
    /\ IF transient[t] + 1 >= TransientLimit
       THEN transient' = [transient EXCEPT ![t] = 0] /\ Disable
       ELSE transient' = [transient EXCEPT ![t] = @ + 1] /\ KeepEnabled

-----------------------------------------------------------------------------
(* What the user types. *)

Type == inputs < limit.inputs /\ inputs' = inputs + 1

BarrierFree == barrier.kind = "none"

Control(kind, t, worker) ==
    [kind |-> kind, controller |-> controller.incarnation, epoch |-> controller'.epoch,
     scope |-> view.scope, task |-> t, worker |-> worker]

Submit(control) ==
    /\ console' = Append(console, control)
    /\ checks' = Append(checks, NoRead)
    /\ barrier' = [NoCommand EXCEPT !.kind = "control", !.id = Len(console) + 1]

\* /dispatch on is bound to the epoch and to the observed scope.
TypeOn ==
    /\ Type /\ BarrierFree /\ ~GateBlocked
    /\ KeepEnabled /\ Submit(Control("on", 0, 0))
    /\ UNCHANGED <<store, view, attempts, transient, acknowledged, work, reading, call, failures,
                   restarts, spent, cancels>>

\* /dispatch off first withdraws a launch that waits for its save.
TypeOff ==
    /\ Type /\ (BarrierFree \/ barrier.kind = "launch")
    /\ IF BarrierFree THEN KeepEnabled /\ UNCHANGED attempts ELSE Refuse(barrier)
    /\ Submit(Control("off", 0, 0))
    /\ UNCHANGED <<store, view, transient, acknowledged, work, reading, call, failures, restarts,
                   spent, cancels>>

\* /cancel-task is bound to the identity of the active worker.
TypeCancel(t) ==
    /\ Type /\ BarrierFree /\ t \in Active
    /\ KeepEnabled
    /\ Submit(Control("cancel", t, workers[t].id))
    /\ cancels' = cancels \cup {workers[t].id}
    /\ UNCHANGED <<store, view, attempts, transient, acknowledged, work, reading, call, failures,
                   restarts, spent>>

\* /retry-command of an earlier control, of this or of a previous controller.
RetryControl(id) ==
    /\ Type /\ BarrierFree
    /\ barrier' = [NoCommand EXCEPT !.kind = "control", !.id = id]
    /\ UNCHANGED <<store, controller, view, memory, controls, work, reading, call, failures,
                   restarts, ghosts>>

\* /run is bound to the loaded revision.
TypeRun(t) ==
    /\ Type /\ BarrierFree /\ ~call.done
    /\ barrier' = [NoCommand EXCEPT !.kind = "run", !.task = t, !.revision = view.revision]
    /\ UNCHANGED <<store, controller, view, memory, controls, work, reading, call, failures,
                   restarts, ghosts>>

\* Any other task command: sent, and saved or refused by the store.
SendCommand ==
    /\ Type /\ BarrierFree /\ ~call.done
    /\ \/ \E t \in Tasks : Write("Approve", t)
       \/ UNCHANGED journal
    /\ call' = [NoRead EXCEPT !.done = TRUE, !.revision = Len(journal')]
    /\ UNCHANGED <<scopes, controller, view, memory, controls, barrier, work, reading, failures,
                   restarts, ghosts>>

PollCommand ==
    /\ call.done
    /\ view' = [view EXCEPT !.revision = Loaded(call.revision)]
    /\ call' = NoRead
    /\ UNCHANGED <<store, controller, memory, controls, barrier, work, reading, bounds, ghosts>>

-----------------------------------------------------------------------------
(* The saved-intent barrier opens for a control command. *)

Opens(kind) == barrier.kind = kind /\ barrier' = NoCommand

\* dispatch_control: a control of a previous controller is refused, one that was
\* acknowledged already only repeats its record.
OpenControl(kind) ==
    /\ Opens("control") /\ console[barrier.id].kind = kind
    /\ UNCHANGED <<store, view, attempts, transient, console, spawned, reading, call, bounds,
                   spent, cancels>>

Dispatchable == /\ console[barrier.id].controller = controller.incarnation
                /\ barrier.id \notin acknowledged

Acknowledge(id) == acknowledged' = acknowledged \cup {id}

OpenOff ==
    /\ OpenControl("off")
    /\ IF Dispatchable /\ console[barrier.id].epoch = controller.epoch
       THEN Disable /\ Acknowledge(barrier.id)
       ELSE KeepEnabled /\ UNCHANGED acknowledged
    /\ UNCHANGED <<checks, workers>>

\* The blocking closure reads the understanding and answers.
OpenOn ==
    /\ OpenControl("on")
    /\ IF /\ Dispatchable /\ console[barrier.id].epoch = controller.epoch
          /\ pendingOn = 0 /\ ~GateBlocked /\ view.scope = console[barrier.id].scope
       THEN /\ pendingOn' = barrier.id
            /\ checks' = [checks EXCEPT ![barrier.id] = [NoRead EXCEPT !.done = TRUE,
                                                                      !.scope = Len(scopes)]]
       ELSE UNCHANGED <<pendingOn, checks>>
    /\ UNCHANGED <<controller, busyReads, stoppedAt, acknowledged, workers>>

\* Fault: the flag of whatever worker the task has now is raised.
AnyWorker(control) == workers[control.task].at # "none"

SameWorker(control) ==
    workers[control.task].at # "none" /\ workers[control.task].id = control.worker

OpenCancel ==
    /\ OpenControl("cancel")
    /\ LET control == console[barrier.id]
       IN IF Dispatchable /\ SameWorker(control)
          THEN /\ workers' = [workers EXCEPT ![control.task].cancelled = TRUE]
               /\ Acknowledge(barrier.id)
          ELSE UNCHANGED <<workers, acknowledged>>
    /\ KeepEnabled /\ UNCHANGED checks

\* A read finds what it read, or the storage failed.
Answers(scope) == {scope, Unknown}

\* poll: a superseded answer is dropped; another one enables dispatch if nothing
\* changed, and stops it otherwise.
PollControl(id) ==
    /\ checks[id].done
    /\ checks' = [checks EXCEPT ![id] = NoRead]
    /\ \E scope \in Answers(checks[id].scope) :
          IF pendingOn # id
          THEN KeepEnabled /\ UNCHANGED <<view, acknowledged>>
          ELSE IF /\ console[id].epoch = controller.epoch
                  /\ ~Blocked(scope) /\ scope = console[id].scope
                  /\ ~GateBlocked /\ view.scope = console[id].scope
          THEN /\ controller' = [controller EXCEPT !.enabled = TRUE, !.origin = id, !.epoch = @ + 1]
               /\ Acknowledge(id) /\ pendingOn' = 0
               /\ UNCHANGED <<view, busyReads, stoppedAt>>
          ELSE /\ view' = IF scope = Unknown THEN view
                          ELSE [view EXCEPT !.scope = Observed(scope)]
               /\ Disable /\ UNCHANGED acknowledged
    /\ UNCHANGED <<store, attempts, transient, console, barrier, work, reading, call, bounds,
                   spent, cancels>>

-----------------------------------------------------------------------------
(* Launches. *)

\* validate_dispatch_origin
OriginHolds(source) ==
    /\ controller.enabled /\ controller.origin = source
    /\ console[source].epoch + 1 = controller.epoch
    /\ ~GateBlocked /\ view.scope = console[source].scope

\* Fault: earlier attempts are forgotten.
ReadyAgain(t) ==
    controller.enabled /\ Approved(t, view.revision) /\ t \notin Active /\ ~RunBlocked(t, view.scope)

\* next_matching
Ready(t) ==
    /\ controller.enabled
    /\ Approved(t, view.revision) /\ t \notin Active
    /\ ~RunBlocked(t, view.scope)
    /\ attempts[t] # Approval(t, view.revision)

MayPrepare ==
    /\ controller.enabled /\ BarrierFree /\ ~GateBlocked
    /\ ~call.done /\ pendingOn = 0 /\ Cardinality(Active) < MaxWorkers

\* A claim that the loaded snapshot does not show yet will move the revision.
AwaitsClaim == \E t \in Active : LatestOf(t, view.revision) \in {"Propose", "Approve"}

\* prepare_dispatch: the first ready task, without reserving its attempt.
PrepareLaunch ==
    /\ MayPrepare
    /\ IF ~OriginHolds(controller.origin)
       THEN Disable /\ UNCHANGED barrier
       ELSE /\ ~AwaitsClaim /\ \E t \in Tasks : Ready(t)
            /\ LET t == Min({u \in Tasks : Ready(u)})
               IN barrier' = [kind |-> "launch", id |-> controller.origin, task |-> t,
                              revision |-> view.revision, approval |-> Approval(t, view.revision)]
            /\ KeepEnabled
    /\ UNCHANGED <<store, view, attempts, transient, console, acknowledged, checks, work,
                   reading, call, bounds, spent, cancels>>

CanStart(t) ==
    ~GateBlocked /\ Cardinality(Active) < MaxWorkers /\ t \notin Active
    /\ Approved(t, view.revision) /\ ~RunBlocked(t, view.scope)

\* start_worker_prepared
Spawn(t, revision, source) ==
    /\ workers' = [workers EXCEPT ![t] =
          [at |-> "spawned", id |-> spawned + 1, revision |-> revision, source |-> source,
           outcome |-> "none", seen |-> 0, cancelled |-> FALSE]]
    /\ spawned' = spawned + 1
    /\ attempts' = [attempts EXCEPT ![t] = Approval(t, view.revision)]

OpenLaunch ==
    /\ Opens("launch")
    /\ LET t == barrier.task
       IN IF ~OriginHolds(barrier.id) THEN Refuse(barrier) /\ UNCHANGED <<transient, work>>
          ELSE IF call.done \/ pendingOn # 0 \/ view.revision # barrier.revision
          THEN Defer(t) /\ UNCHANGED work
          ELSE IF ~Ready(t) \/ ~CanStart(t) THEN Refuse(barrier) /\ UNCHANGED <<transient, work>>
          ELSE Spawn(t, barrier.revision, barrier.id) /\ KeepEnabled /\ UNCHANGED transient
    /\ UNCHANGED <<store, view, console, acknowledged, checks, reading, call, bounds, spent,
                   cancels>>

OpenRun ==
    /\ Opens("run")
    /\ IF ~call.done /\ CanStart(barrier.task) /\ view.revision = barrier.revision
       THEN Spawn(barrier.task, barrier.revision, 0)
       ELSE UNCHANGED <<work, attempts>>
    /\ UNCHANGED <<store, controller, view, transient, busyReads, controls, reading, call, bounds,
                   ghosts>>

\* The checkpoint failed: no action is dispatched.
SaveFails ==
    /\ failures < limit.failures /\ failures' = failures + 1
    /\ ~BarrierFree /\ barrier' = NoCommand
    /\ IF barrier.kind = "launch" THEN Refuse(barrier) ELSE KeepEnabled /\ UNCHANGED attempts
    /\ UNCHANGED <<store, view, transient, console, acknowledged, checks, work, reading, call,
                   inputs, restarts, spent, cancels>>

-----------------------------------------------------------------------------
(* Workers: start_checked as the controller sees it. *)

Answer(t, outcome) ==
    workers' = [workers EXCEPT ![t].at = "answered", ![t].outcome = outcome,
                               ![t].seen = Len(journal')]

StoreOpen(t) == ~RunBlocked(t, Len(scopes))

Claim(t) ==
    /\ workers[t].at = "spawned"
    /\ IF workers[t].revision # Len(journal)
       THEN UNCHANGED journal /\ (Answer(t, "stale") \/ Answer(t, "busy"))
       ELSE \/ /\ Write("Start", t) /\ StoreOpen(t)
               /\ workers' = [workers EXCEPT ![t].at = "claimed"]
            \/ UNCHANGED journal /\ \E outcome \in {"busy", "denied"} : Answer(t, outcome)
    /\ UNCHANGED <<scopes, controller, view, memory, controls, barrier, spawned, reading, call,
                   bounds, ghosts>>

\* The Finish receipt, or a worker that stopped without one.
EndRun(t) ==
    /\ workers[t].at = "claimed"
    /\ \/ Write("Finish", t) /\ Answer(t, "ok")
       \/ UNCHANGED journal /\ Answer(t, "uncertain")
    /\ UNCHANGED <<scopes, controller, view, memory, controls, barrier, spawned, reading, call,
                   bounds, ghosts>>

\* poll: an automatic launch that claimed nothing is deferred, any other failure
\* keeps its attempt.
PollWorker(t) ==
    /\ workers[t].at = "answered"
    /\ LET worker == workers[t]
       IN /\ view' = IF worker.outcome \in {"ok", "stale"}
                     THEN [view EXCEPT !.revision = Loaded(worker.seen)] ELSE view
          /\ IF worker.source # 0 /\ worker.outcome \in {"stale", "busy"}
             THEN Defer(t) /\ UNCHANGED spent
             ELSE /\ transient' = [transient EXCEPT ![t] = 0]
                  /\ spent' = IF worker.outcome = "ok" THEN spent
                              ELSE spent \cup {<<t, Approval(t, worker.revision)>>}
                  /\ KeepEnabled /\ UNCHANGED attempts
    /\ workers' = [workers EXCEPT ![t] = Nobody]
    /\ UNCHANGED <<store, console, acknowledged, checks, barrier, spawned, reading, call, bounds,
                   cancels>>

-----------------------------------------------------------------------------
(* The background refresh. *)

\* refresh_background: the closure loads the store and the understanding.
Refresh ==
    /\ ~reading.done /\ ~call.done
    /\ reading' = [done |-> TRUE, revision |-> Len(journal), scope |-> Len(scopes)]
    /\ UNCHANGED <<store, controller, view, memory, controls, barrier, work, call, bounds, ghosts>>

\* A held scope stops dispatch; so do an error and too many busy reads in a row.
Show(scope) ==
    /\ view' = [revision |-> Loaded(reading.revision), scope |-> Observed(scope)]
    /\ IF Observed(scope) = scope /\ Blocked(scope)
       THEN Disable
       ELSE busyReads' = 0 /\ UNCHANGED <<controller, pendingOn, stoppedAt>>

\* Fault: busy reads are not counted.
ReadBusyForEver == UNCHANGED <<view, busyReads, controller, pendingOn, stoppedAt>>

ReadBusy ==
    /\ UNCHANGED view
    /\ IF controller.enabled /\ busyReads >= TransientLimit
       THEN Disable
       ELSE /\ busyReads' = IF controller.enabled THEN busyReads + 1 ELSE busyReads
            /\ UNCHANGED <<controller, pendingOn, stoppedAt>>

PollRefresh ==
    /\ reading.done /\ reading' = NoRead
    /\ \/ \E scope \in Answers(reading.scope) : Show(scope)
       \/ ReadBusy
       \/ Disable /\ UNCHANGED view
    /\ UNCHANGED <<store, attempts, transient, console, acknowledged, checks, barrier, work, call,
                   bounds, spent, cancels>>

-----------------------------------------------------------------------------
\* A new terminal: dispatch is off and attempts are forgotten; the console is
\* restored, and the runs of dead workers stay as they are.
Restart ==
    /\ restarts < limit.restarts /\ restarts' = restarts + 1
    /\ controller' = [incarnation |-> controller.incarnation + 1, epoch |-> 0,
                      enabled |-> FALSE, origin |-> 0]
    /\ view' = [revision |-> Len(journal), scope |-> Len(scopes)]
    /\ attempts' = [t \in Tasks |-> 0] /\ transient' = [t \in Tasks |-> 0] /\ busyReads' = 0
    /\ acknowledged' = {} /\ pendingOn' = 0
    /\ checks' = [id \in 1..Len(console) |-> NoRead]
    /\ barrier' = NoCommand
    /\ workers' = [t \in Tasks |-> Nobody]
    /\ reading' = NoRead /\ call' = NoRead
    /\ stoppedAt' = Len(console) /\ spent' = {}
    /\ UNCHANGED <<store, console, spawned, inputs, failures, cancels>>

User ==
    \/ TypeOn \/ TypeOff \/ SendCommand \/ Restart
    \/ \E id \in 1..Len(console) : RetryControl(id)
    \/ \E t \in Tasks : TypeRun(t) \/ TypeCancel(t)

Open == OpenOn \/ OpenOff \/ OpenCancel \/ OpenLaunch \/ OpenRun

Poll ==
    \/ PollCommand \/ PollRefresh
    \/ \E id \in 1..Len(console) : PollControl(id)
    \/ \E t \in Tasks : PollWorker(t)

Next ==
    /\ \/ User \/ Open \/ SaveFails \/ Poll \/ PrepareLaunch \/ Refresh
       \/ \E t \in Tasks : Claim(t) \/ EndRun(t)
       \/ \E t \in Tasks, kind \in {"Approve", "Start", "Finish"} : WriteElsewhere(kind, t)
       \/ ReviseScope
    /\ UNCHANGED limit

Spec == Init /\ [][Next]_vars

\* The main loop goes around, blocking closures end, a run has its deadlines.
MaxInputs == Max({b.inputs : b \in Scenarios})

Fairness ==
    /\ WF_system(Open) /\ WF_system(PrepareLaunch)
    /\ WF_system(PollCommand) /\ WF_system(PollRefresh) /\ WF_system(Refresh)
    /\ \A id \in 1..MaxInputs : WF_system(id <= Len(console) /\ PollControl(id))
    /\ \A t \in Tasks : WF_system(Claim(t)) /\ WF_system(EndRun(t)) /\ WF_system(PollWorker(t))

FairSpec == Spec /\ Fairness

-----------------------------------------------------------------------------
(* Properties. *)

Launched(t) == workers[t].id # workers'[t].id /\ workers'[t].source # 0

\* reference.md: /dispatch off stops new starts, a pending scope turns dispatch
\* off until /dispatch on is requested.  Whatever was prepared, saved, checked or
\* answered before dispatch stopped starts no worker after it.
NoLateLaunch ==
    [][\A t \in Tasks : Launched(t) => workers'[t].source > stoppedAt]_vars

\* reference.md: failed starts need an explicit /run.  An approval whose start,
\* automatic or manual, failed for good is not started automatically again.
SpentStaysSpent ==
    [][\A t \in Tasks : Launched(t) => <<t, Approval(t, view.revision)>> \notin spent]_vars

\* reference.md: a stale request never targets a replacement worker.
CancelHitsItsWorker ==
    \A t \in Tasks : workers[t].cancelled => workers[t].id \in cancels

\* While dispatch is on a ready task is started once, or stops being ready, or
\* dispatch gives up; no sequence of stale, busy or failed reads and claims keeps
\* it waiting for ever.
ReadyIsTaken ==
    \A t \in Tasks :
        controller.enabled /\ Approved(t, Len(journal)) /\ StoreOpen(t)
        ~> \/ ~controller.enabled \/ ~Approved(t, Len(journal)) \/ ~StoreOpen(t)
           \/ attempts[t] = Approval(t, Len(journal))

\* Controls reach what they were typed for, and the bounds of the controller
\* hold, whatever is retried, restarted or superseded.
ControlsHold == TypeOK /\ CancelHitsItsWorker

\* A worker is started only by what was asked for after the last stop, and not
\* again by an approval whose start failed for good.
StopsHold == NoLateLaunch /\ SpentStaysSpent
=============================================================================
