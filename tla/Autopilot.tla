----------------------------- MODULE Autopilot -----------------------------
(***************************************************************************)
(* The autopilot's loop over a saved plan: autopilot.rs and                *)
(* autopilot_failure.rs, with the owner's instructions (instruct.rs) and   *)
(* the barrier both submit their commands to (command_staging.rs).         *)
(*                                                                         *)
(* The loop settles the families of its tasks on the loaded snapshot,      *)
(* submits one command at a time, builds an integration branch in the      *)
(* background and may be reopened by a repair or an instruction.           *)
(* Meanwhile workers end, the user pauses, stops, cancels and instructs,   *)
(* other terminals write to the store, commands are refused, and the       *)
(* program dies and comes back.                                            *)
(***************************************************************************)
EXTENDS Integers, Sequences, FiniteSets, SequencesExt

CONSTANTS
    Scenarios,      \* what is planned, and bounds on the user's actions, here and
                    \* elsewhere, on restarts of the program and on saves that fail
    MaxRepairs,     \* --max-repairs
    Attempts,       \* autopilot.rs:ATTEMPTS, three
    TransientLimit, \* dispatch.rs:TRANSIENT_LIMIT, five
    MaxTasks        \* capacity of the task store, at most

AutopilotConstants ==
    /\ \A s \in Scenarios :
          /\ s.plan \in Seq(SUBSET Nat) /\ Len(s.plan) \in 1..MaxTasks
          /\ \A t \in DOMAIN s.plan : s.plan[t] \subseteq 1..t - 1
          /\ s.tasks \in Len(s.plan)..MaxTasks /\ s.inputs \in Nat /\ s.crashes \in Nat
          /\ s.faults \in Nat
    /\ MaxRepairs \in Nat /\ Attempts \in Nat \ {0} /\ TransientLimit \in Nat \ {0}
    /\ MaxTasks \in Nat

ASSUME AutopilotBounds == AutopilotConstants

Ids == 1..MaxTasks

Broken == {"Failed", "Unreachable", "Environment"}

Kinds == {"approve", "review", "resolve", "recover", "requeue", "repair", "dispatch"}

NoCommand == [by |-> "none", kind |-> "none", task |-> 0, at |-> "none", stale |-> FALSE]

NoItem == [root |-> 0, task |-> 0, effect |-> "none", created |-> 0, child |-> 0,
           cancelled |-> FALSE, runs |-> 0]

NoKey == <<"none", 0>>

NoJob == [at |-> "none", round |-> 0, sources |-> {}]

VARIABLES
    tasks,          \* the store: families of tasks with their status
    resolved,       \* the store: the repair that resolved a family, 0 for none
    view,           \* the loaded snapshot: [tasks, resolved]
    behind,         \* whether the store has moved on since
    saved,          \* the state of the run
    file,           \* the state that its file holds
    overridden,     \* ghost: since the last pause the user typed /dispatch on, or the
                    \* state could not be saved
    attempts,       \* submissions of each decision
    transient,      \* consecutive refusals that wrote nothing
    last,           \* the last submission: its key and whether it was such a refusal
    recovering,     \* heads sent to /recover N requeue
    command,        \* the command at the barrier or in flight
    item,           \* the owner's active instruction
    ownerLast,      \* how its last command ended
    ownerTransient,
    dispatching,    \* /dispatch on
    attempted,      \* the approval each task was last launched for
    defers, contended,
    workers,        \* tasks with a worker in this terminal
    flagged,        \* those asked to stop
    unproven,       \* interrupted runs whose proof does not hold
    job,            \* the integration under way
    refs,           \* the branches made: their sources, per round
    capacity,       \* of the task store in this scenario
    inputs, crashes, saveFaults, \* those left in it
    automatic       \* ghost: the repairs the loop saved

store == <<tasks, resolved>>
stateFile == <<saved, file, saveFaults, overridden>>
memory == <<attempts, transient, last, recovering>>
owner == <<item, ownerLast, ownerTransient>>
launching == <<dispatching, attempted, defers, contended>>
work == <<workers, flagged, unproven>>
branch == <<job, refs>>
bounds == <<capacity, inputs, crashes>>
vars == <<store, view, behind, stateFile, memory, command, owner, launching, work, branch, bounds,
          automatic>>

-----------------------------------------------------------------------------
(* Families, as a snapshot shows them. *)

Existing(s) == 1..Len(s.tasks)

RootOf(s, t) == s.tasks[t].root

HeadOf(s, root) == Max({t \in Existing(s) : RootOf(s, t) = root})

Status(s, t) == s.tasks[t].status

Dropped(task) == task.status = "Cancelled" /\ ~task.run

\* A repair that was cancelled before it started spent nothing, nor did one of
\* a run that did not fail.
Spent(s, root) ==
    {t \in Existing(s) : /\ RootOf(s, t) = root /\ s.tasks[t].of # 0 /\ ~Dropped(s.tasks[t])
                         /\ Status(s, s.tasks[t].of) \in Broken}

Repairs(s, root) == Cardinality(Spent(s, root))

\* Fault: the limit is compared as if it were one more.
RepairLimitPlusOne(root) ==
    IF saved.limits[root] # -1 THEN saved.limits[root] + 1 ELSE MaxRepairs + 1

LimitIn(r, root) == IF r.limits[root] # -1 THEN r.limits[root] ELSE MaxRepairs

RepairLimit(root) == LimitIn(saved, root)

Source(s, root) == IF s.resolved[root] # 0 THEN s.resolved[root]
                   ELSE IF Status(s, root) = "Accepted" THEN root ELSE 0

\* An approval whose launch was tried.
Tried(s, t) == attempted[t] = s.tasks[t].approvals

Interrupted(s, t) == Status(s, t) = "Running" /\ t \notin workers

Recoverable(s, t) == Interrupted(s, t) /\ t \notin unproven

\* settle_recovered: a head that recovery recorded as cancelled may be requeued.
StillRecovering == {t \in recovering : Status(view, t) = "Running"}

WithRecovered ==
    [saved EXCEPT !.retry = @ \cup {t \in recovering : Status(view, t) = "Cancelled"}]

\* held: families an active instruction keeps from the loop.
HeldRoots ==
    {r \in {item.root} \cup (IF item.effect = "FollowUp" THEN {item.child} ELSE {}) : r # 0}

\* The settlement of a head, given whether a dependency of it is stuck.
SettledHead(s, root, head, blocked) ==
    LET status == Status(s, head)
        stuck ==
            \/ status \in {"Held", "Rejected"}
            \/ status \in Broken /\ Repairs(s, root) >= RepairLimit(root)
            \/ Dropped(s.tasks[head])
            \/ Interrupted(s, head) /\ ~Recoverable(s, head)
            \/ status \in {"Proposed", "Approved"} /\ blocked
            \/ status = "Approved" /\ head \notin workers /\ Tried(s, head)
    IN IF stuck THEN "stuck"
       ELSE IF status = "Cancelled" /\ head \notin WithRecovered.retry THEN "cancelled"
       ELSE "active"

Settlement(s, root, blocked) ==
    IF root \in HeldRoots THEN "active"
    ELSE IF Source(s, root) # 0 THEN "success"
    ELSE SettledHead(s, root, HeadOf(s, root), blocked)

\* families
Settled(s) ==
    LET F[root \in Existing(s)] ==
            Settlement(s, root, \E r \in s.tasks[root].needs : r \in saved.roots /\ F[r] = "stuck")
    IN [root \in saved.roots \cap Existing(s) |-> F[root]]

IsActive(r) == r.phase \in {"running", "finishing"}

Active == IsActive(saved)

Running == Active /\ ~saved.paused

-----------------------------------------------------------------------------
NoLimits == [r \in Ids |-> -1]

Keys == Kinds \X (Ids \cup {0})

NoAttempts == [k \in Keys |-> 0]

Statuses == {"Proposed", "Approved", "Running", "ReviewReady", "Held", "Accepted", "Rejected",
             "Cancelled"} \cup Broken

Tasks == [root : Nat, of : Nat, needs : SUBSET Nat, status : Statuses, run : BOOLEAN,
          approvals : Nat]

Runs == [phase : {"running", "finishing", "done", "failed"}, paused : BOOLEAN, roots : SUBSET Nat,
         retry : SUBSET Nat, round : Nat, stale : BOOLEAN, through : Nat,
         limits : [Ids -> Nat \cup {-1}], reentrant : BOOLEAN, branch : SUBSET Nat]

Effects == {"none", "Steer", "AfterCheck", "Repair", "ReviewRepair", "FollowUp"}

CommandKinds == Kinds \cup {"none", "cancel", "review-repair", "follow-up", "run", "cancel-worker"}

Commands == [by : {"none", "autopilot", "owner", "user", "headless"}, kind : CommandKinds, task : Nat,
             at : {"none", "barrier", "sent"}, stale : BOOLEAN]

Items == [root : Nat, task : Nat, effect : Effects, created : Nat, child : Nat,
          cancelled : BOOLEAN, runs : Nat]

FamiliesOK(ts) ==
    \A t \in 1..Len(ts) :
       /\ ts[t].root \in 1..t /\ ts[t].of \in 0..t - 1
       /\ ts[t].of # 0 <=> ts[t].root # t
       /\ ts[t].of # 0 => ts[ts[t].of].root = ts[t].root

StoreTypeOK ==
    /\ tasks \in Seq(Tasks) /\ FamiliesOK(tasks)
    /\ Len(tasks) <= capacity /\ capacity \in 0..MaxTasks
    /\ view.tasks \in Seq(Tasks) /\ Existing(view) \subseteq 1..Len(tasks)
    /\ {resolved, view.resolved} \subseteq [Ids -> Nat] /\ behind \in BOOLEAN

RunOK(r) ==
    /\ r \in Runs
    /\ r.roots \subseteq 1..Len(tasks) /\ r.retry \subseteq 1..Len(tasks)
    /\ r.stale => r.phase = "finishing"
    /\ r.through <= Len(tasks)

RunTypeOK ==
    /\ RunOK(saved) /\ RunOK(file)
    /\ saveFaults \in Nat /\ overridden \in BOOLEAN
    /\ job \in [at : {"none", "composing", "made", "refused"}, round : Nat, sources : SUBSET Nat]
    /\ job # NoJob => saved.phase = "finishing"

MemoryTypeOK ==
    /\ attempts \in [Keys -> 0..Attempts + 1]
    /\ transient \in 0..TransientLimit - 1 /\ ownerTransient \in 0..TransientLimit - 1
    /\ last \in [key : Keys \cup {NoKey}, transient : BOOLEAN]
    /\ recovering \subseteq 1..Len(tasks) /\ automatic \subseteq 1..Len(tasks)

CommandTypeOK ==
    /\ command \in Commands /\ command.task <= Len(tasks)
    /\ ownerLast \in {"none", "ok", "refused", "transient"}

ItemTypeOK == item \in Items /\ {item.root, item.task, item.created} \subseteq 0..Len(tasks)

WorkTypeOK ==
    /\ workers \subseteq 1..Len(tasks) /\ flagged \subseteq workers
    /\ {dispatching, contended} \subseteq BOOLEAN

TypeOK == /\ StoreTypeOK /\ RunTypeOK /\ MemoryTypeOK
          /\ CommandTypeOK /\ ItemTypeOK /\ WorkTypeOK

\* A plan was saved: its tasks are the run's families, each with its policy.
Begin(scenario) ==
    /\ tasks = [t \in DOMAIN scenario.plan |->
                  [root |-> t, of |-> 0, needs |-> scenario.plan[t],
                   status |-> "Proposed", run |-> FALSE, approvals |-> 0]]
    /\ capacity = scenario.tasks
    /\ inputs = scenario.inputs /\ crashes = scenario.crashes
    /\ resolved = [r \in Ids |-> 0]
    /\ view = [tasks |-> tasks, resolved |-> resolved] /\ behind = FALSE
    /\ saved = [phase |-> "running", paused |-> FALSE, roots |-> DOMAIN tasks, retry |-> {},
                round |-> 0, stale |-> FALSE, through |-> 0, limits |-> NoLimits,
                reentrant |-> FALSE, branch |-> {}]
    /\ file = saved /\ saveFaults = scenario.faults /\ overridden = FALSE
    /\ attempts = NoAttempts /\ transient = 0 /\ recovering = {}
    /\ last = [key |-> NoKey, transient |-> FALSE]
    /\ command = NoCommand
    /\ item = NoItem /\ ownerLast = "none" /\ ownerTransient = 0
    /\ dispatching = FALSE /\ attempted = [t \in Ids |-> 0] /\ defers = 0 /\ contended = FALSE
    /\ workers = {} /\ flagged = {} /\ unproven = {}
    /\ job = NoJob /\ refs = <<>>
    /\ automatic = {}

Init == \E scenario \in Scenarios : Begin(scenario)

-----------------------------------------------------------------------------
(* The store. *)

Approve(t) == tasks' = [tasks EXCEPT ![t].status = "Approved", ![t].approvals = @ + 1]

SetStatus(t, status) == tasks' = [tasks EXCEPT ![t].status = status]

Propose(root, of, needs) ==
    tasks' = Append(tasks, [root |-> root, of |-> of, needs |-> needs, status |-> "Proposed",
                            run |-> FALSE, approvals |-> 0])

OpenRepair(t) == \E c \in 1..Len(tasks) :
    tasks[c].of = t /\ tasks[c].status \in {"Proposed", "Approved", "Running", "ReviewReady", "Held"}

CanRepair(t) ==
    /\ tasks[t].status \in Broken \cup {"Rejected"} \/ (tasks[t].status = "Cancelled" /\ tasks[t].run)
    /\ ~OpenRepair(t) /\ resolved[tasks[t].root] = 0 /\ Len(tasks) < capacity

\* What a command may do; a command no disjunct of which applies is refused.
Apply(kind, t) ==
    \/ kind = "approve" /\ tasks[t].status = "Proposed" /\ Approve(t)
       /\ UNCHANGED resolved
    \/ kind = "review" /\ tasks[t].status = "ReviewReady" /\ SetStatus(t, "Accepted")
       /\ UNCHANGED resolved
    \/ kind = "resolve" /\ tasks[t].status = "Accepted" /\ tasks[t].of # 0
       /\ resolved[tasks[t].root] = 0
       /\ resolved' = [resolved EXCEPT ![tasks[t].root] = t] /\ UNCHANGED tasks
    \/ kind = "recover" /\ tasks[t].status = "Running" /\ t \notin workers \cup unproven
       /\ (\E status \in {"Cancelled", "ReviewReady", "Failed"} : SetStatus(t, status))
       /\ UNCHANGED resolved
    \/ kind = "requeue" /\ tasks[t].status = "Cancelled" /\ tasks[t].run /\ ~OpenRepair(t)
       /\ Approve(t) /\ UNCHANGED resolved
    \/ kind = "repair" /\ CanRepair(t)
       /\ Propose(tasks[t].root, t, tasks[t].needs) /\ UNCHANGED resolved
    \/ kind = "cancel" /\ tasks[t].status \in {"Proposed", "Approved"} /\ t \notin workers
       /\ SetStatus(t, "Cancelled") /\ UNCHANGED resolved
    \/ kind = "review-repair" /\ tasks[t].status = "ReviewReady" /\ Len(tasks) < capacity
       /\ tasks' = Append([tasks EXCEPT ![t].status = "Rejected"],
                          [root |-> tasks[t].root, of |-> t, needs |-> tasks[t].needs,
                           status |-> "Proposed", run |-> FALSE, approvals |-> 0])
       /\ UNCHANGED resolved
    \/ kind = "follow-up" /\ Len(tasks) < capacity
       /\ Propose(Len(tasks) + 1, 0, {tasks[t].root}) /\ UNCHANGED resolved
    \/ kind = "accept" /\ tasks[t].status \in {"ReviewReady", "Held"} /\ SetStatus(t, "Accepted")
       /\ UNCHANGED resolved
    \/ kind = "hold" /\ tasks[t].status = "ReviewReady" /\ SetStatus(t, "Held")
       /\ UNCHANGED resolved
    \/ kind = "reject" /\ tasks[t].status \in {"ReviewReady", "Held"} /\ SetStatus(t, "Rejected")
       /\ UNCHANGED resolved

\* The snapshot is loaded.  The key of /dispatch on names the revision it was
\* decided on, so on a new one its attempts start over.
Load ==
    /\ view' = [tasks |-> tasks', resolved |-> resolved'] /\ behind' = FALSE
    /\ attempts' = IF view' = view THEN attempts ELSE [attempts EXCEPT ![<<"dispatch", 0>>] = 0]

\* A command prepared for an earlier revision is refused as stale.
Outdate == command' = IF command = NoCommand THEN command ELSE [command EXCEPT !.stale = TRUE]

-----------------------------------------------------------------------------
(* Dispatch, as Dispatch details it. *)

\* Fault: a /dispatch on that is under way enables dispatch later.
DisableNow == dispatching' = FALSE /\ UNCHANGED command

\* disable_dispatch: a /dispatch on that is still under way is void.
Disable ==
    /\ dispatching' = FALSE
    /\ command' = IF command.kind = "dispatch" THEN NoCommand ELSE command

DepsAccepted(s, t) == \A r \in s.tasks[t].needs : Source(s, r) # 0

CanLaunch(t) ==
    /\ t \in Existing(view) /\ Status(view, t) = "Approved" /\ DepsAccepted(view, t)
    /\ t \notin workers

Spawn(t) == /\ workers' = workers \cup {t}
            /\ attempted' = [attempted EXCEPT ![t] = view.tasks[t].approvals]

Launch(t) ==
    /\ dispatching /\ command = NoCommand /\ CanLaunch(t) /\ ~Tried(view, t)
    /\ Spawn(t)
    /\ UNCHANGED <<store, view, behind, stateFile, memory, command, owner, dispatching, defers,
                   contended, flagged, unproven, branch, bounds, automatic>>

\* The claim of a launched task; one that wrote nothing is deferred, the last
\* deferral in a row stops dispatch.
Claim(t) ==
    /\ t \in workers /\ tasks[t].status = "Approved"
    /\ tasks' = [tasks EXCEPT ![t].status = "Running", ![t].run = TRUE]
    /\ behind' = TRUE /\ Outdate /\ defers' = 0
    /\ UNCHANGED <<resolved, view, stateFile, memory, owner, dispatching, attempted, contended, work,
                   branch, bounds, automatic>>

Defer ==
    IF defers + 1 >= TransientLimit
    THEN defers' = 0 /\ contended' = TRUE /\ Disable
    ELSE defers' = defers + 1 /\ UNCHANGED <<contended, dispatching, command>>

ClaimRefused(t) ==
    /\ t \in workers /\ tasks[t].status # "Running"
    /\ workers' = workers \ {t} /\ flagged' = flagged \ {t}
    /\ \/ attempted' = [attempted EXCEPT ![t] = 0] /\ Defer
       \/ defers' = 0 /\ UNCHANGED <<attempted, contended, dispatching, command>>
    /\ UNCHANGED store /\ Load
    /\ UNCHANGED <<stateFile, transient, last, recovering, owner, unproven, branch, bounds,
                   automatic>>

\* A run ends, and its result is saved and loaded.
EndRun(t) ==
    /\ t \in workers /\ tasks[t].status = "Running"
    /\ \E status \in {"ReviewReady"} \cup Broken \cup (IF t \in flagged THEN {"Cancelled"} ELSE {}) :
          SetStatus(t, status)
    /\ workers' = workers \ {t} /\ flagged' = flagged \ {t}
    /\ UNCHANGED resolved /\ Load /\ Outdate
    /\ UNCHANGED <<stateFile, transient, last, recovering, owner, launching, unproven, branch,
                   bounds, automatic>>

Refresh ==
    /\ behind
    /\ UNCHANGED store /\ Load
    /\ UNCHANGED <<stateFile, transient, last, recovering, command, owner, launching, work, branch,
                   bounds, automatic>>

-----------------------------------------------------------------------------
(* The state file. *)

\* persist: a state that cannot be saved pauses the run, and dispatch is left as it
\* is; the file may still hold the new state, if only its directory was not synced.
\* The turns that save twice are one save here.
Persist(s) ==
    \/ saved' = s /\ file' = s /\ UNCHANGED saveFaults
    \/ /\ saveFaults > 0 /\ saveFaults' = saveFaults - 1
       /\ saved' = [s EXCEPT !.paused = IsActive(s)] /\ file' \in {file, s}

Save(s) == Persist(s) /\ overridden' = (saved'.paused /\ (overridden \/ saveFaults' # saveFaults))

\* record_progress: at any turn the counts of the run may be others.
RecordProgress ==
    /\ Active /\ Save(saved)
    /\ UNCHANGED <<store, view, behind, memory, command, owner, launching, work, branch, bounds,
                   automatic>>

\* pause, halt: no new starts, no decisions.
Halt(s) == Disable /\ Persist([s EXCEPT !.paused = TRUE]) /\ overridden' = FALSE

\* fail_with_next: the run is over, with the highest task known then.
Fail(reentrant) ==
    Save([WithRecovered EXCEPT !.phase = "failed", !.reentrant = reentrant,
                               !.through = Len(view.tasks)])

\* Fault: every run the owner's work joins is marked stale.
ReopenedAnyway(s) == [s EXCEPT !.stale = TRUE, !.round = @ + 1]

\* reopen: the owner's work reopens a finished run, or makes the integration
\* under way stale.
Reopened(s) ==
    IF s.phase = "finishing" /\ ~s.stale
    THEN [s EXCEPT !.stale = TRUE, !.round = @ + 1]
    ELSE IF s.phase = "done"
    THEN [s EXCEPT !.phase = "running", !.reentrant = FALSE, !.paused = FALSE,
                   !.round = IF s.branch # {} THEN @ + 1 ELSE @]
    ELSE s

-----------------------------------------------------------------------------
(* One turn of the loop: tick. *)

\* Dispatch gave up a launch: the run pauses.
TickContended ==
    /\ contended /\ contended' = FALSE
    /\ IF Running THEN Halt(saved) ELSE UNCHANGED <<stateFile, dispatching, command>>
    /\ UNCHANGED <<store, view, behind, memory, owner, attempted, defers, work, branch, bounds,
                   automatic>>

\* reenter_for_repair: the owner's repair of a finished run, saved after its end.
Reenter ==
    /\ ~Active /\ ~contended /\ saved.through # Len(view.tasks)
    /\ LET repaired == {view.tasks[t].root : t \in
                {u \in saved.through + 1..Len(view.tasks) :
                    Status(view, u) # "Cancelled" /\ view.tasks[u].of # 0}} \cap saved.roots
           reentrant == saved.phase = "failed" /\ saved.reentrant
           limit(root) == IF reentrant /\ Repairs(view, root) <= MaxRepairs
                          THEN MaxRepairs + 1 ELSE Repairs(view, root)
       IN IF repaired = {} \/ (saved.phase # "done" /\ ~reentrant)
          THEN Save([saved EXCEPT !.through = Len(view.tasks)]) /\ UNCHANGED attempts
          ELSE /\ Save([saved EXCEPT
                     !.phase = "running", !.paused = FALSE, !.through = Len(view.tasks),
                     !.limits = [r \in Ids |-> IF r \in repaired THEN limit(r) ELSE @[r]],
                     !.round = IF saved.branch # {} THEN @ + 1 ELSE @])
               /\ attempts' = NoAttempts
    /\ UNCHANGED <<store, view, behind, transient, last, recovering, command, owner, launching,
                   work, branch, bounds, automatic>>

\* The decision for a head: what its status asks for.
Decision(t) ==
    LET task == view.tasks[t]
    IN CASE task.status = "Proposed" -> "approve"
         [] task.status = "ReviewReady" -> "review"
         [] task.status = "Accepted" /\ task.of # 0 -> "resolve"
         [] task.status = "Running" /\ Recoverable(view, t) -> "recover"
         [] task.status = "Cancelled" -> "requeue"
         [] task.status \in Broken -> "repair"
         [] OTHER -> "none"

\* Families whose head may be decided for.
Open(families) == {r \in DOMAIN families : families[r] = "active" /\ r \notin HeldRoots}

Decided(families) == {r \in Open(families) : Decision(HeadOf(view, r)) # "none"}

Ready(families) ==
    {r \in DOMAIN families : families[r] = "active" /\ CanLaunch(HeadOf(view, r))}

\* A failure of the environment of a family that is neither done nor held.
Stopping(families) ==
    {r \in DOMAIN families :
        /\ families[r] # "success" /\ r \notin HeldRoots
        /\ Status(view, HeadOf(view, r)) \in {"Unreachable", "Environment"}}

Idle == command = NoCommand

\* The key of the next decision: the first family's, else /dispatch on.
Key(families) ==
    IF Decided(families) # {}
    THEN LET t == HeadOf(view, Min(Decided(families))) IN <<Decision(t), t>>
    ELSE IF ~dispatching /\ Ready(families) # {} THEN <<"dispatch", 0>>
    ELSE NoKey

\* Fault: a decision that was refused is no attempt either.
ForgivenAlways ==
    IF last.key # NoKey
    THEN [attempts EXCEPT ![last.key] = IF @ > 0 THEN @ - 1 ELSE 0]
    ELSE attempts

\* A refusal that wrote nothing is no attempt, but only so many in a row.
Forgiven ==
    IF last.transient /\ last.key # NoKey
    THEN [attempts EXCEPT ![last.key] = IF @ > 0 THEN @ - 1 ELSE 0]
    ELSE attempts

Submit(families) ==
    /\ Stopping(families) = {} /\ Key(families) # NoKey
    /\ IF last.transient /\ transient + 1 >= TransientLimit
       THEN Halt(WithRecovered) /\ attempts' = Forgiven /\ UNCHANGED <<transient, last>>
       ELSE /\ transient' = IF last.transient THEN transient + 1 ELSE 0
            /\ attempts' = [Forgiven EXCEPT ![Key(families)] = @ + 1]
            /\ IF attempts'[Key(families)] > Attempts
               THEN Halt(WithRecovered) /\ UNCHANGED last
               ELSE /\ last' = [key |-> Key(families), transient |-> FALSE]
                    /\ Save(WithRecovered)
                    /\ command' = [by |-> "autopilot", kind |-> Key(families)[1],
                                   task |-> Key(families)[2], at |-> "barrier", stale |-> behind]
                    /\ UNCHANGED dispatching
    /\ recovering' = StillRecovering \cup
          IF Key(families)[1] = "recover" THEN {Key(families)[2]} ELSE {}
    /\ UNCHANGED <<job>>

\* An environment failure cannot be repaired: the run ends.
StopRun(families) ==
    /\ Stopping(families) # {}
    /\ Fail(Status(view, HeadOf(view, Min(Stopping(families)))) = "Unreachable")
    /\ recovering' = StillRecovering
    /\ UNCHANGED <<attempts, transient, last, command, dispatching, job>>

Done(s, made) ==
    Save([s EXCEPT !.phase = "done", !.through = Len(view.tasks), !.branch = made,
                   !.stale = FALSE])

\* integrate: everything is settled and no worker is left.
Integrate(families) ==
    LET sources == {Source(view, r) : r \in {q \in DOMAIN families : families[q] = "success"}}
    IN /\ Stopping(families) = {} /\ Key(families) = NoKey
       /\ workers = {} /\ \A r \in DOMAIN families : families[r] # "active"
       /\ Disable /\ recovering' = StillRecovering
       /\ IF sources = {}
          THEN Done(WithRecovered, {}) /\ UNCHANGED <<job, attempts>>
          ELSE /\ Save([WithRecovered EXCEPT !.phase = "finishing"]) /\ attempts' = NoAttempts
               /\ job' = [at |-> "composing", round |-> saved.round, sources |-> sources]
       /\ UNCHANGED <<transient, last>>

\* Nothing to decide until a worker or the user has moved.
Wait(families) ==
    /\ Stopping(families) = {} /\ Key(families) = NoKey
    /\ workers # {} \/ \E r \in DOMAIN families : families[r] = "active"
    /\ recovering # StillRecovering
    /\ IF WithRecovered = saved THEN UNCHANGED stateFile ELSE Save(WithRecovered)
    /\ recovering' = StillRecovering
    /\ UNCHANGED <<attempts, transient, last, command, dispatching, job>>

\* running_step, on the families as they are settled now.
RunningStep ==
    /\ Running /\ saved.phase = "running" /\ Idle /\ ~contended
    /\ \E families \in {Settled(view)} :
          Submit(families) \/ StopRun(families) \/ Integrate(families) \/ Wait(families)
    /\ UNCHANGED <<store, view, behind, owner, attempted, defers, contended, work, refs, bounds,
                   automatic>>

\* integration_branch: the ref is made, or is found as it would be made.
Compose ==
    /\ job.at = "composing"
    /\ LET existing == IF job.round \in DOMAIN refs THEN refs[job.round] ELSE {}
       IN IF existing \in {{}, job.sources}
          THEN /\ refs' = [n \in DOMAIN refs \cup {job.round} |->
                              IF n = job.round THEN job.sources ELSE refs[n]]
               /\ job' = [job EXCEPT !.at = "made"]
          ELSE job' = [job EXCEPT !.at = "refused"] /\ UNCHANGED refs
    /\ UNCHANGED <<store, view, behind, stateFile, memory, command, owner, launching, work, bounds,
                   automatic>>

\* poll_integration: a result that work joined meanwhile is discarded.
PollIntegration ==
    /\ job.at \in {"made", "refused"} /\ job' = NoJob
    /\ IF saved.stale
       THEN Save([saved EXCEPT !.stale = FALSE, !.phase = "running"]) /\ attempts' = NoAttempts
       ELSE /\ Done(saved, IF job.at = "made" THEN job.sources ELSE {})
            /\ UNCHANGED attempts
    /\ UNCHANGED <<store, view, behind, transient, last, recovering, command, owner, launching,
                   work, refs, bounds, automatic>>
-----------------------------------------------------------------------------
(* The owner's instruction: instruct.rs. *)

Unstarted(t) == Status(view, t) \in {"Proposed", "Approved"}

\* give: classified by the status of the family's head.
Give(root) ==
    LET t == HeadOf(view, root)
        parent == view.tasks[t].of
        status == Status(view, t)
        give(task, effect) == item' = [NoItem EXCEPT !.root = root, !.task = task,
                                                     !.effect = effect]
    IN \/ status = "Running" /\ t \in workers
          /\ (give(t, "Steer") \/ give(t, "AfterCheck"))
       \/ status \in Broken \cup {"Rejected"} /\ give(t, "Repair")
       \/ status = "Cancelled" /\ view.tasks[t].run /\ give(t, "Repair")
       \/ status = "ReviewReady" /\ give(t, "ReviewRepair")
       \/ status = "Accepted" /\ give(t, "FollowUp")
       \/ Unstarted(t) /\ t \notin workers /\ parent # 0
          /\ Status(view, parent) \in Broken \cup {"Rejected", "Cancelled"}
          /\ give(parent, "Repair")

\* What an instruction comes to once the run it was given to has ended.
Effect ==
    LET status == Status(view, item.task)
        ended == IF item.effect = "Steer" /\ status # "Running"
                 THEN IF status = "ReviewReady" THEN "ReviewRepair"
                      ELSE IF status = "Accepted" THEN "FollowUp" ELSE "Repair"
                 ELSE item.effect
    IN IF ended # "ReviewRepair" THEN ended
       ELSE IF status = "Accepted" THEN "FollowUp"
       ELSE IF status \in Broken \cup {"Rejected", "Cancelled"} THEN "Repair"
       ELSE "ReviewRepair"

\* launch: the work it made is approved and started.
LaunchStep(child) ==
    IF child \in workers \/ view.tasks[child].run THEN <<"done", 0>>
    ELSE IF Status(view, child) = "Proposed" THEN <<"approve", child>>
    ELSE IF Status(view, child) = "Approved" THEN <<"run", child>>
    ELSE <<"fail", 0>>

Siblings(t) == {c \in Existing(view) : /\ view.tasks[c].of = t /\ Unstarted(c)
                                       /\ ~view.tasks[c].run /\ c \notin workers}

\* create_repair: an unstarted repair of the loop makes room for the owner's.
RepairStep(t) ==
    IF Status(view, t) = "Held" THEN <<"fail", 0>>
    ELSE IF Siblings(t) # {} THEN <<"cancel", Min(Siblings(t))>>
    ELSE <<"repair", t>>

\* decide
OwnerDecision ==
    LET t == item.task
        status == Status(view, t)
    IN IF item.created # 0 THEN LaunchStep(item.created)
       ELSE CASE Effect = "Steer" -> IF item.cancelled THEN <<"wait", 0>>
                                     ELSE IF t \in workers THEN <<"cancel-worker", t>>
                                     ELSE <<"fail", 0>>
              [] Effect = "AfterCheck" -> IF status = "Running" THEN <<"wait", 0>>
                                          ELSE IF status \in {"ReviewReady", "Accepted"}
                                          THEN <<"done", 0>>
                                          ELSE IF status \in Broken \cup {"Rejected", "Cancelled"}
                                          THEN RepairStep(t) ELSE <<"fail", 0>>
              [] Effect = "Repair" -> RepairStep(t)
              [] Effect = "ReviewRepair" -> IF status = "ReviewReady" THEN <<"review-repair", t>>
                                            ELSE <<"fail", 0>>
              [] Effect = "FollowUp" -> <<"follow-up", t>>

Instructed == Idle /\ item # NoItem

\* A refused step, or one refused without effect too often, ends the instruction.
OwnerGivesUp == \/ ownerLast = "refused"
                \/ ownerLast = "transient" /\ ownerTransient + 1 >= TransientLimit

\* The family the work joins: a follow-up is a further family of the run.
Adopted ==
    IF item.created = 0 \/ item.child = item.created \/ item.root \notin saved.roots THEN saved
    ELSE IF Effect # "FollowUp" THEN Reopened(saved)
    ELSE IF item.created \in saved.roots THEN saved
    ELSE [Reopened(saved) EXCEPT !.roots = @ \cup {item.created}]

OwnerEnds == item' = NoItem /\ ownerLast' = "none" /\ UNCHANGED command

OwnerStep ==
    /\ Instructed
    /\ IF OwnerGivesUp
       THEN OwnerEnds /\ ownerTransient' = 0 /\ UNCHANGED <<stateFile, attempts>>
       ELSE /\ ownerTransient' = IF ownerLast = "transient" THEN ownerTransient + 1 ELSE 0
            /\ IF Adopted = saved THEN UNCHANGED <<stateFile, attempts>>
               ELSE Save(Adopted) /\ attempts' = NoAttempts
            /\ LET step == OwnerDecision
               IN IF step[1] \in {"done", "fail"} \/ (step[1] = "run" /\ item.runs >= Attempts)
                  THEN OwnerEnds
                  ELSE /\ item' = [item EXCEPT
                             !.effect = Effect, !.child = item.created,
                             !.cancelled = @ \/ step[1] = "cancel-worker",
                             !.runs = IF step[1] = "run" THEN @ + 1 ELSE @]
                       /\ ownerLast' = "none"
                       /\ command' = IF step[1] = "wait" THEN command
                                     ELSE [by |-> "owner", kind |-> step[1], task |-> step[2],
                                           at |-> "barrier", stale |-> behind]
    /\ UNCHANGED <<store, view, behind, transient, last, recovering, launching, work, branch,
                   bounds, automatic>>

\* An instruction in turn waits, so that the loop may take its turn.
OwnerWaits == Instructed /\ ~OwnerGivesUp /\ OwnerDecision[1] = "wait"

-----------------------------------------------------------------------------
(* The barrier. *)

\* supersedes
Superseded ==
    /\ command.by = "autopilot" /\ command.at = "barrier"
    /\ command.kind \in {"approve", "review", "resolve", "repair"}
    /\ RootOf(view, command.task) \in HeldRoots

\* withdraw_superseded_autopilot
Withdraw ==
    /\ Superseded /\ command' = NoCommand
    /\ UNCHANGED <<store, view, behind, stateFile, memory, owner, launching, work, branch, bounds,
                   automatic>>

OpenBarrier ==
    /\ command.at = "barrier" /\ ~Superseded
    /\ command' = [command EXCEPT !.at = "sent"]
    /\ UNCHANGED <<store, view, behind, stateFile, memory, owner, launching, work, branch, bounds,
                   automatic>>

\* The loop and the owner's instruction look at how their own command ended.
Answered(outcome) ==
    /\ command' = NoCommand
    /\ last' = IF command.by = "autopilot"
               THEN [last EXCEPT !.transient = outcome = "transient"] ELSE last
    /\ ownerLast' = IF command.by = "owner" THEN outcome ELSE ownerLast

\* The store applies a task command, refuses it, or finds it stale or itself busy.
Transact ==
    /\ command.at = "sent" /\ command.kind \notin {"dispatch", "run", "cancel-worker"}
    /\ \/ /\ ~command.stale /\ Apply(command.kind, command.task) /\ Load /\ Answered("ok")
          /\ item' = IF command.kind \in {"repair", "review-repair", "follow-up"} /\ command.by = "owner"
                     THEN [item EXCEPT !.created = Len(tasks')] ELSE item
          /\ automatic' = IF command.kind = "repair" /\ command.by = "autopilot"
                          THEN automatic \cup {Len(tasks')} ELSE automatic
       \/ /\ UNCHANGED <<store, item, automatic>> /\ Load
          /\ Answered(IF command.stale THEN "transient" ELSE "refused")
       \/ UNCHANGED <<store, view, behind, attempts, item, automatic>> /\ Answered("transient")
    /\ UNCHANGED <<stateFile, transient, recovering, ownerTransient, launching, work, branch,
                   bounds>>

\* /dispatch on: the scope is checked, and dispatch comes on or the toggle is refused.
EnableDispatch ==
    /\ command.at = "sent" /\ command.kind = "dispatch" /\ Answered("ok")
    /\ dispatching' \in {TRUE, dispatching}
    /\ overridden' = (overridden \/ (command.by = "user" /\ saved.paused))
    /\ UNCHANGED <<store, view, behind, saved, file, saveFaults, attempts, transient, recovering, item,
                   ownerTransient, attempted, defers, contended, work, branch, bounds, automatic>>

\* The owner's or the user's /run, and the owner's /cancel-task of a worker.
StartOwner ==
    /\ command.at = "sent" /\ command.kind = "run"
    /\ IF command.stale THEN Answered("transient") /\ UNCHANGED <<workers, attempted>>
       ELSE IF CanLaunch(command.task) THEN Spawn(command.task) /\ Answered("ok")
       ELSE Answered("refused") /\ UNCHANGED <<workers, attempted>>
    /\ UNCHANGED <<store, view, behind, stateFile, attempts, transient, recovering, item,
                   ownerTransient, dispatching, defers, contended, flagged, unproven, branch,
                   bounds, automatic>>

CancelOwner ==
    /\ command.at = "sent" /\ command.kind = "cancel-worker"
    /\ IF command.task \in workers
       THEN flagged' = flagged \cup {command.task} /\ Answered("ok")
       ELSE Answered("refused") /\ UNCHANGED flagged
    /\ UNCHANGED <<store, view, behind, stateFile, attempts, transient, recovering, item,
                   ownerTransient, launching, workers, unproven, branch, bounds, automatic>>

-----------------------------------------------------------------------------
(* The user, other terminals, and the end of the program. *)

Input == inputs > 0 /\ inputs' = inputs - 1 /\ UNCHANGED capacity

\* pause; while the run goes on /dispatch off is taken as one.
Pause ==
    /\ Input /\ Active /\ Halt(saved)
    /\ UNCHANGED <<store, view, behind, memory, owner, attempted, defers, contended, work, branch,
                   crashes, automatic>>

\* stop: pause, and every worker is asked to stop.
Stop ==
    /\ Input /\ Active /\ Halt(saved) /\ flagged' = workers
    /\ UNCHANGED <<store, view, behind, memory, owner, attempted, defers, contended, workers,
                   unproven, branch, crashes, automatic>>

\* resume: runs cancelled so far may be queued again.
Resume ==
    /\ Input /\ Active
    /\ LET heads == {HeadOf(view, r) : r \in DOMAIN Settled(view)}
       IN Save([saved EXCEPT !.paused = FALSE,
                             !.retry = @ \cup {t \in heads : /\ Status(view, t) = "Cancelled"
                                                            /\ view.tasks[t].run}])
    /\ recovering' = {} /\ attempts' = NoAttempts /\ transient' = 0
    /\ last' = [key |-> NoKey, transient |-> FALSE]
    /\ UNCHANGED <<store, view, behind, command, owner, launching, work, branch, crashes, automatic>>

\* observe_manual: any other command is the user's own, in a paused run too.
Type(kind, t) ==
    /\ Input /\ Idle
    /\ command' = [by |-> "user", kind |-> kind, task |-> t, at |-> "barrier", stale |-> behind]
    /\ UNCHANGED <<store, view, behind, stateFile, memory, owner, launching, work, branch, crashes,
                   automatic>>

\* /dispatch off, when the run does not go on.
DispatchOff ==
    /\ Input /\ ~Running /\ Disable
    /\ UNCHANGED <<store, view, behind, stateFile, memory, owner, attempted, defers, contended, work,
                   branch, crashes, automatic>>

CancelWorker(t) ==
    /\ Input /\ t \in workers \ flagged /\ flagged' = flagged \cup {t}
    /\ UNCHANGED <<store, view, behind, stateFile, memory, command, owner, launching, workers,
                   unproven, branch, crashes, automatic>>

Instruct(root) ==
    /\ Input /\ item = NoItem /\ root \in Existing(view) /\ RootOf(view, root) = root
    /\ Give(root)
    /\ UNCHANGED <<store, view, behind, stateFile, memory, command, ownerLast, ownerTransient,
                   launching, work, branch, crashes, automatic>>

\* Any other decision, here or in another terminal.
Write(kind, t) ==
    /\ Input /\ t \in 1..Len(tasks) /\ Apply(kind, t)
    /\ behind' = TRUE /\ Outdate
    /\ UNCHANGED <<view, stateFile, memory, owner, launching, work, branch, crashes, automatic>>

\* open: an active run is restored paused.
Restored(r) ==
    IF IsActive(r) THEN [r EXCEPT !.paused = TRUE, !.phase = "running", !.stale = FALSE] ELSE r

\* The program dies and is started again, with what the state file holds.
Crash ==
    /\ crashes > 0 /\ crashes' = crashes - 1
    /\ saved' = Restored(file) /\ overridden' = FALSE /\ UNCHANGED <<file, saveFaults>>
    /\ attempts' = NoAttempts /\ transient' = 0 /\ recovering' = {}
    /\ last' = [key |-> NoKey, transient |-> FALSE]
    /\ command' = NoCommand /\ ownerLast' = "none" /\ ownerTransient' = 0
    /\ dispatching' = FALSE /\ attempted' = [t \in Ids |-> 0] /\ defers' = 0 /\ contended' = FALSE
    /\ workers' = {} /\ flagged' = {}
    /\ \E lost \in SUBSET {t \in 1..Len(tasks) : tasks[t].status = "Running"} : unproven' = lost
    /\ UNCHANGED store /\ view' = [tasks |-> tasks, resolved |-> resolved] /\ behind' = FALSE
    /\ job' = NoJob
    /\ UNCHANGED <<item, refs, capacity, inputs, automatic>>

UserWrites == {"accept", "hold", "reject", "requeue", "repair", "cancel"}

User ==
    \/ Pause \/ Stop \/ Resume \/ Type("dispatch", 0) \/ DispatchOff
    \/ \E t \in 1..Len(tasks) : CancelWorker(t) \/ Instruct(t)
    \/ \E t \in Existing(view) : Type("run", t)
    \/ \E t \in 1..Len(tasks), kind \in UserWrites : Write(kind, t)

\* submit_owner runs before submit_autopilot.
Tick ==
    \/ TickContended \/ Reenter \/ PollIntegration
    \/ (~Instructed \/ OwnerWaits) /\ RunningStep

Barrier == Withdraw \/ OpenBarrier \/ Transact \/ EnableDispatch \/ StartOwner \/ CancelOwner

Worker(t) == Claim(t) \/ ClaimRefused(t) \/ EndRun(t)

\* Whatever this terminal, its commands and its workers do next.
System ==
    \/ Barrier \/ Refresh \/ Compose
    \/ \E t \in 1..Len(tasks) : Worker(t) \/ Launch(t)
    \/ OwnerStep \/ Tick

Next == System \/ RecordProgress \/ User \/ Crash

Spec == Init /\ [][Next]_vars

\* The main loop goes around, commands are answered and runs have deadlines: as
\* long as one of them has something to do, one of them does it.
Fairness == WF_vars(System)

FairSpec == Spec /\ Fairness

-----------------------------------------------------------------------------
(* Properties. *)

\* The repairs of a family that the loop saved, without those that others
\* cancelled before they started.
ByLoop(root) == {t \in automatic : tasks[t].root = root /\ ~Dropped(tasks[t])}

\* reference.md: bounded by --max-repairs.  However a run is paused, stopped,
\* reopened, restarted or instructed, the loop makes at most that many repairs of
\* a family on its own, unless a repair by the owner set the family's limit.
RepairsBounded == \A r \in Ids : Cardinality(ByLoop(r)) <= RepairLimit(r)

\* reference.md: /pause stops new starts, and manual commands keep working.  While a
\* run is paused dispatch is off, whatever was at the barrier or in flight when it
\* was paused, unless since then the user typed /dispatch on or the run's state could
\* not be saved: that pauses a run too, and leaves dispatch on.
PausedIsQuiet == Active /\ saved.paused /\ dispatching => overridden

AwaitsUser == \E r \in DOMAIN Settled(view) : Settled(view)[r] = "cancelled"

\* An instruction given to a run whose worker died with the program.
Stranded == item # NoItem /\ Interrupted(view, item.task)

\* reference.md: after a hard crash /resume records the interruption and continues
\* the loop to the integration branch; active instructions continue after a restart.
ResumeContinues == Running ~> ~Running \/ AwaitsUser

\* The loop keeps within its budget, its bounds and the user's pause.
BudgetHolds == TypeOK /\ RepairsBounded /\ PausedIsQuiet
=============================================================================
