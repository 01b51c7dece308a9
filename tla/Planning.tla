------------------------------ MODULE Planning ------------------------------
(***************************************************************************)
(* Plans on their way from a request to saved tasks: planner.rs,           *)
(* wayfinder.rs, the planning half of autopilot.rs, and what task_control  *)
(* and the main loop do for them, over the shared understanding.           *)
(*                                                                         *)
(* One terminal is modelled with its planner, its barrier for saved        *)
(* intents, its chat turns that write the scope and its autopilot.  Other  *)
(* terminals write tasks and scope receipts whenever they like, saves are  *)
(* refused or end without an answer, and the program dies and is started   *)
(* again.  What a plan says is left out; a draft is a number.              *)
(***************************************************************************)
EXTENDS Understanding, SequencesExt

CONSTANTS
    Scenarios,      \* who acts and how often: records of bounds
    Sessions,       \* chat sessions that may write the scope
    PlanAttempts,   \* autopilot.rs:PLAN_ATTEMPTS, three
    Attempts,       \* autopilot.rs:ATTEMPTS, three
    TransientLimit, \* dispatch.rs:TRANSIENT_LIMIT, five
    MaxIds          \* bound on correlations

Limits ==
    [consequential : BOOLEAN, typed : Nat, spoken : Nat, driven : Nat, others : Nat, faults : Nat,
     crashes : Nat]

PlanningConstants ==
    /\ Writers = {"user", "autopilot", "elsewhere"}
    /\ Scenarios \subseteq Limits
    /\ PlanAttempts \in Nat \ {0} /\ Attempts \in Nat \ {0} /\ TransientLimit \in Nat \ {0}
    /\ MaxIds \in Nat

ASSUME PlanningBounds == PlanningConstants

NoDraft == [number |-> 0, revision |-> 0, scope |-> 0, origin |-> 0]

NoJob == [at |-> "none", origin |-> 0, expected |-> 0, scope |-> 0, found |-> 0]

NoCommand == [op |-> "none"]

NoTurn == [at |-> "none"]

NoSave == [op |-> "none"]

NoCall == [command |-> NoCommand, at |-> "none", outcome |-> "none", seen |-> 0, scopeSeen |-> 0]

\* A transaction for a command, as it is sent.
Sending(command) == [NoCall EXCEPT !.command = command, !.at = "sent"]

Keys == {"draft", "confirm", "plan", "save"}

VARIABLES
    revision,       \* of the task store
    plans,          \* its plan receipts
    view,           \* the loaded task revision
    scopeView,      \* the loaded scope revision
    draft,          \* the planner's complete draft
    previous,       \* the one a revision under way would replace
    job,            \* the generation under way
    slot,           \* pending_command: the intent at the barrier
    last,           \* the last intent that reached the conversation, for a retry
    call,           \* the store transaction under way
    retry,          \* TaskControl.retry: a save that was not acknowledged
    disk,           \* the conversation on disk: its plan draft
    turns,          \* Router.pending: what each session's scope turn does
    told,           \* correlations a session was told have been applied
    auto,           \* the autopilot's state file
    tries,          \* its submissions of each decision
    refused,        \* its consecutive refusals that wrote nothing
    lastAuto,       \* its last submission
    used,           \* correlations given out
    made,           \* ghost: what the stores were when each draft was asked for
    bounds          \* the scenario's bounds that are left

stores == <<revision, plans>>
loaded == <<view, scopeView>>
planner == <<draft, previous, job>>
console == <<slot, last, disk>>
calls == <<call, retry>>
chat == <<turns, told>>
loop == <<auto, tries, refused, lastAuto>>
vars == <<scopeVars, stores, loaded, planner, console, calls, chat, loop, used, made, bounds>>

NoTries == [k \in Keys |-> 0]

Idle == [phase |-> "none", paused |-> FALSE, plan |-> 0, save |-> 0, failures |-> 0, plans |-> 0]

\* Drafts are numbered as they are made; a plan command that is retried may make
\* more than one.
Drafts == [number : Nat, revision : Nat, scope : 0..MaxReceipts, origin : 0..MaxIds]

ScopeRequests == [id : 1..MaxIds, action : Actions, by : Writers, expected : Nat]

PlanCommands ==
    [op : {"plan", "revise"}, id : 1..MaxIds, by : {"user", "autopilot"}, saved : BOOLEAN,
     expected : Nat, base : Nat]

CancelCommands ==
    [op : {"cancel"}, id : 1..MaxIds, by : {"user"}, saved : BOOLEAN, generation : Nat, base : Nat]

SaveCommands ==
    [op : {"save"}, id : 1..MaxIds, by : {"user", "autopilot"}, saved : BOOLEAN, expected : Nat,
     draft : Drafts]

ScopeCommands ==
    [op : {"scope"}, id : 1..MaxIds, by : {"user", "autopilot"}, saved : BOOLEAN,
     request : ScopeRequests]

TurnCommands ==
    [op : {"turn"}, id : 1..MaxIds, by : {"user"}, saved : BOOLEAN, session : Sessions,
     request : ScopeRequests]

Commands == PlanCommands \cup CancelCommands \cup SaveCommands \cup ScopeCommands \cup TurnCommands

Calls ==
    [command : SaveCommands \cup ScopeCommands \cup [op : {"read"}, by : {"user"}],
     at : {"sent", "answered"}, outcome : {"none", "ok", "denied", "stale", "busy", "uncertain"},
     seen : Nat, scopeSeen : Nat]

Turns ==
    [at : {"preparing", "ready", "writing", "written"}, cancelled : BOOLEAN, seen : Nat,
     request : ScopeRequests]

Jobs ==
    [at : {"none", "check", "scope", "admit", "model", "good", "bad"}, origin : 0..MaxIds,
     expected : Nat, scope : 0..MaxReceipts, found : Nat]

AutoStates ==
    [phase : {"none", "scoping", "planning", "saving", "running", "failed"}, paused : BOOLEAN,
     plan : 0..MaxIds, save : 0..MaxIds, failures : 0..PlanAttempts, plans : Nat]

Plans == [draft : Drafts, id : 1..MaxIds, at : Nat, scope : 0..MaxReceipts]

CommandsTypeOK ==
    /\ slot \in Commands \cup {NoCommand} /\ last \in Commands \cup {NoCommand}
    /\ call \in Calls \cup {NoCall} /\ retry \in SaveCommands \cup {NoSave}
    /\ turns \in [Sessions -> Turns \cup {NoTurn}] /\ told \subseteq 1..MaxIds

PlannerTypeOK ==
    /\ draft \in Drafts /\ previous \in Drafts /\ disk \in Drafts
    /\ job \in Jobs
    /\ made \in Seq([revision : Nat, scope : 0..MaxReceipts])
    /\ draft # NoDraft => job.at = "none" \/ previous = NoDraft

LoopTypeOK ==
    /\ auto \in AutoStates
    /\ refused \in 0..TransientLimit

TypeOK ==
    /\ ScopeTypeOK
    /\ revision \in Nat /\ view \in 0..revision /\ scopeView \in 0..Len(journal)
    /\ plans \in Seq(Plans)
    /\ CommandsTypeOK /\ PlannerTypeOK /\ LoopTypeOK
    /\ used \in 0..MaxIds
    /\ bounds \in Limits

Init ==
    /\ ScopeInit
    /\ revision = 0 /\ plans = <<>> /\ view = 0 /\ scopeView = 0
    /\ draft = NoDraft /\ previous = NoDraft /\ job = NoJob
    /\ slot = NoCommand /\ last = NoCommand /\ disk = NoDraft
    /\ call = NoCall /\ retry = NoSave
    /\ turns = [s \in Sessions |-> NoTurn] /\ told = {}
    /\ auto = Idle /\ tries = NoTries /\ refused = 0 /\ lastAuto = NoCommand
    /\ used = 0 /\ made = <<>>
    /\ bounds \in Scenarios

Spend(what) == bounds[what] > 0 /\ bounds' = [bounds EXCEPT ![what] = @ - 1]

-----------------------------------------------------------------------------
(* The planner. *)

Active == job.at # "none"

\* checkpoint: while a revision is under way the draft is the one it revises.
Kept == IF previous # NoDraft THEN previous ELSE draft

\* cancel: the earlier draft comes back as it was.
HandedBack == previous

\* Planner::cancel, with a generation under way or not.
StopGeneration ==
    /\ draft' = IF previous # NoDraft THEN HandedBack ELSE draft
    /\ previous' = NoDraft /\ job' = NoJob

JobStep == UNCHANGED <<scopeVars, stores, loaded, draft, previous, console, calls, chat, loop, used>>

\* The generation first reads the task revision it was asked at, then the scope
\* and the repository, and the revision again before a model is admitted.
CheckRevision ==
    /\ job.at = "check"
    /\ job' = [job EXCEPT !.at = IF revision = job.expected THEN "scope" ELSE "bad"]
    /\ JobStep /\ UNCHANGED <<made, bounds>>

CaptureScope ==
    /\ job.at = "scope"
    /\ job' = [job EXCEPT !.at = "admit", !.scope = Len(journal), !.found = revision]
    /\ JobStep /\ UNCHANGED <<made, bounds>>

AdmitModel ==
    /\ job.at = "admit"
    /\ job' = [job EXCEPT !.at = IF revision = job.expected THEN "model" ELSE "bad"]
    /\ JobStep /\ UNCHANGED <<made, bounds>>

\* The reply is a valid plan, or an error, malformed or too long; a lost
\* connection goes back to admission.
Reply ==
    /\ job.at = "model"
    /\ \/ job' = [job EXCEPT !.at = "good"] /\ UNCHANGED bounds
       \/ job' = [job EXCEPT !.at = "bad"] /\ UNCHANGED bounds
       \/ Spend("faults") /\ job' = [job EXCEPT !.at = "admit"]
    /\ JobStep /\ UNCHANGED made

\* Planner::poll: a plan replaces the draft, anything else hands it back.
PollPlanner ==
    /\ job.at \in {"good", "bad"}
    /\ IF job.at = "good"
       THEN /\ made' = Append(made, [revision |-> job.found, scope |-> job.scope])
            /\ draft' = [number |-> Len(made'), revision |-> job.expected, scope |-> job.scope,
                         origin |-> job.origin]
            /\ previous' = NoDraft /\ job' = NoJob
       ELSE StopGeneration /\ UNCHANGED made
    /\ UNCHANGED <<scopeVars, stores, loaded, console, calls, chat, loop, used, bounds>>

-----------------------------------------------------------------------------
(* Commands. *)

WayfinderActive == \E s \in Sessions : turns[s].at # "none"

\* A typed command waits for the barrier and for the transaction under way.
Ready == slot = NoCommand /\ call = NoCall

Submit(command) == slot' = command /\ last' = command /\ UNCHANGED disk

Typed(command) ==
    /\ Ready /\ used < MaxIds /\ Spend("typed")
    /\ used' = used + 1
    /\ Submit(command)
    /\ UNCHANGED <<scopeVars, stores, loaded, planner, calls, chat, loop, made>>

PlanCommand(by) ==
    [op |-> "plan", id |-> used + 1, by |-> by, saved |-> FALSE, expected |-> view,
     base |-> Kept.number]

\* Fault: the save is bound to the loaded revision.
LoadedRevision == view

\* A save is bound to the revision its draft was made for.
DraftedRevision == draft.revision

SaveCommand(by) ==
    [op |-> "save", id |-> used + 1, by |-> by, saved |-> FALSE, expected |-> DraftedRevision,
     draft |-> draft]

ScopeRequest(id, action, by, expected) ==
    [id |-> id, action |-> action, by |-> by, expected |-> expected]

ScopeCommand(request) ==
    [op |-> "scope", id |-> request.id, by |-> request.by, saved |-> FALSE, request |-> request]

\* What the user has seen of the scope.
SeenScope == SubSeq(journal, 1, scopeView)

UserPlan == ~WayfinderActive /\ ~Active /\ Typed(PlanCommand("user"))

UserRevise ==
    /\ ~WayfinderActive /\ ~Active /\ draft # NoDraft
    /\ Typed([PlanCommand("user") EXCEPT !.op = "revise"])

UserCancel ==
    /\ Active \/ Kept # NoDraft
    /\ Typed([op |-> "cancel", id |-> used + 1, by |-> "user", saved |-> FALSE,
              generation |-> job.origin, base |-> Kept.number])

UserSave == ~WayfinderActive /\ ~Active /\ draft # NoDraft /\ Typed(SaveCommand("user"))

UserScope(action) ==
    /\ ~WayfinderActive
    /\ action \in {"draft", "confirm"}
    /\ action = "confirm" => Pending(SeenScope)
    /\ Typed(ScopeCommand(ScopeRequest(used + 1, action, "user", scopeView)))

\* /retry-command: the exact intent again, whatever became of it.
Retry ==
    /\ slot = NoCommand /\ last # NoCommand /\ last.op # "turn" /\ ~WayfinderActive
    /\ Spend("typed")
    /\ slot' = last
    /\ UNCHANGED <<scopeVars, stores, loaded, planner, last, disk, calls, chat, loop, used, made>>

\* The checkpoint of the conversation keeps the draft and opens the barrier.
SaveConversation ==
    /\ disk # Kept \/ (slot # NoCommand /\ ~slot.saved)
    /\ disk' = Kept
    /\ slot' = IF slot = NoCommand THEN slot ELSE [slot EXCEPT !.saved = TRUE]
    /\ UNCHANGED <<scopeVars, stores, loaded, planner, last, calls, chat, loop, used, made, bounds>>

Saved(ops) == slot # NoCommand /\ slot.saved /\ slot.op \in ops

\* Fault: whatever draft is found is taken for it.
AnyDraft == slot.base \in Nat

\* The draft a command was prepared for is the one it finds.
SameDraft == slot.base = Kept.number

\* dispatch_command: a request whose draft is there is answered with it, a
\* generation needs the planner idle and the draft it was asked over.
Generates ==
    /\ call = NoCall /\ ~(Kept # NoDraft /\ Kept.origin = slot.id)
    /\ ~Active /\ SameDraft /\ (slot.op = "revise" => slot.base # 0)

DispatchPlan ==
    /\ Saved({"plan", "revise"})
    /\ slot' = NoCommand
    /\ IF Generates
       THEN /\ job' = [NoJob EXCEPT !.at = "check", !.origin = slot.id,
                                    !.expected = slot.expected]
            /\ previous' = IF slot.op = "revise" THEN draft ELSE NoDraft
            /\ draft' = NoDraft
       ELSE UNCHANGED planner
    /\ UNCHANGED <<scopeVars, stores, loaded, last, disk, calls, chat, loop, used, made, bounds>>

\* A cancellation stops the generation it names, or drops the draft it names.
DispatchCancel ==
    /\ Saved({"cancel"})
    /\ slot' = NoCommand
    /\ IF call = NoCall /\ slot.generation = job.origin /\ SameDraft
       THEN IF Active THEN StopGeneration
            ELSE draft' = NoDraft /\ UNCHANGED <<previous, job>>
       ELSE UNCHANGED planner
    /\ UNCHANGED <<scopeVars, stores, loaded, last, disk, calls, chat, loop, used, made, bounds>>

DispatchStore ==
    /\ Saved({"save", "scope"})
    /\ slot' = NoCommand
    /\ IF call = NoCall
       THEN /\ call' = Sending(slot)
            /\ retry' = IF slot.op = "save" THEN slot ELSE retry
       ELSE UNCHANGED calls
    /\ UNCHANGED <<scopeVars, stores, loaded, planner, last, disk, chat, loop, used, made, bounds>>

-----------------------------------------------------------------------------
(* Transactions: in the background, under the scope lock and the store lock. *)

\* launch(None): a typed /refresh.
UserRefresh ==
    /\ Ready /\ Spend("typed")
    /\ call' = Sending([op |-> "read", by |-> "user"])
    /\ UNCHANGED <<scopeVars, stores, loaded, planner, console, retry, chat, loop, used, made>>

Answer(outcome) ==
    call' = [call EXCEPT !.at = "answered", !.outcome = outcome, !.seen = revision',
                         !.scopeSeen = Len(journal')]

Sent(op) == call.at = "sent" /\ call.command.op = op

PlanSaved(id) == \E i \in DOMAIN plans : plans[i].id = id

\* ensure_open and ensure_binding.
InScope == ~Pending(journal) /\ call.command.draft.scope = Len(journal)

Publish ==
    /\ plans' = Append(plans, [draft |-> call.command.draft, id |-> call.command.id,
                               at |-> revision, scope |-> Len(journal)])
    /\ revision' = revision + 1

\* transact_checked of a Plan; a save that fails may have been written or not.
TransactSave ==
    /\ Sent("save")
    /\ UNCHANGED <<scopeVars, loaded, planner, console, retry, chat, loop, used, made>>
    /\ \/ PlanSaved(call.command.id) /\ UNCHANGED <<stores, bounds>> /\ Answer("ok")
       \/ /\ ~PlanSaved(call.command.id) /\ ~InScope
          /\ UNCHANGED <<stores, bounds>> /\ Answer("denied")
       \/ /\ ~PlanSaved(call.command.id) /\ InScope /\ revision # call.command.expected
          /\ UNCHANGED <<stores, bounds>> /\ Answer("stale")
       \/ /\ ~PlanSaved(call.command.id) /\ InScope /\ revision = call.command.expected
          /\ \/ Publish /\ UNCHANGED bounds /\ Answer("ok")
             \/ (Publish \/ UNCHANGED stores) /\ Spend("faults") /\ Answer("uncertain")
       \/ Spend("faults") /\ UNCHANGED stores /\ Answer("busy")

\* Any failure of the scope store is reported as uncertain.
TransactScope ==
    /\ Sent("scope")
    /\ ScopeWrite(call.command.request)
    /\ UNCHANGED <<stores, loaded, planner, console, retry, chat, loop, used, made>>
    /\ \/ Answer(IF Answered(journal, call.command.request) THEN "ok" ELSE "uncertain")
          /\ UNCHANGED bounds
       \/ Answer("uncertain") /\ Spend("faults")

ReadStores ==
    /\ Sent("read")
    /\ UNCHANGED <<scopeVars, stores, loaded, planner, console, retry, chat, loop, used, made, bounds>>
    /\ Answer("ok")

Later(a, b) == IF a < b THEN b ELSE a

\* TaskControl::poll: the answer of a foreground operation.  Any that succeeds
\* settles the save that was not acknowledged, and clears the draft if that
\* save turns out to have its receipt.
PollStore ==
    /\ call.at = "answered"
    /\ view' = IF call.outcome \in {"ok", "stale"} THEN Later(view, call.seen) ELSE view
    /\ scopeView' = IF call.outcome = "ok" /\ call.command.op \in {"scope", "read"}
                    THEN Later(scopeView, call.scopeSeen) ELSE scopeView
    /\ draft' = IF /\ call.outcome = "ok" /\ retry # NoSave
                   /\ \E i \in DOMAIN plans : plans[i].id = retry.id /\ plans[i].at < call.seen
                THEN NoDraft ELSE draft
    /\ retry' = IF call.outcome \in {"ok", "denied"} THEN NoSave ELSE retry
    /\ lastAuto' = IF call.command.by = "autopilot" /\ lastAuto # NoCommand
                   THEN [lastAuto EXCEPT !.transient = call.outcome \in {"stale", "busy"}]
                   ELSE lastAuto
    /\ call' = NoCall
    /\ UNCHANGED <<scopeVars, stores, previous, job, console, chat, auto, tries, refused, used, made,
                   bounds>>

\* The background refresh of the visible views.
Refresh ==
    /\ <<view, scopeView>> # <<revision, Len(journal)>>
    /\ view' = revision /\ scopeView' = Len(journal)
    /\ UNCHANGED <<scopeVars, stores, planner, console, calls, chat, loop, used, made, bounds>>

-----------------------------------------------------------------------------
(* Chat turns that write the scope: wayfinder.rs. *)

SetTurn(s, turn) == turns' = [turns EXCEPT ![s] = turn]

\* Router::start.
Say(s, action) ==
    /\ turns[s] = NoTurn /\ used < MaxIds /\ Spend("spoken")
    /\ action = "confirm" => Pending(SeenScope)
    /\ used' = used + 1
    /\ SetTurn(s, [at |-> "preparing", cancelled |-> FALSE, seen |-> 0,
                   request |-> ScopeRequest(used + 1, action, "user",
                                            IF action = "enter" THEN 0 ELSE scopeView)])
    /\ UNCHANGED <<scopeVars, stores, loaded, planner, console, calls, told, loop, made>>

\* prepare: a prompt enters a flow only where there is none, and none was left.
PrepareTurn(s) ==
    /\ turns[s].at = "preparing"
    /\ SetTurn(s, IF turns[s].request.action = "enter" /\ (HasBrief(journal) \/ FlowCleared(journal))
                  THEN NoTurn ELSE [turns[s] EXCEPT !.at = "ready"])
    /\ UNCHANGED <<scopeVars, stores, loaded, planner, console, calls, told, loop, used, made, bounds>>

\* stage_ready_wayfinder: a ready turn waits for the barrier; one the user
\* cancelled is withdrawn, from the barrier too.
StageTurn(s) ==
    /\ turns[s].at = "ready" /\ ~turns[s].cancelled /\ slot = NoCommand
    /\ Submit([op |-> "turn", id |-> turns[s].request.id, by |-> "user", saved |-> FALSE,
               session |-> s, request |-> turns[s].request])
    /\ UNCHANGED <<scopeVars, stores, loaded, planner, calls, chat, loop, used, made, bounds>>

\* Router::resume: a retry of a saved scope turn.
ResumeTurn ==
    /\ slot = NoCommand /\ last # NoCommand /\ last.op = "turn" /\ Spend("spoken")
    /\ turns[last.session] = NoTurn
    /\ SetTurn(last.session, [at |-> "ready", cancelled |-> FALSE, seen |-> 0,
                              request |-> last.request])
    /\ slot' = last
    /\ UNCHANGED <<scopeVars, stores, loaded, planner, last, disk, calls, told, loop, used, made>>

WithdrawTurn(s) ==
    /\ turns[s].at = "ready" /\ turns[s].cancelled
    /\ SetTurn(s, NoTurn)
    /\ slot' = IF slot # NoCommand /\ slot.id = turns[s].request.id THEN NoCommand ELSE slot
    /\ UNCHANGED <<scopeVars, stores, loaded, planner, last, disk, calls, told, loop, used, made, bounds>>

CancelTurn(s) ==
    /\ turns[s].at \in {"preparing", "ready", "writing"} /\ ~turns[s].cancelled
    /\ Spend("spoken")
    /\ SetTurn(s, [turns[s] EXCEPT !.cancelled = TRUE])
    /\ UNCHANGED <<scopeVars, stores, loaded, planner, console, calls, told, loop, used, made>>

DispatchTurn ==
    /\ Saved({"turn"}) /\ ~turns[slot.session].cancelled
    /\ SetTurn(slot.session, [turns[slot.session] EXCEPT !.at = "writing"])
    /\ slot' = NoCommand
    /\ UNCHANGED <<scopeVars, stores, loaded, planner, last, disk, calls, told, loop, used, made, bounds>>

\* dispatch in the background.
WriteScope(s) ==
    /\ turns[s].at = "writing"
    /\ ScopeWrite(turns[s].request)
    /\ SetTurn(s, [turns[s] EXCEPT !.at = "written", !.seen = Len(journal')])
    /\ UNCHANGED <<stores, loaded, planner, console, calls, told, loop, used, made, bounds>>

\* Fault: the loser of two first prompts is told that it entered the flow.
ToldOfAnyFlow(request) == HasBrief(journal)

\* Only a request with its own receipt is acknowledged.
Acknowledged(request) == Receipted(journal, request)

PollTurn(s) ==
    /\ turns[s].at = "written"
    /\ told' = IF Acknowledged(turns[s].request) THEN told \cup {turns[s].request.id} ELSE told
    /\ scopeView' = Later(scopeView, turns[s].seen)
    /\ SetTurn(s, NoTurn)
    /\ UNCHANGED <<scopeVars, stores, view, planner, console, calls, loop, used, made, bounds>>

\* /scope-clear.
UserClear ==
    /\ slot = NoCommand /\ Spend("spoken") /\ cleared # Len(journal)
    /\ ClearFlow /\ scopeView' = Len(journal)
    /\ UNCHANGED <<stores, view, planner, console, calls, chat, loop, used, made>>

-----------------------------------------------------------------------------
(* The autopilot before it has tasks: autopilot.rs. *)

Planned == auto.phase \in {"scoping", "planning", "saving"}

Running == Planned /\ ~auto.paused

\* The author of the draft in force.
Author(j) == j[DraftRevision(j)].by

\* scope_blocker: a draft somebody else wrote awaits their review.
Blocked(j) == Pending(j) /\ ~Placeholder(j) /\ Author(j) # "autopilot"

\* Fault: a resumed loop goes on counting where the halted one stopped.
ForgetTries == tries' = NoTries /\ UNCHANGED <<lastAuto, refused>>

Forget == tries' = NoTries /\ lastAuto' = NoCommand /\ refused' = 0

Quiet == <<scopeVars, stores, loaded, calls, chat, made>>

Begin(phase) ==
    /\ auto' = [Idle EXCEPT !.phase = phase, !.plans = auto.plans + 1]
    /\ Forget
    /\ UNCHANGED <<Quiet, planner, console, used>>

\* start: /go GOAL.
Go ==
    /\ Spend("driven") /\ auto.phase \in {"none", "failed"}
    /\ ~Active /\ Kept = NoDraft /\ ~Blocked(SeenScope)
    /\ Begin("scoping")

\* start_plan: a bare /go with a draft that passes the lint.
GoDraft ==
    /\ Spend("driven") /\ auto.phase \in {"none", "failed"}
    /\ ~Active /\ draft # NoDraft
    /\ Begin("saving")

\* draft_matches: the draft is the one the autopilot asked for.
Matches == auto.plan # 0 /\ Kept.origin = auto.plan

Pause ==
    /\ Spend("driven") /\ Running
    /\ auto' = [auto EXCEPT !.paused = TRUE]
    /\ UNCHANGED <<Quiet, planner, console, tries, refused, lastAuto, used>>

\* stop: a generation the autopilot asked for is aborted, unless a draft has
\* landed, which makes it the user's revision.
Stop ==
    /\ Spend("driven") /\ Planned
    /\ IF auto.phase = "planning" /\ auto.plan # 0 /\ Active /\ Kept = NoDraft
       THEN auto' = [auto EXCEPT !.paused = TRUE, !.plan = 0] /\ StopGeneration
       ELSE auto' = [auto EXCEPT !.paused = TRUE] /\ UNCHANGED planner
    /\ UNCHANGED <<Quiet, console, tries, refused, lastAuto, used>>

Resume ==
    /\ Spend("driven") /\ Planned /\ auto.paused
    /\ auto' = [auto EXCEPT !.paused = FALSE,
                            !.plan = IF auto.phase = "planning" /\ ~Active /\ ~Matches THEN 0 ELSE @]
    /\ Forget
    /\ UNCHANGED <<Quiet, planner, console, used>>

\* advance: the submissions of each decision are counted afresh.
Advance(phase) ==
    /\ auto' = [auto EXCEPT !.phase = phase]
    /\ tries' = NoTries
    /\ UNCHANGED <<Quiet, planner, console, refused, lastAuto, used, bounds>>

Fail ==
    /\ auto' = [auto EXCEPT !.phase = "failed"]
    /\ UNCHANGED <<Quiet, planner, console, tries, refused, lastAuto, used, bounds>>

Exhausted(transient, submissions) ==
    (transient /\ refused + 1 >= TransientLimit) \/ submissions >= Attempts

\* tick, once a decision is made: a refusal that wrote nothing is neither an
\* attempt nor progress, but both are bounded.
Propose(key, command, state) ==
    LET transient == lastAuto # NoCommand /\ lastAuto.transient
        counted == IF transient THEN [tries EXCEPT ![lastAuto.key] = Later(@, 1) - 1] ELSE tries
        halts == Exhausted(transient, counted[key])
    IN /\ used < MaxIds /\ used' = used + 1
       /\ refused' = IF transient THEN refused + 1 ELSE 0
       /\ tries' = IF halts THEN counted ELSE [counted EXCEPT ![key] = @ + 1]
       /\ auto' = IF halts THEN [state EXCEPT !.paused = TRUE] ELSE state
       /\ IF halts THEN UNCHANGED <<lastAuto, slot, last, disk>>
          ELSE /\ lastAuto' = [op |-> command.op, key |-> key, transient |-> FALSE]
               /\ Submit(command)
       /\ UNCHANGED <<Quiet, planner, bounds>>

\* Fault: the autopilot waits for a save that was not acknowledged.
TickSettled == Running /\ Ready /\ ~WayfinderActive /\ retry = NoSave

\* The autopilot decides between the user's commands, one at a time.
Tick == Running /\ Ready /\ ~WayfinderActive

\* scoping: the goal's own scope is drafted and confirmed where one is needed,
\* and nobody else's is.
Scoping ==
    /\ Tick /\ auto.phase = "scoping"
    /\ IF Blocked(SeenScope) THEN Fail
       ELSE IF Confirmed(SeenScope) \/ (~HasBrief(SeenScope) /\ ~bounds.consequential)
       THEN Advance("planning")
       ELSE LET action == IF Pending(SeenScope) /\ Author(SeenScope) = "autopilot"
                          THEN "confirm" ELSE "draft"
            IN Propose(action,
                       ScopeCommand(ScopeRequest(used + 1, action, "autopilot", scopeView)), auto)

\* A generation that brought no draft, or one the lint rejects, is tried again.
PlanFailed ==
    /\ auto' = IF auto.failures + 1 >= PlanAttempts
               THEN [auto EXCEPT !.failures = @ + 1, !.plan = 0, !.phase = "failed"]
               ELSE [auto EXCEPT !.failures = @ + 1, !.plan = 0]
    /\ tries' = [tries EXCEPT !["plan"] = 0]
    /\ UNCHANGED <<Quiet, console, refused, lastAuto, used, bounds>>

PlanningStep ==
    /\ Tick /\ auto.phase = "planning" /\ ~Active
    /\ \/ auto.plan # 0 /\ Matches /\ Advance("saving")
       \/ auto.plan # 0 /\ Matches /\ draft' = NoDraft /\ UNCHANGED <<previous, job>> /\ PlanFailed
       \/ auto.plan # 0 /\ ~Matches /\ PlanFailed /\ UNCHANGED planner
       \/ auto.plan = 0 /\ Kept # NoDraft /\ Fail
       \/ /\ auto.plan = 0 /\ Kept = NoDraft
          /\ Propose("plan", PlanCommand("autopilot"), [auto EXCEPT !.plan = used + 1])

SaveLoaded == \E i \in DOMAIN plans : plans[i].id = auto.save /\ plans[i].at < view

Saving ==
    /\ Tick /\ auto.phase = "saving" /\ ~Active
    /\ IF SaveLoaded THEN Advance("running")
       ELSE IF Kept = NoDraft THEN Fail
       ELSE Propose("save", SaveCommand("autopilot"), [auto EXCEPT !.save = used + 1])

-----------------------------------------------------------------------------
(* The rest of the world. *)

\* Another terminal or a worker writes a receipt.
OthersWrite ==
    /\ Spend("others") /\ revision' = revision + 1
    /\ UNCHANGED <<scopeVars, plans, loaded, planner, console, calls, chat, loop, used, made>>

\* Another terminal writes the scope it sees.
OthersScope(action) ==
    /\ Spend("others") /\ used < MaxIds /\ used' = used + 1
    /\ LET request == ScopeRequest(used + 1, action, "elsewhere", Len(journal))
       IN Commits(journal, request) /\ ScopeWrite(request)
    /\ UNCHANGED <<stores, loaded, planner, console, calls, chat, loop, made>>

\* The program dies, with the transaction it had under way, and is started
\* again: the draft of the last checkpoint is restored and nothing else runs.
Crash ==
    /\ Spend("crashes")
    /\ draft' = disk /\ previous' = NoDraft /\ job' = NoJob
    /\ slot' = NoCommand /\ call' = NoCall /\ retry' = NoSave
    /\ turns' = [s \in Sessions |-> NoTurn]
    /\ auto' = IF Planned THEN [auto EXCEPT !.paused = TRUE] ELSE auto
    /\ Forget
    /\ view' = revision /\ scopeView' = Len(journal)
    /\ UNCHANGED <<scopeVars, stores, last, disk, told, used, made>>

PlannerStep == CheckRevision \/ CaptureScope \/ AdmitModel \/ Reply \/ PollPlanner

Barrier == SaveConversation \/ DispatchPlan \/ DispatchCancel \/ DispatchStore \/ DispatchTurn

Transaction == TransactSave \/ TransactScope \/ ReadStores \/ PollStore

Router(s) == PrepareTurn(s) \/ StageTurn(s) \/ WithdrawTurn(s) \/ WriteScope(s) \/ PollTurn(s)

Loop == Scoping \/ PlanningStep \/ Saving

User ==
    \/ UserPlan \/ UserRevise \/ UserCancel \/ UserSave \/ UserRefresh \/ UserClear
    \/ Retry \/ ResumeTurn
    \/ \E action \in Actions : UserScope(action)
    \/ Go \/ GoDraft \/ Pause \/ Stop \/ Resume

Speaks(s) == CancelTurn(s) \/ \E action \in Actions : Say(s, action)

System == PlannerStep \/ Barrier \/ Transaction \/ Loop \/ Refresh \/ \E s \in Sessions : Router(s)

Others == OthersWrite \/ \E action \in Actions : OthersScope(action)

Next == System \/ User \/ (\E s \in Sessions : Speaks(s)) \/ Others \/ Crash

Spec == Init /\ [][Next]_vars

\* The main loop polls each of these for ever; a model answers or times out.
FairSpec == Spec /\ WF_vars(System)

-----------------------------------------------------------------------------
\* A saved plan was made for the task revision and the agreed scope it is saved
\* on: nothing was written in between, through failed revisions, retries and
\* restarts.  As a save is itself written, no draft becomes tasks twice.
PublishedAsPlanned ==
    \A i \in DOMAIN plans : LET asked == made[plans[i].draft.number]
                            IN asked.revision = plans[i].at /\ asked.scope = plans[i].scope

\* A draft of the scope that somebody else wrote is never confirmed by the
\* autopilot, however its steps and theirs interleave.
OthersDecide ==
    \A i \in DOMAIN journal : journal[i].by = "autopilot" /\ journal[i].action = "confirm"
                               => journal[i - 1].by = "autopilot"

\* A chat turn is told that its prompt was applied only if that very prompt was.
ToldIsWritten == \A id \in told : Receipted(journal, [id |-> id])

LeavesBy(way) ==
    Kept # NoDraft /\ Kept' # Kept /\ bounds'.crashes = bounds.crashes =>
        \/ Saved({"plan", "revise", "cancel"}) /\ slot.base = Kept.number
        \/ job.at = "good"
        \/ auto'.failures > auto.failures
        \/ way

\* A complete draft leaves only by a command that was prepared for that very
\* draft, a restart, its own revision, the autopilot's lint, or the answer that
\* an earlier save has its receipt.
DraftsAreKept == [][LeavesBy(retry # NoSave /\ PlanSaved(retry.id))]_vars

\* A plan is kept until something that may end it does, and saved as planned.
PlansHold == []PublishedAsPlanned /\ DraftsAreKept

\* An autopilot that is left alone gets its tasks, gives up or pauses.
PlanningEnds == Running ~> ~Running

\* Nobody's scope is decided by somebody else and nobody is told otherwise.
ScopeIsOwn == TypeOK /\ OthersDecide /\ ToldIsWritten
=============================================================================
