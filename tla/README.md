# Alfredo in TLA+

Alfredo is a terminal program (Rust, `alfredo-tui/src`) that orchestrates local
coding agents: a user discusses a goal, plans tasks, permits and approves them,
workers change a retained worktree and run one approved check, and a reviewer
accepts the result. Several Alfredo processes may share one *mission*. All
authority is in files: a task store with a journal of receipts, a shared
understanding, artifacts of each run, saved conversations and a ledger of
inference slots. Model text has none.

This directory holds specifications of that protocol, the configurations that
model-check them with TLC, and proofs for TLAPS. Everything is translated from the
Rust source; `PROJECT.json` names the lines of every definition.

## 1. Inventory

| Component (sources) | State | Operations | Meets | What is hard | What makes it correct |
|---|---|---|---|---|---|
| **Task store** (`tasks.rs`, `assessment.rs`, `architecture.rs`) | tasks, their runs and decisions, journal of at most 4096 receipts, one revision | 20 actions in one locked transaction; claims, recovery | everything | long sequences of legal commands; two terminals; bounded journal; uncertain saves | acceptance is earned, inputs exact, outcomes and resolutions final, a result always has room |
| **Shared understanding** (`understanding.rs`, `wayfinder.rs`) | brief, drafts, confirmation, receipts | intake, answer, draft, confirm, cancel | task store (guard under one lock), planner | changes between plan and start | no work under a pending or later understanding; nobody confirms another's words |
| **Worker** (`worker.rs`, `worker/answer.rs`) | owner lock, step of the run, cancel flag | prepare, claim, infer, edit, check, save evidence, publish | task store, check boundary, provider, recovery | crashes, dropped awaits, retries | one outcome per run, of its own evidence |
| **Check boundary** (`run_boundary.rs`, `execution.rs`) | run-start, intent, result, evidence files; a process tree | exclusive create and sync, launch, terminate, interruption proofs | worker, recovery | crash between any two writes; descendants that outlive their leader | a check starts once; what recovery and receipts say is true |
| **Inference admission** (`inference_admission.rs`, loop in `provider.rs`) | ledger, owner files, ledger lock, streak | poll, grant, adopt, reap, release | all requests of all processes to an endpoint | dead holders, failed publications, mixed capacities, starvation | one capacity, order, bounded bypass, a usable ledger |
| **Provider and turns** (`provider.rs`, `model.rs`, `compaction.rs`, `agent.rs`) | streams, deadlines, transcripts | request, stream, retry, compact | admission, chat, workers | deadlines racing answers | a turn ends once, with the text of one stream |
| **Saved commands** (`console_log.rs`, `console_command.rs`, `command_intent.rs`, `command_staging.rs`) | console entries with their exact requests | submit, save, dispatch, retry, settle, restore | conversation store, task control, task store | retries after uncertain saves, restarts | at-most-once effect, intent saved first, truthful records |
| **Conversation store** (`conversations.rs`, `agent_drafts.rs`, `reading.rs`) | snapshot file, owner lock, pending checkpoint | checkpoint, final save, restore | main loop, selection | stale checkpoints | the barrier opens for the exact saved entry |
| **Task control, dispatch** (`task_control.rs`, `task_control/commands.rs`, `dispatch.rs`, `control_command.rs`) | loaded snapshot, pending call, workers, dispatch epoch | send, poll, refresh, launch, stop | saved commands, task store, workers | stale preparations, transient refusals | only approved, current work is launched |
| **Autopilot, instructions, headless** (`autopilot.rs`, `autopilot_failure.rs`, `instruct.rs`, `headless.rs`) | phase, attempts, repair counts, exit code | tick, pause, resume, stop, instruct | saved commands, dispatch | choices on stale snapshots, restarts, signals | bounded attempts, quiet when paused, a true exit |
| **Planner** (`planner*.rs`, `planning_context.rs`, `plan_lint.rs`) | a draft and its origin | generate, show, save, expire | understanding, task store | stale drafts | a plan is saved once, under its scope |
| **Workspace selection** (`selection*.rs`, `workstation.rs`, `missions.rs`) | current workspace and mission, selection journal | prepare, hand over, arrive | conversation store, repository | failures and deaths halfway | the old work is owned until the new one is |
| **Chat agent tools** (`chat_tools/*`) | approval cards, rules, undo copies | call, ask, run, undo; commit, switch, merge, push | owner, working tree, Git | typeahead, interruption, a repository that moves on | no unapproved mutation, a true log, a true report |
| **Main loop** (`main.rs`, `wake.rs`) | order of polls, exit | one turn, exit | everything above | exit with live workers | nothing is half done after it |
| **Presentation, maintenance, qualification** | none that authorises anything | | | | not modelled |

How they interact. A typed command becomes a console entry with an exact request
(*saved commands*); a checkpoint of the conversation must hold that very entry
before *task control* sends the request to the *task store*, whose receipt alone
acknowledges it. A `/run` or a *dispatch* starts a *worker*: it claims the owner
lock of the task, appends `Start`, waits for *inference admission*, edits, runs
the check across the *check boundary*, saves evidence and appends `Finish`. If it
stops anywhere, `/recover` in any process may take the owner lock over and
publish what the artifacts prove. Reviews and repairs build on the evidence. The
*autopilot* does all of it on behalf of the user, through the same barrier, in a
terminal or *headless*. A *chat* may write the shared understanding and, with
approval cards, the repository itself.

## 2. Modules

| Module | Models | Composed with |
|---|---|---|
| `TaskStore` | the governed task state machine | |
| `GovernedRun` | abstract: what a task promises of its runs | refined by `RunLifecycle` |
| `RunLifecycle` | worker, check closure, recovery, exits and deaths of several processes over one task | |
| `Admission` | the shared inference ledger | |
| `SavedCommand` | a command from submission to receipt, over exits, deaths and restarts | |
| `Dispatch` | automatic and typed launches of one terminal, and its controls | |
| `Autopilot` | the loop over a saved plan with repairs, instructions, pause and restart | |
| `Headless` | the same loop in a process without a terminal | extends `Autopilot` |
| `Understanding` | the journal of the shared understanding | |
| `Planning` | planner, chat turns that write the scope, the autopilot's planning | extends `Understanding` |
| `ChatTurn` | chat turns with approval cards, their log and queued prompts | |
| `Execution`, `Provider` | one supervised process tree; one streamed request with retries | |
| `Work` | what a worker does between its claim and its evidence | extends `Execution`, `Provider` |
| `Selection` | opening, creating and switching workspaces and missions | |
| `GitWrite` | the chat's Git tools that write | |
| `PlanningInvariant`, `HeadlessInvariant`, `GitWriteInvariant` | the inductive invariants of `Planning`, of the loop and of `GitWrite` | extend them |
| `*_proofs` | theorems about the module they are named after; `Work_proofs` also about `Planning`, `Admission_proofs` also about `Headless`, `TaskStore_proofs` also about `GitWrite` | extend what they are about |

Three proof modules hold the theorems of two components each, which share lemmas about
finite sets and recursion; names that would clash carry the component's name
(`AdmissionSpec`, `WorkSpec`, `HeadlessSpec`, `GitSpec`).

Each `MC` module extends its specification with the constant values of its
configuration. In most modules a variable holds a *scenario* that is chosen in
`Init` and bounds the execution (how often a user acts, a save fails, a process
dies), so that one run covers several small worlds. Operators marked `Fault:` are
plausible mistakes in a definition (a dropped guard, a swapped order) beside which
they stand; with one of them in its place the named property is violated. No
specification uses them.

### TaskStore

One action per `Action` of `tasks.rs`, with the guards of `transact_checked` and
`apply` together. `RepairArchitecture` and `RouteToArchitect` are the two results
of `ReviewArchitecture`, `AdoptArchitecture` is a `Plan` that revises a rejected
task. The state is the sequence of tasks (an id is an index), the number of
receipts, and the shared understanding as its revision and whether it is open.
What the code reads back from its journal is kept in the task: `passed` (the
current run's review-ready `Finish`), `decision`, `assessed`, `routed`,
`resolves`, `planned`/`contract`/`architect`/`bound` (its `Plan` receipt).
`acknowledged` is a ghost for one property. Wording, evidence contents, byte limits
and the replay of journals of older versions are left out.

### RunLifecycle and GovernedRun

A process has an `actor` (a worker in `start_checked`/`perform`, or a
`recover_with`) and a `check`, the blocking closure a worker awaits. Artifacts are
absent, partial (created exclusively, not yet synced) or whole. Each create and
each sync is a step, so that a death, a failure or another process may come in
between. `Crash` is the death of a process: its lock is freed and its closure
ends. `Quit` is the end of the program with `shutdown_timeout`: the worker is
dropped at one of its awaits, *which frees its lock*, while the closure goes on
until `Exit`; `orphans` remembers such runs. One task is enough, since owner locks,
artifacts and Finish receipts belong to one task; what other tasks write shows only
as an outdated preparation. `GovernedRun` says what this promises: a run is claimed
once, its check starts at most once and only while it is the running one, and it has
at most one outcome, review-ready only after a check. `RunLifecycle` implements it
with `task`, `finished` and `launches` for its variables.

### Admission

A poll or a release is a transaction under the ledger lock: reaping and deciding
(one step: owner locks are read once, so an owner that dies in between looks like
one that dies right after), publication, removal of reaped owner files. The lock
attempt does not block; a client that finds it taken polls again. A death leaves
ledger and files as they are. `passed` is a ghost. Ticket numbers, timestamps and
the queue's observations are left out. A publication that failed is the one thing that
can leave a live ticket without its entry, which makes the ledger refuse its next user;
`ProofHolds` says that this ticket is always that of a client which was refused for it
and has yet to give it up (`GivenUp`), and that every other ticket has its entry.

### SavedCommand

The journal says whose receipt each revision is (`Other` for every other
terminal and for workers). A command's request is bound to the revision loaded at
its submission and never changes; `attempt` counts its submissions. `Checkpoint`,
`Write`, `Collect` are the autosave, `Dispatch`, `Transact`, `Poll` the call,
`Retry` is `/retry-command`, `Leave`, `Die`, `Start` the life of the program. The
loop's poll and its settlement of unmatched commands are one action because
nothing else runs in between. Entries of settled commands stay: that `/clear`
(`compaction.rs:446`) or the bound on the history (`console_log.rs:610`) removes them is
left out, since both keep what is pending or submitted, which is what the properties
order.

### Dispatch

One terminal. `/dispatch on` is checked in the background against the saved scope
and enables the controller in a new epoch; a launch is chosen on the loaded
snapshot, waits for its intent to be saved, is validated again, and spawns a worker
that claims the task in the store. Typed runs, cancels and retries share the barrier.
Other terminals write receipts of every kind that matters here, the scope is
redrafted, and reads find the store busy. `stoppedAt` (the console entry that
stopped dispatch last) and `spent` (approvals whose start failed for good) are
ghosts.

### Autopilot and Headless

The loop settles the *families* of its tasks (a task with its repairs and
revisions) on the loaded snapshot, submits one command at a time through the
barrier, and builds the integration branch in the background. The user pauses,
stops, resumes, cancels and instructs; the program dies and comes back. The failure
classes of `autopilot_failure.rs` are one nondeterministic decision per failed run.
`Headless` adds the process without a terminal: signals, fatal errors, a retry that
is queued and may not take within its minute, the wait for workers, and the exit
code. `automatic` (a ghost) is the set of repairs that the loop saved; `ByLoop` are
those that count, for a repair that somebody cancels before it starts spends nothing
of the budget. The budget of a family is `RepairLimit`, that is `--max-repairs`, or
what a repair by the owner set for the family (`reenter_for_repair`). `run_chat` and the
stream of progress events are left out.

`saved` is the state of the run in memory and `file` the one on disk. Every save may
fail (`Persist`): the run is then paused in memory, *dispatch stays as it is*, and the
file holds the old state or, if only the directory was not synced, the new one. A save
of the counts alone (`RecordProgress`) may fail at any turn; the counts themselves are
left out. While a run is paused the user may type `/dispatch on` like any manual command
(`Type`, `observe_manual`). So a paused run has dispatch off unless one of the two
happened since the pause: `overridden` is the ghost for it. `/dispatch off` pauses a
running loop (`Pause`) and just stops dispatch otherwise (`DispatchOff`). A setup error
of a process without a terminal (`SetupFails`: no model server, a goal that needs a
terminal, `--go` beside a paused run, a retry that cannot be queued) ends it with exit
code 2 and leaves the run as it was restored. The attempts at `/dispatch on` are counted
per revision of the store, so they start over when another snapshot is loaded (`Load`).

Left out here: `--go` over a finished run, which replaces it by another run (planning it
is in `Planning`); failed saves of the instruction's own file; a typed command while
another one is pending, which the code refuses. The turns that save the state twice
are one save.

### Understanding and Planning

`Understanding` derives brief, confirmation and revision from a bounded journal of
receipts. `Planning` runs three flows over it: the planner (generate, revise,
cancel, save a draft bound to the store and scope it was made on), chat turns whose
reply may enter, draft or confirm the scope, and the autopilot, which drafts and
confirms the scope of a consequential goal itself. Saves are refused, or end without
an answer although they took effect. What a plan says is a draft number. A command
keeps what it was prepared with (`slot`, `call.command`) until its answer.

### ChatTurn

The terminal loop serves events, cards, keys and aborts in the order of `main.rs`;
each session's turn is a job that asks with a *card* and hands an approved call to a
thread that outlives it. One file stands for the workspace, written as the edit tool
writes it (only if it still has the fingerprint of its card). Undo's check and rename
are one step. Budgets, masking, the arming delay and read-only tools are left out: they
decide only whether a card is made. Compaction is left out too (see section 4). A pass
that takes queued text out of a chat reads no key, even if the text only went back to
the prompt: otherwise a key could come between the completed turn of another chat and
the text queued behind it. Texts are short: that a reply outgrows `MAX_TEXT` while its
job goes on (`model.rs:1747`), or that queued text is too long to go back to the prompt
and is kept in the Up-arrow history instead (`model.rs:1024`), is left out.

### Execution, Provider and Work

`Execution` is the launcher's loop over a process group: cancel, output limit,
leader, grace of descendants, deadline; then SIGTERM, grace, SIGKILL and a receipt, or
none for an output with a NUL byte, which is an error to the caller (`no-receipt`).
One descendant stands for all and one capture thread for two. That a sandboxed
descendant dies with its leader is the kernel's behaviour. `Provider` is a streamed
request: it waits for capacity, checks that it is still wanted, sends, streams, and
repeats a try that failed before anything came. `Work` is the worker around both:
worktree, answer, files, check, patch, candidate commit, evidence. A frame of the
stream is the pair of its try and its place, so that text of two tries would show.
The worktree is the set of marks of what differs from the baseline. Another program
may write into it after a passed check (`meddled`).

### Selection

A place is a workspace with a mission and its conversation. A terminal validates a
choice, records it in the conversation it leaves and in the selection journal,
prepares repository and mission, locks the target, and hands over; at the next start
it reconciles its history with the journal. Journal and mission are each written
under a lock in one step; a write may fail, or take effect and still report an error.
Another program may create a repository. `/clear` (`Clear`, `clear_conversation`) drops
the entries of an idle conversation, unless one of them is still under way, and the next
save overwrites the file: choices and arrivals are gone from it. The ghost `cleared`
notes which, for the properties promise an entry only until then; the journal keeps its
record. The replies, drafts and notes that `/clear` drops too are not in the model.

### GitWrite

A call builds its card with a fingerprint (`ShowCard`, `Preview`), waits for the owner
(`Approved`, `Deny`), compares the fingerprint, plans again, and runs git commands
within one time budget. A repository
is commits, refs, index, intent-to-add entries, worktree, a merge in progress, a
lock file, a remote and its configuration. Git itself is external: each command has
its effect or fails without one, a stopped one may have had it and may leave
`index.lock`. As in the code, the fingerprint holds porcelain status letters, not
contents; the contents are read again by the plan. Runs in which somebody else
writes during the call itself (`raced`), or brings the repository back to the state
of the fingerprint in between (`returned`), are outside `AsShown` and
`ReportsAreTrue`. A call that was stopped promises no more than a report that does not
claim success or an unchanged repository.

## 3. What is checked

Twelve runs. Properties in one row are conjunctions of named parts, each with its
own comment in the module.

| Run | Bounds | Properties and their parts | Shows |
|---|---|---|---|
| `tasks` | 4 tasks, 14 receipts, 2 scope revisions; either a producer, its consumer and a repair, or one family | `TypeOK`, `AcceptedIsEarned`, `AcceptedMeetsContract`, `InputsStayExact`, `ResultsHaveRoom`, `LineagesHold` (a resolution is final, replaced branches are dormant, a route to the Architect stays pending), `OneAnswerPerFamily` (a dependency keeps its source, a held repair is the only answer), `FinalOutcomes`, `WorkFollowsScope` | every decision, a journal that fills up, a redraft meanwhile, two architecture failures and an adopted revision |
| `runs` | 2 processes; 2 runs and 2 deaths, or 1 run, 1 death and 2 exits | `ProofsHold` (types, `LaunchesProven`, `ReviewReadyProven`, `FinishBindsEvidence`, `InterruptedBeforeLaunch`, `InterruptedAfterResult`), `SealedIsQuiet`, `ImplementsGovernedRun`, `OwnerReleased` | recovery after deaths at any step; exits whose check goes on; the refinement |
| `capacity` | 2 clients of one capacity, or 3 of capacities 1, 1 and 2; 2 tickets, 1 death, 1 failed publication | `LedgerHolds` (types, `ProofHolds`, `OneCapacity`), `ServedInTurn` (`BackgroundIsServed`, `ClassOrder`), `TicketServed` | the streak of 3, a full queue, deaths within transactions |
| `commands` | 1 or 2 commands, 2 submissions each, 1 failed save, 1 restart | `TakesEffectOnce`, `RecordsAreTrue` (types, `IntentSavedFirst`, `FirstRefusalIsFinal`, `StaleIsUnwritten`), `CommandSettles` | retries over failures and restarts |
| `dispatch` | 2 tasks, 3 receipts, 3 inputs, 1 failed save, 1 restart | `ControlsHold` (types, `CancelHitsItsWorker`), `StopsHold` (`NoLateLaunch`, `SpentStaysSpent`), `ReadyIsTaken` | toggles, launches and cancels that race redrafts, other terminals and a restart |
| `loop` | 1 task with up to 2 repairs or 2 tasks; by scenario up to 2 inputs, 1 crash and 1 failed save, with and without a terminal | `BudgetHolds` (types, `RepairsBounded`, `PausedIsQuiet`), `ExitIsTrue`, `RunsEnd` | the autopilot under a user, other terminals, signals, errors, setup errors, a failed save of its state and a crash |
| `resumed` | 1 task that is being steered, 1 crash | `ResumeContinues` (violated) | section 4 |
| `plans` | 4 commands, 3 prompts or 2 decisions, 1 fault, 1 crash | `PlansHold` (`PublishedAsPlanned`, `DraftsAreKept`), `ScopeIsOwn` (types, `OthersDecide`, `ToldIsWritten`), `RoomToAgree`, `PlanningEnds` | planner, chats and autopilot over one scope journal of 4 receipts |
| `chat` | 2 cards, 2 sessions, 3 prompts, 1 foreign write, 1 quit | `CardsHold` (`KeyAnswersCardShown`, `OneOutcome`, `NoCardForgotten`, `LogTellsTruth`), `TranscriptHolds` (types, `TextsInOrder`, `StepsAreOwn`), `AbandonedSettles` | abandoned turns with a call in flight, rules, queued prompts |
| `work` | 2 retries, 2 frames, 2 files | `SuccessIsEarned`, `NothingRunsOn`, `WorkerEnds` | forks, floods, ignored signals, broken streams, a cancel at any moment, a foreign write |
| `selection` | 2 terminals, 2 places, 3 choices, or 2 and a fault or a `/clear`; four of these while one terminal is alone | `WorkIsOwned`, `ChoicesHold` (`NothingUnannounced`, `HistoryIsTrue`) | deaths and failures between any two effects of a switch, and conversations that are cleared between switches |
| `git` | 3 files (one a credential), 2 branches, 1 or 2 calls, 1 fault, up to 2 writes of others | `AsShown`, `ReportsAreTrue`, `CallEnds` | the owner edits, stages, commits, merges or reconfigures between card and call, or has a merge under way before it; commands fail, hang or are stopped |

Why these bounds meet the hard cases. A dependency's source can change only with a
producer, a consumer and a repair (three tasks), and the route to the Architect
takes a task, a repair that fails again, a revision and one more task (four);
constraint `Small` of `MCTaskStore` keeps to these two worlds. Fourteen receipts let
each task run, be reviewed and be repaired, and let the journal fill up while one
runs. Two runs separate an old run's closure or evidence from the current one's; two
processes are a worker and a recovery, and a third would repeat either role under the
same lock. Two deaths reach a recovery of a recovery. Three clients give two of a
class and one of the other. Two commands compete for the barrier and the call. A
spent approval shows with a task that is approved twice, a late launch with one
toggle off and on. A third repair would repeat the second. Two cards are a pending
and a running one, in two sessions or in one whose turn was retried. Two frames and
two tries show text of two streams in one answer. Two places are the old and the new
work; constraint `Few` of `MCSelection` trades one choice for one fault or for one
cleared conversation, except while one terminal is at work alone: a choice, its `/clear`,
a choice back and a death are four (1,334,926 states). The scenarios of `MCHeadless` give
each process of the loop what it needs for a hard case rather than everything at once: a
failed save followed by a restart or by a command, two inputs for a pause and its
resumption or a `/dispatch on` in it (196,701 states). Two calls of a Git tool show that
the second is not misled by what the first left behind.

A configuration that disables the deadlock check belongs to a system that may really
stop: the journal is full (`TaskStore`), the last run ended (`RunLifecycle`), the
program was left for good (`SavedCommand`, `Dispatch`, `ChatTurn`), the run or the
process ended (`Autopilot`, `Headless`), nobody has anything left to ask
(`Planning`, `GitWrite`). Symmetry is used only in `selection`, which
has no liveness property.

### Fairness

- `RunLifecycle`: weak fairness of each process's worker, closure and recovery: the
  async runtime and the blocking pool run what was spawned, and every wait in them
  has a deadline. Nobody has to start work, recover, stop or exit.
- `Admission`: weak fairness of a transaction's steps and of the end of an admitted
  or refused request (deadlines of the provider); strong fairness of a client's
  attempt. The last is an assumption: the code polls every 25 ms with a lock attempt
  that does not block, so a ledger that is free again and again is met free at some
  poll. Clients that wait for another capacity hold no ticket and are promised
  nothing.
- `SavedCommand`, `Dispatch`: weak fairness of what each turn of the loop does
  (checkpoint, collection, poll, dispatch, refresh) and of blocking closures and
  workers, which have deadlines. Users, other terminals, failures and deaths are not
  fair.
- `Autopilot`, `Headless`, `Planning`: one weak fairness of the program as a whole:
  as long as the loop, a command, a worker or a model request has something to do,
  one of them does it.
- `ChatTurn`: weak fairness of the loop's passes, of each turn's job and of each
  thread; a command need not end by itself and the owner need not press a key.
- `Work`: weak fairness of the worker and the stream (the server answers or a
  deadline passes), strong fairness of the launcher's look at the check's deadline,
  which every turn of its poll loop takes, whatever the processes do in between.
- `GitWrite`: weak fairness of the call's own steps and of its budget running out
  (`Cut`); none of a git command, which may hang.

Liveness properties name what excuses them. `RunsEnd` excuses a loop that waits for
the user, an instruction whose worker died with the program (section 4), and an
instruction in a process without a terminal, which nothing there carries out.

## 4. Where code and documents disagree

One run ends in a counterexample.

`resumed`: an instruction is steering a worker when the program is killed. After
the restart it is restored as active, and for a task that is still Running it only
waits (`instruct.rs:643`, `655`), while the autopilot makes no decision for a family
an instruction holds. `/resume` then waits for ever for a worker that is gone;
`docs/reference.md:147` promises that it requeues the task and continues, and
`reference.md:842` that instructions continue after a restart.

Met while modelling, not made into runs:

- `--resume --headless` of a run with an active instruction waits for ever, since a
  headless loop never ticks instructions. A retry that times out after its repair was
  saved leaves a failed run that `--resume --headless` does not resume. A run that
  the autopilot stops for its environment (`reference.md:86–105`) leaves dispatch on,
  so tasks that are approved are still started. Exit code 0 is possible without a
  branch.
- Repairs are said to reuse exactly their parent's baseline; a cancelled run can be
  repaired and then requeued onto another one. A permit given after a requeue needs no
  new approval after the next.
- The owner lock is documented as held until the worker has stopped publishing; at
  exit the worker future is dropped first, and its closure may still write the launch
  intent and launch within the second that `shutdown_timeout` waits. The properties of
  `RunLifecycle` name such runs (`orphans`) and exempt them where they must.
- A retry of a command in flight is refused locally, and the console says "Not
  dispatched" of a command whose receipt is written, until that receipt is loaded.
- `reference.md:1595–1598` says that `/plan-cancel` discards the draft and the pending
  revision; stopping a revision keeps the earlier draft (`planner.rs:416–430`).
  `reference.md:1148` says that drafts are not restored after a restart, the section
  from line 1603 on and the code that they are.
- Undo acts "while the file still equals what the edit left" (`reference.md:2010`), but
  that content is read from the file after the edit (`undo.rs:236`), with what another
  program wrote in between. Quitting with an open card leaves it without a log entry.
- `execution.rs:1215–1220`: output that is not UTF-8 turns an unknown outcome into a
  certain one, though a failed cleanup "remains outcome-unknown" (`reference.md:1367`).
  `NothingRunsOn` exempts such output.
- `/pause` "stops new starts" (`reference.md:128`), and so it does; but a run whose state
  cannot be saved is paused by `persist` with dispatch left on (`autopilot.rs:676–681`):
  tasks that are approved are still started. `PausedIsQuiet` names this case.
- Near the size limit, queued text returns to the prompt and the same pass does read a
  key (`main.rs:1238–1243`). If another chat's turn has completed too, an Enter there
  sends the text being typed before the text queued behind that turn. `TextsInOrder`
  holds of chats that need no compaction.
- `git_write.rs:1219–1223` takes a `MERGE_HEAD` that is there after a failed `git merge`
  for that of its own merge. One that the owner had under way, with nothing left to
  commit of it, passes the plan, which looks at the status only; git then refuses to
  merge, the owner's merge is aborted, and the report says that the repository "is as it
  was", which `reference.md:2039` promises too. (Seen with a real git.) `ReportsAreTrue`
  names this exception (scenario `UnderMerge` of `MCGitWrite` meets it); an attempt to
  prove the property without it is what showed it.
- "The index must match" of the Git tools is a match of status letters. A `git log`
  that fails after a successful commit is reported as a failed commit, intent-to-add
  entries of deleted files are not restored, and a lock left behind is not reported
  once the budget is spent.

## 5. What is proved

Proofs hold for every value of the constants that meets the named assumptions of the
module: bounds are natural numbers, null values are not values, a scenario is a
record of bounds. No assumption says more than the code's types do.

| Module | Theorem | States |
|---|---|---|
| `TaskStore_proofs` | `TypeCorrect` | `[]TypeOK`: parents and dependencies point backwards |
| | `AcceptanceEarned`, `ContractsMet` | `[]AcceptedIsEarned`, `[]AcceptedMeetsContract` |
| | `InputsExact` | `[]InputsStayExact` |
| | `OutcomesFinal` | `FinalOutcomes` |
| | `ResultsFit` | `[]ResultsHaveRoom` |
| | `ScopeFollowed` | `WorkFollowsScope` |
| | `FamiliesHold`, `OneAnswer` | `[]LineagesHold`, `OneAnswerPerFamily` |
| | `DoneAsShown`, `ReportsHold` | `[]AsShown`, `[]ReportsAreTrue`, of `GitSpec` |
| `RunLifecycle_proofs` | `ProofsTrue` | `[]ProofsHold` |
| | `SealedQuiet` | `SealedIsQuiet` |
| | `Implements` | the refinement `ImplementsGovernedRun` |
| `Admission_proofs` | `Fair` | `[]ServedInTurn` |
| | `WithinCapacity`, `LedgerStaysUsable` | `[]OneCapacity`, `[]LedgerHolds` |
| | `BudgetKept`, `ExitTrue` | `[]BudgetHolds`, `[]ExitIsTrue`, of `HeadlessSpec` |
| `SavedCommand_proofs` | `OneEffect`, `RecordsTrue` | `[]TakesEffectOnce`, `[]RecordsAreTrue` |
| `Dispatch_proofs` | `ControlsTrue`, `StopsTrue` | `[]ControlsHold`, `StopsHold` |
| `Work_proofs` | `SuccessEarned`, `NothingLeft` | `[]SuccessIsEarned`, `[]NothingRunsOn` |
| | `PlansKept`, `ScopeOwn`, `RoomIsLeft` | `PlansHold`, `[]ScopeIsOwn`, `[](RoomToAgree /\ Coherent)`, of `Planning` |
| `Selection_proofs` | `WorkOwned`, `ChoicesTold` | `[]WorkIsOwned`, `[]ChoicesHold` |
| `ChatTurn_proofs` | `CardsTrue`, `TranscriptTrue` | `[]CardsHold`, `[]TranscriptHolds` |

Every inductive invariant below was first checked by TLC on the instances of
section 3.

**Task store.** Acceptance needs to know that `passed` and `evidence` belong to a
finished run, also while a task is held, rejected or requeued; inputs stay exact only
because their source is accepted, and an accepted task neither runs again nor is
re-decided. `IInv` joins `TypeOK`, `Backed` (what a task's status implies of its run,
its evidence and its receipts) and `InputsStayExact`. Instead of twenty actions times
three conjuncts, every step is shown to *move* the tasks in one of five shapes
(`EveryStepMoves`): nothing; one task becomes a legal successor; a fresh task; both;
a sequence of fresh tasks. Shapes preserve the invariant. Results have room because
`Finish` uses one receipt and one running worker, and every other step states the room
it leaves. The properties of families rest on `FamilyInv`. Roots and ancestors are
recursive functions, so the proof first shows that they exist and that a step that
only adds tasks or changes no parent keeps them; then that at most one task of a
family is open to an answer, which is what keeps two repairs from resolving the same
task, a route from being answered twice and a replaced branch from waking up.

**Run lifecycle.** The invariant says who may hold what: the process that holds the
owner lock is the only one whose worker or recovery is between claim and publication
(`LockInv`); what each step of an actor and of a closure knows of the artifacts
(`ActorInv`, `CheckInv`); what the artifacts of a run say of each other (`RunInv`).
Exclusive creation makes `launches` at most one; a recovery's proof is an artifact
that it has read under the lock, and no other actor of the run is left, except an
orphan. The refinement maps each step to one of the four of `GovernedRun` or to a
stutter.

**Admission.** The ledger is a sequence that is filtered and granted by recursive
functions; least-number induction over sets shows that such functions exist and
follow their equations (`RecursionExists`), since the library's induction theorems
take an operator. `WellFormed` is kept by reaping (a subsequence), appending and
granting: only the oldest waiting background entry was passed over, at most as often
as the streak counts; active entries come first in their class; no more than the
capacity are active. The saved ledger and the working copy both satisfy it, and both
agree with the tickets of living owners (`QueueHolds`), so a death or a failed
publication at any step leaves one of two good ledgers. `OneCapacity` follows by an
injection of admitted requests into active entries.

**Saved commands.** The saved file, the save under way and the console form a chain in
which attempts only grow (`OrderInv`), a call is that of a saved attempt
(`CallInv`), and a receipt of a command stands at the one revision it was prepared for
(`JournalInv`), hence at most once.

**Dispatch.** A toggle is bound to the number of its console entry, and stopping moves
`stoppedAt` beyond every entry so far; what is checked, saved or enabled carries an
entry that is later (`RequestInv`, `StopInv`). The approval of a task never gets older
while the snapshot advances, so an approval spent is one last attempted, or older
(`SpentInv`, `WorkerInv`, `LaunchInv`).

**Work.** `ExecInv` says where processes can live at each step of the launcher and what
it may conclude, `StreamInv` what the channel and the worker hold of which try,
`WorkHolds` which way through the run leads to each step and how worktree, patch and
candidate relate.

**Selection.** A terminal holds the locks of the two workstations it has in hand and no
other (`OwnerHolds`), so nobody else writes their files; hence the entries a terminal
keeps in memory retain every choice that is saved (`CopiesHold`), and a save, which
overwrites the file, never loses one (`Retains`), but those that were cleared: each fact
about an entry is one about entries not in `cleared` (`RetainsBut`, `Told`, `Entered`),
and a step adds to `cleared` what it drops (`Clears`). An entry that tells of a refusal, a
failure or a handoff stays true because its request has ended for every terminal or
has been handed over (`TrueEntry`, `Ended`). Each phase that is recorded in the journal
promises what was done before (`PhaseHolds`), and each step of a request knows its
record (`StepHolds`). A step of one terminal keeps what the invariant says of another
as long as it takes or frees locks for itself only, saves nothing but a copy it holds
and leaves the records of other requests alone (`Frame`); each action is shown to be
such a step, and then to keep what is said of its own terminal, record and files.

**Chat turns.** A card that was asked and has no answer is in hand - in the channel or
held for its session, once - and its job waits for it unless its turn is over for good
(`CardHolds`, `ChannelHolds`, `ReplyHolds`); what the log holds of a card follows from
its answer, from where its call stands and from whether the job still waits, since the
job that is dropped logs a decision it has not run. Only the owner's key needs that the
card shown is the request held, which is true at the start of a pass of the loop for
the cards on show and after its updates for every session (`ShowHolds`). A step of a
job (`JobMoves`), of a thread (`PoolMoves`), one that closes requests (`CloseMoves`),
one that drops jobs (`DropMoves`) and one that does neither (`StayMoves`) keep these
facts for every card it does not touch; each action is shown to be such a step. For the
transcript, each operation on a session (`RestoreQueue`, `BeginQueued`, `Fail`, ...)
only moves text (`Retells`), which needs `FlattenSeq`, a recursive function, to be
shown to exist and to split at either end; updates are applied by another one, so what
they keep (`Hears`) is carried along it. The order of the prompts rests on `InOrder`,
text is queued only behind a turn that runs or has just ended, and on `Sends` reading
no key in a pass that puts a queue back.

**The loop.** The loop decides on a snapshot that others overtake. What is final in it
- families, ends that nothing follows, a cancellation before the first run - is so in
every later store (`Stays`, `LaterIs`), and the snapshot is an earlier store
(`ViewInv`). A command at the barrier is outdated or meets the very store it was
decided on (`CommandInv`). Hence a repair that the loop saves was within the limit of
what was *spent* (`RepairInv`), which every repair it saved before is part of
(`LoopInv`), and a limit that an owner's repair sets is not below what was spent. A pause
voids the `/dispatch on` at the barrier, and each step that could switch dispatch on is
the loop's own, of a run that is not paused, or one that sets `overridden` (`WorkInv`). A
run that goes on has its file equal to its state, since the save that failed paused it,
and the limits in the file obey the same bounds (`RunInv`, `LoopInv`), so a restart does not gain
repairs. An exit of success was decided on a snapshot in which
each family has a source, which is for good; an exit for a setup error comes before
anything is done with the run that was restored (`ShellInv`). As a first statement the budget was
`automatic[r] <= MaxRepairs` for a count of saved repairs. The proof attempt showed it to
be false beyond the bounds of the run: a repair that is cancelled before it starts
spends nothing, so another one may follow, and an owner's repair sets a limit of its
own. The code means both, and the property now says so.

**Plans.** Stores only grow (`Grown`), so each copy of a draft, in memory, at the
barrier, in a transaction or on disk, stays one that was made as noted (`MadeAs`), and
each save is bound to the revision of its draft (`SaveHolds`). A generation that reaches
its model has found the revision it expected (`JobInv`). What the autopilot confirms is
its own request in the journal (`OwnRequest`), and a chat's turn is at the barrier only
while it is ready (`WaitingInv`), so it is told of its own answer.

**Git tools.** `GitInv` follows a call: a card's plan is that of the repository it was
made from (`CardInv`), the approval found a repository of the same fingerprint
(`ApprovedInv`), and each step that nobody disturbed and that is within the budget
knows which commands have made the repository it finds of the one that was approved
(`StepInv`, with `Made`, `StagedIn` and `StoppedIn` for what they make). Two facts carry
the weight. Commits are only appended, so what a commit reaches is the same in every
later repository: `Reach` is a recursive function, and the proof first shows by
least-number induction over sets that it exists and agrees on a common history. And the
status letters decide contents where it matters: an unchanged file has HEAD's, and for a
clean status both index and worktree are HEAD's but for intent-to-add, hence an aborted
merge gives them back. A new copy of a credential is found after the staging, the only
time at which it shows (`Recheck`). What others write keeps what a step needs whether
disturbed or not (`ApprovedInv`, `ToolInv`). The exception in `ReportsAreTrue` is what the
proof of the step `Verify` needed (section 4).

Not proved, checked by TLC only: liveness (`OwnerReleased`, `TicketServed`,
`CommandSettles`, `ReadyIsTaken`, `RunsEnd`, `PlanningEnds`, `AbandonedSettles`,
`WorkerEnds`, `CallEnds`), since the prover has neither fairness rules nor ENABLED.
Every other property that a run checks is a theorem, but for `ResumeContinues`, which
is violated.

## 6. Not modelled, and why

- Loss of power: processes die, synced and renamed files stay. A saved but not
  synced directory entry that vanishes is outside every model.
- The contents of answers, diffs, worktrees, sandboxes and Git objects: they decide
  between success and failure, which are both possible here.
- Compaction, chat context, agent conversations: text composed for a model; it
  grants nothing.
- Presentation, qualification, clean, doctor and completion hook: sequential code
  whose errors a unit test meets.
- Read-only tools and masking of the chat; several parallel workers of one dispatch
  (`max_parallel` above 1), which share only the store; submodules and detached heads
  of the owner's repository.

## Running

    tlc -config MCTaskStore_tasks.cfg MCTaskStore
    tlapm RunLifecycle_proofs.tla

A configuration is named after its module and its run in `PROJECT.json`.
