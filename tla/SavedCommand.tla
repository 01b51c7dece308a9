---------------------------- MODULE SavedCommand ----------------------------
(***************************************************************************)
(* A typed task command on its way to a receipt: console_log.rs,           *)
(* conversations.rs (Autosave), command_staging.rs, task_control.rs and the*)
(* transaction of tasks.rs.                                                *)
(*                                                                         *)
(* A command's exact request is fixed when it is submitted.  It waits at   *)
(* the saved-intent barrier until a checkpoint of the conversation that    *)
(* holds it is on disk, is then dispatched to the task store in a blocking *)
(* closure, and is acknowledged by its own receipt only.  Saves fail,      *)
(* other terminals write receipts of their own, the user retries at will,  *)
(* and the program is left or dies at any step and is started again.       *)
(***************************************************************************)
EXTENDS Naturals, Sequences, SequencesExt

CONSTANTS
    Commands,       \* the commands the user may submit, each once
    Other,          \* any receipt of another terminal or of a worker
    Nothing,        \* no command
    Scenarios       \* bounds of an execution: the commands submitted, receipts
                    \* (tasks.rs:MAX_RECEIPTS), submissions of a command, failed
                    \* reads and saves, starts after the first

ASSUME CommandsAssumption == Other \notin Commands /\ Nothing \notin Commands

ASSUME CommandBounds ==
    \A b \in Scenarios :
        /\ b.commands \subseteq Commands
        /\ b.receipts \in Nat /\ b.attempts \in Nat \ {0}
        /\ b.failures \in Nat /\ b.restarts \in Nat

States == {"absent", "Pending", "Submitted", "Unknown", "Refused"}

Entry == [state : States, attempt : Nat]

Blank == [c \in Commands |-> [state |-> "absent", attempt |-> 0]]

NoCall == [command |-> Nothing, attempt |-> 0, at |-> "none", outcome |-> "none",
           seen |-> 0]

NoSave == [at |-> "none", entries |-> Blank]

VARIABLES
    limit,          \* the scenario
    journal,        \* the receipts of the task store: whose command each one is
    file,           \* the conversation on disk: the console entry of each command
    prepared,       \* the revision a command's request is bound to
    submitted,      \* the commands that have been submitted: identities are not reused
    phase,          \* of the program
    console,        \* its console entries
    barrier,        \* pending_command: the command that waits to be saved
    saving,         \* the checkpoint under way
    saved,          \* the last one known to have succeeded
    call,           \* the transaction under way: its command, attempt and outcome
    known,          \* the revision of the loaded snapshot
    failures, restarts

store == <<journal, file>>
identity == <<prepared, submitted>>
saves == <<saving, saved>>
faults == <<failures, restarts>>
system == <<store, identity, phase, console, barrier, saves, call, known, faults>>
vars == <<limit, system>>

Outcomes == {"none", "ok", "stale", "busy", "denied", "uncertain"}

Saving == [at : {"none", "writing", "done", "failed"}, entries : [Commands -> Entry]]

Call == [command : Commands \cup {Nothing}, attempt : 0..limit.attempts,
         at : {"none", "spawned", "returned"}, outcome : Outcomes, seen : 0..limit.receipts]

TypeOK ==
    /\ limit \in Scenarios
    /\ journal \in Seq(Commands \cup {Other}) /\ Len(journal) <= limit.receipts
    /\ file \in [Commands -> Entry] /\ console \in [Commands -> Entry]
    /\ prepared \in [Commands -> 0..limit.receipts] /\ submitted \subseteq Commands
    /\ phase \in {"running", "leaving", "down"}
    /\ barrier \in Commands \cup {Nothing}
    /\ saving \in Saving
    /\ saved \in [Commands -> Entry]
    /\ call \in Call
    /\ known \in 0..Len(journal)
    /\ failures \in 0..limit.failures /\ restarts \in 0..limit.restarts

Init ==
    /\ limit \in Scenarios
    /\ journal = <<>> /\ file = Blank
    /\ prepared = [c \in Commands |-> 0] /\ submitted = {}
    /\ phase = "running"
    /\ console = Blank /\ barrier = Nothing
    /\ saving = NoSave /\ saved = Blank
    /\ call = NoCall /\ known = 0
    /\ failures = 0 /\ restarts = 0

-----------------------------------------------------------------------------
(* The console. *)

Running == phase = "running"

Calling == call.at # "none"

SetState(c, state) == console' = [console EXCEPT ![c].state = state]

\* A command is acknowledged by the receipt at the revision it was bound to.
Acknowledged(c, revision) == prepared[c] < revision /\ journal[prepared[c] + 1] = c

\* What the console shows: a receipt outweighs every saved state.
Shown(c) == IF Acknowledged(c, known) THEN "acknowledged" ELSE console[c].state

\* The request is bound to the loaded revision.
Submit(c) ==
    /\ Running /\ ~Calling /\ barrier = Nothing
    /\ c \in limit.commands \ submitted
    /\ submitted' = submitted \cup {c}
    /\ prepared' = [prepared EXCEPT ![c] = known]
    /\ console' = [console EXCEPT ![c] = [state |-> "Pending", attempt |-> 1]]
    /\ barrier' = c
    /\ UNCHANGED <<store, phase, saves, call, known, faults>>

\* /retry-command repeats the exact request, whatever became of it so far.
Retry(c) ==
    /\ Running /\ barrier = Nothing
    /\ console[c].state # "absent" /\ console[c].attempt < limit.attempts
    /\ console' = [console EXCEPT ![c] = [state |-> "Pending", attempt |-> @.attempt + 1]]
    /\ barrier' = c
    /\ UNCHANGED <<store, identity, phase, saves, call, known, faults>>

\* Fault: any saved copy of the command releases it.
SavedOnce(c) == saved[c].state # "absent"

\* contains_saved_command: the exact pending entry is in a synced snapshot.
SavedExactly(c) == console[c].state = "Pending" /\ saved[c] = console[c]

\* The barrier opens; only one acknowledgment may be pending.
Dispatch(c) ==
    /\ Running /\ barrier = c /\ SavedExactly(c)
    /\ barrier' = Nothing
    /\ IF Calling
       THEN SetState(c, "Refused") /\ UNCHANGED call
       ELSE /\ SetState(c, "Submitted")
            /\ call' = [NoCall EXCEPT !.command = c, !.attempt = console[c].attempt,
                                      !.at = "spawned"]
    /\ UNCHANGED <<store, identity, phase, saves, known, faults>>

\* Fault: an unconfirmed save counts as a refusal.
RefusedUnlessTransient(outcome) ==
    IF outcome \in {"stale", "busy"} THEN "Unknown" ELSE "Refused"

\* Only a final refusal is recorded as one.
Unmatched(outcome) == IF outcome = "denied" THEN "Refused" ELSE "Unknown"

\* poll: the answer is taken, with the snapshot it carries if that is newer; a
\* command still submitted without its receipt is then settled.
Poll ==
    /\ Running /\ call.at = "returned"
    /\ known' = IF call.outcome \in {"ok", "stale"} /\ call.seen > known THEN call.seen ELSE known
    /\ IF console[call.command].state = "Submitted" /\ ~Acknowledged(call.command, known')
       THEN SetState(call.command, Unmatched(call.outcome))
       ELSE UNCHANGED console
    /\ call' = NoCall
    /\ UNCHANGED <<store, identity, phase, barrier, saves, faults>>

Refresh ==
    /\ Running /\ known < Len(journal)
    /\ known' = Len(journal)
    /\ UNCHANGED <<store, identity, phase, console, barrier, saves, call, faults>>

-----------------------------------------------------------------------------
(* Checkpoints of the conversation, one at a time. *)

Fail == failures < limit.failures /\ failures' = failures + 1

Checkpoint ==
    /\ Running /\ saving.at = "none" /\ saved # console
    /\ saving' = [at |-> "writing", entries |-> console]
    /\ UNCHANGED <<store, identity, phase, console, barrier, saved, call, known, faults>>

\* The snapshot is renamed into place, or fails before or after that.
Write ==
    /\ saving.at = "writing"
    /\ \/ /\ file' = saving.entries
          /\ saving' = [saving EXCEPT !.at = "done"]
          /\ UNCHANGED failures
       \/ /\ Fail
          /\ file' \in {file, saving.entries}
          /\ saving' = [saving EXCEPT !.at = "failed"]
    /\ UNCHANGED <<journal, identity, phase, console, barrier, saved, call, known, restarts>>

\* A failed save refuses the command at the barrier.
Collect ==
    /\ Running /\ saving.at \in {"done", "failed"}
    /\ saved' = IF saving.at = "done" THEN saving.entries ELSE saved
    /\ IF saving.at = "failed" /\ barrier # Nothing
       THEN SetState(barrier, "Refused") /\ barrier' = Nothing
       ELSE UNCHANGED <<console, barrier>>
    /\ saving' = NoSave
    /\ UNCHANGED <<store, identity, phase, call, known, faults>>

-----------------------------------------------------------------------------
(* The transaction, under the scope lock and the store lock. *)

Answer(outcome) == call' = [call EXCEPT !.at = "returned", !.outcome = outcome,
                                        !.seen = Len(journal')]

\* Fault: the revision is checked before the correlation.
StaleFirst(c) == prepared[c] # Len(journal)

\* A correlation that has its receipt is answered with it, stale or not.
Stale(c) == ~Contains(journal, c) /\ prepared[c] # Len(journal)

\* Fault: a request is applied to whatever is saved by now.
AnyRevision(c) == ~Contains(journal, c)

Fresh(c) == ~Contains(journal, c) /\ prepared[c] = Len(journal)

Found(c) == Contains(journal, c) /\ ~Stale(c)

\* No lock, an unreadable store, an earlier receipt, a stale revision, or a
\* refusal by the state of the tasks or of the understanding.
AnswerUnwritten(c) ==
    /\ UNCHANGED journal
    /\ \/ Answer("busy") /\ UNCHANGED failures
       \/ Fail /\ Answer("denied")
       \/ Found(c) /\ Answer("ok") /\ UNCHANGED failures
       \/ Stale(c) /\ Answer("stale") /\ UNCHANGED failures
       \/ ~Contains(journal, c) /\ Answer("denied") /\ UNCHANGED failures

\* Fault: the bound on receipts is not checked.
AnswerUnbounded(c) ==
    /\ Fresh(c)
    /\ journal' = Append(journal, c) /\ Answer("ok")
    /\ UNCHANGED failures

\* The receipt is appended and the snapshot saved; a save that fails may have
\* replaced the snapshot already.
AnswerSaved(c) ==
    /\ Fresh(c) /\ Len(journal) < limit.receipts
    /\ \/ journal' = Append(journal, c) /\ Answer("ok") /\ UNCHANGED failures
       \/ Fail /\ journal' \in {journal, Append(journal, c)} /\ Answer("uncertain")

Transact ==
    /\ call.at = "spawned"
    /\ AnswerUnwritten(call.command) \/ AnswerSaved(call.command)
    /\ UNCHANGED <<file, identity, phase, console, barrier, saves, known, restarts>>

\* Another terminal's command, a worker's receipt.
WriteOther ==
    /\ Len(journal) < limit.receipts
    /\ journal' = Append(journal, Other)
    /\ UNCHANGED <<file, identity, phase, console, barrier, saves, call, known, faults>>

-----------------------------------------------------------------------------
(* Leaving, dying, starting again. *)

\* The final save follows an older one; the runtime then waits for the closure.
Leave ==
    /\ Running
    /\ phase' = "leaving"
    /\ \/ file' = console /\ UNCHANGED failures
       \/ Fail /\ file' \in {file, console}
                      \cup (IF saving.at = "writing" THEN {saving.entries} ELSE {})
    /\ saving' = NoSave /\ saved' = Blank
    /\ console' = Blank /\ barrier' = Nothing
    /\ UNCHANGED <<journal, identity, call, known, restarts>>

Die ==
    /\ phase # "down"
    /\ phase' = "down"
    /\ saving' = NoSave /\ saved' = Blank
    /\ console' = Blank /\ barrier' = Nothing
    /\ call' = NoCall
    /\ UNCHANGED <<store, identity, known, faults>>

\* Fault: a restored command still looks pending.
RestoredAsSaved(entry) == entry

Restored(entry) ==
    IF entry.state \in {"Pending", "Submitted"} THEN [entry EXCEPT !.state = "Unknown"] ELSE entry

Start ==
    /\ phase = "down" /\ restarts < limit.restarts
    /\ phase' = "running"
    /\ restarts' = restarts + 1
    /\ console' = [c \in Commands |-> Restored(file[c])]
    /\ known' = Len(journal)
    /\ UNCHANGED <<store, identity, barrier, saves, call, failures>>

Loop == Checkpoint \/ Collect \/ Poll \/ (\E c \in Commands : Dispatch(c))

Next ==
    /\ \/ \E c \in Commands : Submit(c) \/ Retry(c)
       \/ Loop \/ Refresh \/ Write \/ Transact
       \/ WriteOther
       \/ Leave \/ Die \/ Start
    /\ UNCHANGED limit

Spec == Init /\ [][Next]_vars

\* The main loop goes around, and blocking closures end.
Fairness ==
    /\ WF_system(Checkpoint) /\ WF_system(Collect) /\ WF_system(Poll)
    /\ WF_system(\E c \in Commands : Dispatch(c))
    /\ WF_system(Write) /\ WF_system(Transact)

FairSpec == Spec /\ Fairness

-----------------------------------------------------------------------------
(* Properties. *)

\* However often a command is retried, before or after a restart, it takes
\* effect at most once and on the very state its user had loaded.
TakesEffectOnce ==
    \A i \in DOMAIN journal : journal[i] # Other => i = prepared[journal[i]] + 1

\* Nothing happens for a command that a restart would not find: before an
\* attempt reaches the task store, that attempt is in the saved conversation.
IntentSavedFirst ==
    /\ \A c \in Commands : Contains(journal, c) => file[c].state # "absent"
    /\ Calling => file[call.command].attempt >= call.attempt

\* The record of a command that was submitted once and refused is true.
FirstRefusalIsFinal ==
    \A c \in Commands : console[c].state = "Refused" /\ console[c].attempt = 1 =>
        ~Contains(journal, c) /\ call.command # c

\* tasks.rs, Refusal: transient refusals leave no receipt.  A retry of a request
\* that was written after all is therefore never told that it is stale.
StaleIsUnwritten ==
    call.at = "returned" /\ call.outcome = "stale" => ~Contains(journal, call.command)

\* No command stays in limbo while the program runs: it is acknowledged,
\* refused or marked unconfirmed.
CommandSettles ==
    \A c \in Commands :
        Shown(c) \in {"Pending", "Submitted"} ~> Shown(c) \notin {"Pending", "Submitted"}

\* Every record of a command is true: what was saved before it was sent, that it
\* was refused, that it was stale.
RecordsAreTrue ==
    /\ TypeOK
    /\ IntentSavedFirst
    /\ FirstRefusalIsFinal
    /\ StaleIsUnwritten
=============================================================================
