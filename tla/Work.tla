--------------------------------- MODULE Work ---------------------------------
(***************************************************************************)
(* What a coding worker does in its run (worker.rs, perform and the end of  *)
(* start_checked), composed of its model request (Provider) and its check   *)
(* (Execution): a worktree of the baseline, one answer, the files of the    *)
(* answer, the approved check, and the evidence with its patch and, for     *)
(* work that is ready for review, a candidate commit.                       *)
(*                                                                          *)
(* The worktree is the set of marks of what differs from the baseline:      *)
(* the answer's files, files the check changed, tracked files outside the   *)
(* policy, a nested repository, and what another program wrote.  The        *)
(* durable steps around the check are in RunLifecycle; the grammar of an    *)
(* answer is abstracted to whether it is accepted.                          *)
(***************************************************************************)
EXTENDS Execution, Provider

CONSTANT Files          \* how many files an answer writes

ASSUME WorkAssumption == Files \in Nat \ {0}

VARIABLES
    alone,      \* only a request to the execution provider, without a worker
    at,         \* where the worker stands
    cancel,     \* the flag the user sets
    answer,     \* the text received
    done,       \* its stream ended with the done marker
    stopped,    \* the worker cancelled the stream
    kept,       \* what was retained of the answer
    written,    \* files of the answer written so far
    worktree,   \* how the worktree differs from the baseline
    outcome,    \* what perform returned
    evidence,   \* the evidence as it is filled in
    meddled,    \* another program wrote into the worktree
    checked     \* ghost: the worktree when the check's receipt was made

conversation == <<answer, done, stopped, kept>>
workVars == <<execution, model, alone, at, cancel, conversation, written,
              worktree, outcome, evidence, meddled, checked>>

Marks == {"answer", "check", "outside", "gitlink", "other"}
Places == {"preparing", "reading", "prompting", "asking", "stopping", "answering",
           "writing", "checking", "inspecting", "settling", "diffing", "snapshot",
           "saving", "saved", "uncertain"}
Evidence == [status : {"none", "ReviewReady", "Cancelled", "Failed"},
             failure : {"none", "file-too-large", "model-unreachable", "sandbox-unavailable"},
             patch : SUBSET Marks, candidate : SUBSET (Marks \cup {"none"})]
NoEvidence == [status |-> "none", failure |-> "none", patch |-> {},
               candidate |-> {"none"}]

WorkInit ==
    /\ ExecutionInit /\ ProviderInit
    /\ \/ alone = FALSE /\ host = FALSE /\ boundary = Required
       \/ alone = TRUE /\ host = TRUE /\ boundary = {}
       \/ alone = TRUE /\ host = FALSE /\ boundary \in {Required \ {o} : o \in Required}
    /\ at = IF alone THEN "checking" ELSE "preparing"
    /\ cancel = FALSE
    /\ answer = <<>> /\ done = FALSE /\ stopped = FALSE /\ kept = "none"
    /\ written = 0 /\ worktree = {} /\ outcome = "none"
    /\ evidence = NoEvidence /\ meddled = FALSE /\ checked = {}

\* perform returns.
Returns(result) == at' = "settling" /\ outcome' = result

-----------------------------------------------------------------------------
(* Before the model is asked. *)

\* A Git call of the host may fail: refused, too much output, 30 seconds.
GitAnswers == {"ok", "failed"}

AddWorktree ==
    /\ at = "preparing"
    /\ \/ cancel /\ Returns("error")
       \/ ~cancel /\ \E git \in GitAnswers :
            IF git = "ok" THEN at' = "reading" /\ UNCHANGED outcome ELSE Returns("error")
    /\ UNCHANGED <<alone, execution, model, cancel, conversation, written, worktree,
                   evidence, meddled, checked>>

\* The approved files, within their bounds, and the named reference files.
ReadFiles ==
    /\ at = "reading"
    /\ \/ at' = "prompting" /\ UNCHANGED <<outcome, evidence>>
       \/ Returns("error") /\ UNCHANGED evidence
       \/ Returns("error") /\ evidence' = [evidence EXCEPT !.failure = "file-too-large"]
    /\ UNCHANGED <<alone, execution, model, cancel, conversation, written, worktree,
                   meddled, checked>>

\* The prompt must fit the conversation's budget.
Prompt ==
    /\ at = "prompting"
    /\ \/ at' = "asking" /\ Ask /\ UNCHANGED outcome
       \/ Returns("error") /\ UNCHANGED model
    /\ UNCHANGED <<alone, execution, cancel, conversation, written, worktree, evidence,
                   meddled, checked>>

(* The stream. *)

\* The run is still the one that was claimed; Check fails if it is not.
Wanted == ~cancel

Streams == /\ ModelStep(Wanted)
           /\ UNCHANGED <<alone, execution, at, cancel, conversation, written,
                          worktree, outcome, evidence, meddled, checked>>

\* One turn of the select loop: cancellation first, then one event.
Hear ==
    /\ at = "asking"
    /\ IF cancel
       THEN at' = "stopping" /\ stopped' = TRUE /\ UNCHANGED <<answer, done, events, evidence>>
       ELSE /\ events # <<>>
            /\ events' = Tail(events)
            /\ LET event == Head(events) IN
                 /\ answer' = IF event.kind = "text" THEN Append(answer, event.of) ELSE answer
                 /\ done' = (event.kind = "done")
                 /\ at' = IF event.kind = "text" THEN at ELSE "stopping"
                 /\ evidence' = IF event.kind = "unreachable"
                                THEN [evidence EXCEPT !.failure = "model-unreachable"]
                                ELSE evidence
            /\ UNCHANGED stopped
    /\ UNCHANGED <<alone, execution, request, sends, came, spoken, cancel, kept,
                   written, worktree, outcome, meddled, checked>>

\* job.abort
Abort == /\ at = "stopping" /\ Dropped
         /\ UNCHANGED <<alone, execution, at, cancel, conversation, written,
                        worktree, outcome, evidence, meddled, checked>>

\* job.await: what the worker waits for before it goes on.
Gone == request = "off"

\* A cancelled stream keeps what came, marked as cut.
Retain ==
    /\ at = "stopping" /\ Gone
    /\ IF done
       THEN \/ kept' = "whole" /\ at' = "answering" /\ UNCHANGED outcome
            \/ kept' = "none" /\ Returns("error")
       ELSE /\ kept' = IF stopped /\ answer # <<>> THEN "cut" ELSE "none"
            /\ Returns("error")
    /\ UNCHANGED <<alone, execution, model, cancel, answer, done, stopped, written,
                   worktree, evidence, meddled, checked>>

(* The answer's files.  The text and the request are not looked at again. *)

HangUp == /\ request' = "off" /\ sends' = 0 /\ came' = "nothing" /\ spoken' = <<>>
          /\ events' = <<>> /\ answer' = <<>>
          /\ UNCHANGED <<done, stopped, kept>>

\* A plan is resolved and allowed, or refused.
Resolve == /\ at = "answering"
           /\ \/ at' = "writing" /\ UNCHANGED outcome
              \/ Returns("error")
           /\ HangUp
           /\ UNCHANGED <<alone, execution, cancel, written, worktree, evidence, meddled,
                          checked>>

\* Each file: cancellation, the path again, the write, git add.
WriteFile ==
    /\ at = "writing" /\ written < Files
    /\ IF cancel
       THEN Returns("error") /\ UNCHANGED <<written, worktree>>
       ELSE /\ worktree' \in {worktree, worktree \cup {"answer"}}
            /\ \E git \in GitAnswers :
                 IF git = "ok" THEN written' = written + 1 /\ UNCHANGED <<at, outcome>>
                 ELSE Returns("error") /\ UNCHANGED written
    /\ UNCHANGED <<alone, execution, model, cancel, conversation, evidence,
                   meddled, checked>>

Written == /\ at = "writing" /\ written = Files /\ at' = "checking"
           /\ UNCHANGED <<alone, execution, model, cancel, conversation, written,
                          worktree, outcome, evidence, meddled, checked>>

(* The check. *)

StartCheck == /\ at = "checking" /\ Launch
              /\ UNCHANGED <<alone, model, at, cancel, conversation, written,
                             worktree, outcome, evidence, meddled, checked>>

Supervise == /\ LauncherStep(cancel) \/ CaptureEnds
             /\ checked' = IF step' = "over" THEN worktree ELSE checked
             /\ UNCHANGED <<alone, model, at, cancel, conversation, written,
                            worktree, outcome, evidence, meddled>>

Process == /\ ProcessStep
           /\ UNCHANGED <<alone, model, at, cancel, conversation, written,
                          worktree, outcome, evidence, meddled, checked>>

\* A process of the check writes.  What it wrote last counts: files, tracked ones
\* outside the policy or a nested repository, or it put everything back.
CheckWrites ==
    /\ leader = "running" \/ child \in Living
    /\ worktree' \in {(worktree \cap {"answer"}) \cup {m} :
                        m \in {"check", "outside", "gitlink"}} \cup {{}}
    /\ UNCHANGED <<alone, execution, model, at, cancel, conversation, written,
                   outcome, evidence, meddled, checked>>

CheckPassed == receipt = "completed"

\* sandbox_unavailable_receipt: the check never started, by Bubblewrap or before it.
Unavailable == receipt = "start-failed"

AfterCheck ==
    /\ at = "checking" /\ step = "over"
    /\ IF alone
       THEN at' = "saved" /\ UNCHANGED outcome
       ELSE IF CheckPassed
            THEN at' = "inspecting" /\ UNCHANGED outcome
            ELSE Returns("error")
    /\ evidence' = IF Unavailable /\ ~alone THEN [evidence EXCEPT !.failure = "sandbox-unavailable"]
                   ELSE evidence
    /\ UNCHANGED <<alone, execution, model, cancel, conversation, written,
                   worktree, meddled, checked>>

\* refuse_gitlinks: neither the index nor HEAD may hold one.
NoGitlinks == "gitlink" \notin worktree

\* Tracked files that changed are within the policy.
NothingOutside == "outside" \notin worktree

Inspect == /\ at = "inspecting"
           /\ \E git \in GitAnswers :
                Returns(IF git = "ok" /\ NoGitlinks /\ NothingOutside /\ ~cancel
                        THEN "ok" ELSE "error")
           /\ UNCHANGED <<alone, execution, model, cancel, conversation, written,
                          worktree, evidence, meddled, checked>>

-----------------------------------------------------------------------------
(* The end of start_checked. *)

Settle ==
    /\ at = "settling" /\ at' = "diffing"
    /\ evidence' = [evidence EXCEPT !.status =
          IF outcome = "ok" THEN "ReviewReady" ELSE IF cancel THEN "Cancelled" ELSE "Failed"]
    /\ HangUp
    /\ UNCHANGED <<alone, execution, cancel, written, worktree, outcome, meddled, checked>>

Demoted(e) == IF e.status = "ReviewReady" THEN [e EXCEPT !.status = "Failed"] ELSE e

\* A passing check on an unchanged baseline proves nothing was done.
WithoutPatch(e) == IF e.patch = {} THEN Demoted(e) ELSE e

Diff ==
    /\ at = "diffing" /\ at' = "snapshot"
    /\ \E git \in GitAnswers :
         evidence' = IF git = "ok" /\ NoGitlinks
                     THEN WithoutPatch([evidence EXCEPT !.patch = worktree])
                     ELSE Demoted(evidence)
    /\ UNCHANGED <<alone, execution, model, cancel, conversation, written,
                   worktree, outcome, meddled, checked>>

\* verify_candidate: the commit's diff is the patch that is shown.
Verified == worktree = evidence.patch

Snapshot ==
    /\ at = "snapshot" /\ at' = "saving"
    /\ \E git \in GitAnswers :
         evidence' = CASE evidence.status # "ReviewReady" -> evidence
                       [] evidence.status = "ReviewReady" ->
                            IF git = "ok" /\ NoGitlinks /\ Verified
                            THEN [evidence EXCEPT !.candidate = worktree]
                            ELSE Demoted(evidence)
    /\ UNCHANGED <<alone, execution, model, cancel, conversation, written,
                   worktree, outcome, meddled, checked>>

\* evidence.json is created, or the run needs an inspection.
Save == /\ at = "saving" /\ at' \in {"saved", "uncertain"}
        /\ UNCHANGED <<alone, execution, model, cancel, conversation, written,
                       worktree, outcome, evidence, meddled, checked>>

-----------------------------------------------------------------------------
(* The user, other terminals and other programs. *)

Cancel == /\ ~cancel /\ at \notin {"saved", "uncertain"} /\ cancel' = TRUE
          /\ UNCHANGED <<alone, execution, model, at, conversation, written,
                         worktree, outcome, evidence, meddled, checked>>

Meddle == /\ ~meddled
          /\ at \in {"inspecting", "settling", "diffing", "snapshot", "saving"}
          /\ CheckPassed
          /\ meddled' = TRUE
          /\ worktree' \in {worktree \cup {"other"}, worktree \cup {"outside"}, {}}
          /\ UNCHANGED <<alone, execution, model, at, cancel, conversation, written,
                         outcome, evidence, checked>>

WorkerStep == \/ AddWorktree \/ ReadFiles \/ Prompt \/ Hear \/ Abort \/ Retain \/ Resolve \/ WriteFile \/ Written
              \/ StartCheck \/ Supervise \/ AfterCheck \/ Inspect
              \/ Settle \/ Diff \/ Snapshot \/ Save

Over == at \in {"saved", "uncertain"} /\ UNCHANGED workVars

WorkNext == \/ WorkerStep \/ Streams \/ Process \/ CheckWrites
            \/ Cancel \/ Meddle \/ Over

WorkSpec == WorkInit /\ [][WorkNext]_workVars

\* The deadline of the check is looked at in every turn.
OutOfTime == Supervise /\ Deadline

\* The program's own tasks run, the server answers or a deadline passes.
WorkFairness == WF_workVars(WorkerStep) /\ WF_workVars(Streams) /\ SF_workVars(OutOfTime)

WorkFairSpec == WorkSpec /\ WorkFairness

-----------------------------------------------------------------------------
(* Properties. *)

WorkTypeOK == /\ ExecutionTypeOK /\ ProviderTypeOK
              /\ {alone, cancel, done, stopped, meddled} \subseteq BOOLEAN
              /\ at \in Places /\ answer \in Seq(Nat \X Nat)
              /\ kept \in {"none", "cut", "whole"} /\ written \in 0..Files
              /\ worktree \subseteq Marks /\ checked \subseteq Marks
              /\ outcome \in {"none", "ok", "error"}
              /\ evidence \in Evidence

\* The text a worker takes as its answer is every frame of one stream, in order,
\* and that stream was completed by the server.
AnswerOfOneStream == at = "answering" => done /\ answer = spoken

\* Work is ready for review only if its answer is whole, its check exited with
\* zero, it changed something, and the candidate commit is the patch shown; that
\* is what the check left, with no file outside the policy, unless another
\* program wrote into the worktree.
SuccessIsEarned ==
    /\ AnswerOfOneStream
    /\ evidence.status = "ReviewReady" /\ at \in {"saving", "saved"} =>
         /\ kept = "whole" /\ receipt = "completed" /\ code = "zero" /\ written = Files
         /\ evidence.patch # {} /\ evidence.candidate = evidence.patch
         /\ ~meddled => /\ evidence.candidate = checked
                        /\ evidence.candidate \subseteq {"answer", "check"}

\* A receipt that claims to know the outcome was made when no process of the
\* group, or of the sandbox, could run any more (rejected output excepted), and
\* the worker's request gave its shared capacity back before the check.
NothingRunsOn ==
    /\ WorkTypeOK
    /\ receipt \in Known /\ text => ~Runs
    /\ at \notin {"preparing", "reading", "prompting", "asking", "stopping"} => request = "off"
    /\ evidence.failure = "model-unreachable" => answer = <<>>

\* A worker ends: whatever the server and the check do, the evidence is saved
\* or the run is left for inspection.
WorkerEnds == <>(at \in {"saved", "uncertain"})

=============================================================================
