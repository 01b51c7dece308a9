------------------------------ MODULE Headless ------------------------------
(***************************************************************************)
(* A run without a terminal (headless.rs): `--go GOAL --headless` and       *)
(* `--resume --headless` drive the loop of Autopilot, its barrier and its   *)
(* workers from a loop of their own, until the run has ended or a signal or *)
(* an error stops it, and leave an exit code.  One process after the other  *)
(* works on the run, with a terminal or without; a crash may end each.      *)
(*                                                                         *)
(* Without a terminal there is no owner: only other terminals write.  Time  *)
(* is left out: the 30 s for workers to finish and the 60 s for a retry to  *)
(* take may pass at any moment.                                             *)
(***************************************************************************)
EXTENDS Autopilot

VARIABLE shell  \* of the process at work: how far it is and how it ended

allVars == <<vars, shell>>

\* By the terminal, in the loop, about to continue a run, or ended with a code:
\* 0 done, 1 anything else, 2 nothing to continue or a setup error.
NoShell == [pc |-> "terminal", stopping |-> FALSE, fatal |-> FALSE, retry |-> FALSE,
            signals |-> 0, exit |-> 0, accepted |-> {}]

Looping == [NoShell EXCEPT !.pc = "loop"]

HeadlessInit ==
    \E scenario \in Scenarios :
       Begin(scenario) /\ shell = IF scenario.headless THEN Looping ELSE NoShell

In(pc) == shell.pc = pc

\* status: what the run has come to, on the loaded snapshot.
Accepted(s) == {r \in DOMAIN Settled(s) : Settled(s)[r] = "success"}

RunState ==
    CASE saved.phase = "done" -> IF Accepted(view) = saved.roots THEN "done"
                                 ELSE IF Accepted(view) # {} THEN "partial" ELSE "failed"
      [] saved.phase = "failed" -> "failed"
      [] saved.phase \notin {"done", "failed"} -> IF saved.paused THEN "paused" ELSE saved.phase

Finished == RunState \in {"done", "partial", "failed"}

\* No worker and no write in flight.
Drained == workers = {} /\ command.at # "sent"

-----------------------------------------------------------------------------
(* One turn of the loop: step. *)

\* Neither decisions nor launches nor dispatched commands once it is stopping.
Quiet == shell.stopping \/ shell.fatal

HeadlessTick == TickContended \/ Reenter \/ PollIntegration \/ RunningStep

Turn ==
    /\ In("loop")
    /\ \/ Transact \/ EnableDispatch \/ Refresh \/ Compose
       \/ \E t \in 1..Len(tasks) : Worker(t)
       \/ ~Quiet /\ (HeadlessTick \/ OpenBarrier \/ \E t \in 1..Len(tasks) : Launch(t))
    /\ UNCHANGED shell

\* Autopilot::stop on a run that may have ended.
StopRunning ==
    /\ flagged' = workers
    /\ IF Active THEN Halt(saved) ELSE UNCHANGED <<stateFile, dispatching, command>>

Others ==
    UNCHANGED <<store, view, behind, memory, owner, attempted, defers, contended, workers,
                unproven, branch, automatic>>

\* The first signal.
Interrupt ==
    /\ In("loop") /\ shell.signals > 0 /\ ~shell.stopping
    /\ StopRunning /\ shell' = [shell EXCEPT !.stopping = TRUE]
    /\ Others /\ UNCHANGED bounds

\* The conversation cannot be saved.
StepFails ==
    /\ In("loop") /\ Input /\ ~shell.fatal
    /\ StopRunning /\ shell' = [shell EXCEPT !.stopping = TRUE, !.fatal = TRUE]
    /\ Others /\ UNCHANGED crashes

\* A command that cannot be recorded pauses the run.
NotRecorded ==
    /\ In("loop") /\ ~Quiet /\ Input /\ Running /\ Idle
    /\ Halt(saved) /\ UNCHANGED shell
    /\ Others /\ UNCHANGED <<flagged, crashes>>

\* The run paused itself.
PausedItself ==
    /\ In("loop") /\ ~shell.stopping /\ RunState = "paused"
    /\ StopRunning /\ shell' = [shell EXCEPT !.stopping = TRUE, !.retry = FALSE]
    /\ Others /\ UNCHANGED bounds

\* A queued retry is spent once the run has left its failure; until then a
\* refusal or 60 s end it.
RetryTakes ==
    /\ In("loop") /\ shell.retry /\ RunState # "failed"
    /\ shell' = [shell EXCEPT !.retry = FALSE] /\ UNCHANGED vars

RetryGivesUp ==
    /\ In("loop") /\ shell.retry /\ RunState = "failed" /\ ~shell.stopping
    /\ shell' = [shell EXCEPT !.retry = FALSE, !.fatal = TRUE] /\ UNCHANGED vars

\* Fault: the run is reported as soon as it has finished.
EndsAtOnce == IF shell.stopping THEN TRUE ELSE ~shell.retry /\ Finished

\* The end of the loop: a stopped one waits for its workers, 30 s at most.
Ends == IF shell.stopping THEN TRUE ELSE ~shell.retry /\ Finished /\ Drained

End ==
    /\ In("loop") /\ Ends
    /\ shell' = [shell EXCEPT !.pc = "ended", !.accepted = Accepted(view),
                              !.exit = IF ~shell.fatal /\ RunState = "done" THEN 0 ELSE 1]
    /\ UNCHANGED vars

-----------------------------------------------------------------------------
(* Processes. *)

Signal ==
    /\ In("loop") /\ shell.signals < 2 /\ Input
    /\ shell' = [shell EXCEPT !.signals = @ + 1]
    /\ UNCHANGED <<store, view, behind, stateFile, memory, command, owner, launching, work, branch,
                   crashes, automatic>>

\* record_progress, at any turn that is not stopping.
Records == In("loop") /\ ~Quiet /\ RecordProgress /\ UNCHANGED shell

\* The next process, after the end of one or its death.
Restart ==
    /\ Crash
    /\ shell' \in {NoShell, [NoShell EXCEPT !.pc = "starting"]}

Stopped(r) ==
    /\ Source(view, r) = 0 /\ r \notin HeldRoots
    /\ Status(view, HeadOf(view, r)) = "Unreachable"

\* --resume: a paused run is resumed, one that an unreachable server stopped gets
\* the retry of its task queued, and there is nothing else to continue.
Continue ==
    /\ In("starting")
    /\ IF Active
       THEN /\ Save([saved EXCEPT !.paused = FALSE,
                       !.retry = @ \cup {t \in {HeadOf(view, r) : r \in DOMAIN Settled(view)} :
                                            Status(view, t) = "Cancelled" /\ view.tasks[t].run}])
            /\ shell' = Looping /\ UNCHANGED command
       ELSE IF saved.phase = "failed" /\ saved.reentrant /\ \E r \in saved.roots : Stopped(r)
       THEN /\ command' = [by |-> "headless", kind |-> "repair", at |-> "barrier", stale |-> behind,
                           task |-> HeadOf(view, Min({r \in saved.roots : Stopped(r)}))]
            /\ shell' = [Looping EXCEPT !.retry = TRUE] /\ UNCHANGED stateFile
       ELSE /\ shell' = [shell EXCEPT !.pc = "ended", !.exit = 2]
            /\ UNCHANGED <<stateFile, command>>
    /\ UNCHANGED <<store, view, behind, memory, owner, launching, work, branch, bounds, automatic>>

\* A setup error: no model server, a goal that only a terminal can take, --go in the
\* presence of a paused run, a retry that cannot be queued.
SetupFails ==
    /\ In("starting") /\ shell' = [shell EXCEPT !.pc = "ended", !.exit = 2]
    /\ UNCHANGED vars

Terminal == In("terminal") /\ (System \/ RecordProgress \/ User) /\ UNCHANGED shell

Elsewhere ==
    /\ In("loop") /\ UNCHANGED shell
    /\ \E t \in 1..Len(tasks), kind \in UserWrites : Write(kind, t)

HeadlessNext ==
    \/ Terminal \/ Elsewhere \/ Turn
    \/ Interrupt \/ StepFails \/ NotRecorded \/ PausedItself
    \/ RetryTakes \/ RetryGivesUp \/ End
    \/ Records \/ Signal \/ Restart \/ Continue \/ SetupFails

HeadlessSpec == HeadlessInit /\ [][HeadlessNext]_allVars

\* Each turn of the loop looks at the signals, the retry and the end of the run:
\* as long as the process has something to do, it does something.
AtWork ==
    \/ In("terminal") /\ System /\ UNCHANGED shell
    \/ Turn \/ Interrupt \/ PausedItself \/ RetryTakes \/ RetryGivesUp \/ End \/ Continue

HeadlessFair == WF_allVars(AtWork)

HeadlessFairSpec == HeadlessSpec /\ HeadlessFair

-----------------------------------------------------------------------------
(* Properties. *)

\* reference.md: exit code 0 means that every task was accepted, and a run that was
\* interrupted or paused itself can be continued.  What the exit says is so in the
\* store, nothing is left at work behind a finished run, only an error makes a run that
\* can be continued look failed, and after a setup error nothing has been started and
\* the run is as it was restored.
ExitIsTrue ==
    In("ended") =>
        /\ shell.exit = 0 => /\ shell.accepted = saved.roots
                             /\ \A r \in saved.roots :
                                   \/ resolved[r] # 0
                                   \/ tasks[r].status = "Accepted"
                             /\ shell.stopping \/ workers = {}
        /\ shell.exit = 1 /\ ~shell.fatal => Finished \/ (Active /\ saved.paused)
        /\ shell.exit = 1 /\ Finished /\ ~shell.stopping => workers = {}
        /\ shell.exit = 2 => saved = Restored(file) /\ Idle /\ workers = {}

\* An instruction of the owner that no terminal carries out.
Unheard == ~In("terminal") /\ item # NoItem

\* A running loop ends its run or pauses it, unless it waits for the user, in a
\* terminal or without; a process without a terminal ends, and surely after a
\* signal or an error.
RunsEnd ==
    /\ Running ~> ~Running \/ AwaitsUser \/ Stranded \/ Unheard
    /\ In("loop") ~> ~In("loop") \/ (Unheard /\ shell.signals = 0 /\ ~shell.fatal)
=============================================================================
