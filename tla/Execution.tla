------------------------------ MODULE Execution ------------------------------
(***************************************************************************)
(* One supervised process (execution.rs): an approved check of a worker in  *)
(* Bubblewrap, or a command that the owner allowed to run on the host.      *)
(*                                                                          *)
(* The launcher polls: cancellation, the output limit, the leader and its   *)
(* process group, the descendants' grace, the deadline.  It ends a process  *)
(* tree by SIGTERM, a grace interval and SIGKILL, and reports a status      *)
(* other than outcome-unknown only when no process of the group can run.    *)
(*                                                                          *)
(* One descendant stands for all, one capture thread for those of stdout    *)
(* and stderr.  In the sandbox (--new-session, --unshare-pid,               *)
(* --die-with-parent) a descendant is in no group of the host and dies with *)
(* the leader; on the host it is in the leader's group unless it leaves it. *)
(* Time is a step that may happen: the deadlines below do not count.        *)
(***************************************************************************)
EXTENDS Naturals

VARIABLES
    host,       \* started on the host, not in the sandbox
    boundary,   \* the Bubblewrap options of the request
    leader,     \* the process that was started
    code,       \* how it ended
    child,      \* its descendant: where it lives
    holds,      \* whether that one keeps the output open
    signal,     \* the strongest signal sent to the group
    capture,    \* the thread that reads the output
    text,       \* the output it kept is UTF-8
    step,       \* where the launcher stands
    aim,        \* the status a termination is to end with
    final,      \* final_status
    receipt     \* the status of the receipt

tree == <<leader, code, child, holds>>
output == <<capture, text>>
launcher == <<step, aim, final, receipt, signal>>
execution == <<host, boundary, tree, output, launcher>>
setting == <<host, boundary>>

\* The options without which a sandboxed request is refused.
Required == {"die-with-parent", "new-session", "unshare-user", "unshare-pid",
             "unshare-net", "unshare-ipc", "cap-drop"}

Living == {"inside", "member", "escaped"}
Statuses == {"Completed", "Cancelled", "TimedOut", "OutputLimit", "Unknown"}
Known == {"completed", "failed", "cancelled", "timed-out", "output-limit"}

ExecutionInit ==
    /\ leader = "none" /\ code = "none" /\ child = "none" /\ holds = FALSE
    /\ signal = "none" /\ capture = "open" /\ text = TRUE
    /\ step = "off" /\ aim = "none" /\ final = "none"
    /\ receipt = "none"

ExecutionTypeOK ==
    /\ {host, holds, text} \subseteq BOOLEAN
    /\ leader \in {"none", "running", "zombie", "reaped"}
    /\ code \in {"none", "zero", "nonzero", "signal"}
    /\ child \in {"none", "gone"} \cup Living
    /\ signal \in {"none", "term", "kill"}
    /\ capture \in {"open", "ended", "capped"}
    /\ step \in {"off", "poll", "limit", "wait", "clock", "term", "grace",
                 "kill", "join", "over"}
    /\ {aim, final} \subseteq Statuses \cup {"none", "Lost"}
    /\ receipt \in Known \cup {"none", "refused", "outcome-unknown", "start-failed", "no-receipt"}
    /\ boundary \subseteq Required

-----------------------------------------------------------------------------
(* The processes. *)

\* What a bug that asks only for the leader would see.
LeaderLive == leader = "running"

\* process_group_is_live: zombies do not count.
GroupLive == leader = "running" \/ child = "member"

\* A process of this request that can still run, in the group or the sandbox.
Runs == leader = "running" \/ child \in {"inside", "member"}

Talks == leader = "running" \/ (child \in Living /\ holds)

\* The sandbox's PID namespace ends with its leader.
DiesWithLeader == child = "inside" /\ {"die-with-parent", "unshare-pid"} \subseteq boundary

ChildGone == child' = "gone" /\ holds' = FALSE

Ends(how) ==
    /\ leader' = "zombie" /\ code' = how
    /\ IF DiesWithLeader THEN ChildGone ELSE UNCHANGED <<child, holds>>

Fork == /\ leader = "running" /\ child = "none"
        /\ child' = IF host THEN "member" ELSE "inside"
        /\ holds' \in BOOLEAN
        /\ UNCHANGED <<setting, leader, code, output, launcher>>

\* setsid, on the host.
Leave == /\ child = "member" /\ child' = "escaped"
         /\ UNCHANGED <<setting, leader, code, holds, output, launcher>>

LeaderEnds == /\ leader = "running"
              /\ \E how \in {"zero", "nonzero"} : Ends(how)
              /\ UNCHANGED <<setting, output, launcher>>

ChildEnds == /\ child \in Living /\ ChildGone
             /\ UNCHANGED <<setting, leader, code, output, launcher>>

\* A member of the group may outlive SIGTERM, and SIGKILL for a while.
Killed == /\ signal # "none"
          /\ \/ leader = "running" /\ Ends("signal")
             \/ child = "member" /\ ChildGone /\ UNCHANGED <<leader, code>>
          /\ UNCHANGED <<setting, output, launcher>>

\* Bytes that are not UTF-8.
Garble == /\ Talks /\ capture = "open" /\ text /\ text' = FALSE
          /\ UNCHANGED <<setting, tree, capture, launcher>>

\* The limit: the thread stops reading, possibly inside a character.
Flood == /\ Talks /\ capture = "open" /\ capture' = "capped"
         /\ text' \in {text, FALSE}
         /\ UNCHANGED <<setting, tree, launcher>>

CaptureEnds == /\ step # "off" /\ capture = "open" /\ ~Talks
               /\ capture' = "ended"
               /\ UNCHANGED <<setting, tree, text, launcher>>

ProcessStep == Fork \/ Leave \/ LeaderEnds \/ ChildEnds \/ Killed
               \/ Garble \/ Flood

-----------------------------------------------------------------------------
(* The launcher. *)

\* The prepared argv keeps the whole process boundary.
BoundaryComplete == Required \subseteq boundary

\* A request is refused (no receipt) if its boundary is not complete, or for its
\* limits, authority, roots or command; those of the host are not validated.
Refuses == /\ step = "off" /\ ~host
           /\ step' = "over" /\ receipt' = "refused"
           /\ UNCHANGED <<setting, tree, output, aim, final, signal>>

Accepted == host \/ BoundaryComplete

\* Where the process cannot start, nothing has run: exit 127.
StartFails == /\ step = "off" /\ Accepted
              /\ step' = "over" /\ receipt' = "start-failed"
              /\ UNCHANGED <<setting, tree, output, aim, final, signal>>

\* spawn: the leader of a new group, or of a new session on the host.
Starts == /\ step = "off" /\ Accepted
          /\ step' = "poll" /\ leader' = "running"
          /\ UNCHANGED <<setting, code, child, holds, output, aim, final, receipt, signal>>

Launch == Refuses \/ StartFails \/ Starts

Terminate(status) ==
    /\ step' = "term" /\ aim' = status
    /\ UNCHANGED <<setting, tree, output, final, receipt, signal>>

Goes(next) ==
    /\ step' = next
    /\ UNCHANGED <<setting, tree, output, aim, final, receipt, signal>>

Poll(cancelled) ==
    /\ step = "poll"
    /\ IF cancelled THEN Terminate("Cancelled") ELSE Goes("limit")

Limit == /\ step = "limit"
         /\ IF capture = "capped" THEN Terminate("OutputLimit") ELSE Goes("wait")

\* try_wait.  The loop ends by itself only when the leader was reaped, its
\* output is read to the end and no member of its group is left.
Finished == /\ leader \in {"zombie", "reaped"} /\ capture # "open" /\ ~GroupLive

Wait ==
    /\ step = "wait"
    /\ leader' = IF leader = "zombie" THEN "reaped" ELSE leader
    /\ step' = IF Finished THEN "join" ELSE "clock"
    /\ UNCHANGED <<setting, code, child, holds, output, aim, final, receipt, signal>>

\* The leader cannot be observed: its processes are ended and nothing is known.
WaitFails == step = "wait" /\ Terminate("Lost")

\* A deadline that is looked at only once the leader is gone.
DeadlineOfDescendants == step = "clock" /\ leader # "running" /\ Terminate("TimedOut")

\* The deadline of the request, or of the descendants once the leader is gone.
Deadline == step = "clock" /\ Terminate("TimedOut")

\* Neither has passed: 5 ms later.
Turn == step = "clock" /\ Goes("poll")

\* terminate_child could prove that nothing runs, or not.  The run is over at
\* once if its leader could not be observed; its locals end with it.
Returned(status) == /\ step' = "over" /\ receipt' = status
                    /\ final' = "none" /\ aim' = "none"

Concluded(status) ==
    IF aim = "Lost" THEN Returned("outcome-unknown")
    ELSE final' = status /\ step' = "join" /\ UNCHANGED <<receipt, aim>>

Proved == Concluded(aim)

Unproved == Concluded("Unknown")

Reaped == IF leader = "zombie" THEN "reaped" ELSE leader

\* The identity of a process that was not reaped may be unreadable.
Term ==
    /\ step = "term" /\ leader' = Reaped
    /\ \/ /\ leader = "running" /\ Unproved
          /\ UNCHANGED signal
       \/ /\ ~GroupLive /\ Proved
          /\ UNCHANGED signal
       \/ /\ GroupLive /\ signal' = "term" /\ step' = "grace"
          /\ UNCHANGED <<final, receipt, aim>>
    /\ UNCHANGED <<setting, code, child, holds, output>>

Grace ==
    /\ step = "grace"
    /\ \/ /\ ~GroupLive /\ leader' = Reaped /\ Proved
          /\ UNCHANGED signal
       \/ /\ GroupLive /\ signal' = "kill" /\ step' = "kill"
          /\ UNCHANGED <<leader, final, receipt, aim>>
    /\ UNCHANGED <<setting, code, child, holds, output>>

Kill ==
    /\ step = "kill" /\ leader' = Reaped
    /\ IF GroupLive THEN Unproved ELSE Proved
    /\ UNCHANGED <<setting, code, child, holds, output, signal>>

\* Output that is not UTF-8 is rejected, whatever the status was.
Verdict ==
    CASE ~text                                 -> "OutputLimit"
      [] text /\ final # "none"                -> final
      [] text /\ final = "none" /\ capture = "capped" -> "OutputLimit"
      [] OTHER                                 -> "Completed"

Named(status) ==
    CASE status = "Completed"   -> IF code = "zero" THEN "completed" ELSE "failed"
      [] status = "Cancelled"   -> "cancelled"
      [] status = "TimedOut"    -> "timed-out"
      [] status = "OutputLimit" -> "output-limit"
      [] status = "Unknown"     -> "outcome-unknown"

\* The captures get two seconds to drain.  No receipt holds text with a NUL byte.
Join ==
    /\ step = "join"
    /\ \/ Returned(IF capture = "open" THEN "outcome-unknown" ELSE Named(Verdict))
       \/ capture # "open" /\ text /\ Returned("no-receipt")
    /\ UNCHANGED <<setting, tree, output, signal>>

LauncherStep(cancelled) ==
    \/ Poll(cancelled) \/ Limit \/ Wait \/ WaitFails \/ Deadline \/ Turn
    \/ Term \/ Grace \/ Kill \/ Join

=============================================================================
