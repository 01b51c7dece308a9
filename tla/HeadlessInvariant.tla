--------------------------- MODULE HeadlessInvariant ---------------------------
(***************************************************************************)
(* The inductive invariant of Headless.                                    *)
(*                                                                         *)
(* The loop decides on a snapshot that it loaded, and so do the owner's    *)
(* instructions; a command carries the decision to a store that may have   *)
(* moved on.  So the invariant says what of a snapshot stays true of every *)
(* later store (LaterIs), that a command which is not outdated was decided *)
(* on the store it will meet, and what was true of that store then.        *)
(***************************************************************************)
EXTENDS Headless

\* What a task is for good: its family, an end that nothing follows, and whether
\* it has run.
Stays(task, later) ==
    /\ later.root = task.root /\ later.of = task.of /\ later.needs = task.needs
    /\ task.status \in Broken \cup {"Accepted", "Rejected"} => later.status = task.status
    /\ Dropped(task) => Dropped(later)

LaterIs(old, new) ==
    /\ Len(old) <= Len(new)
    /\ \A t \in 1..Len(old) : Stays(old[t], new[t])

KeepsResolved(old, new) == \A r \in Ids : old[r] # 0 => new[r] = old[r]

\* Families have a root and need older ones.
RootsOK(ts) ==
    \A t \in 1..Len(ts) : /\ ts[t].needs \subseteq 1..t - 1
                          /\ ts[ts[t].root].root = ts[t].root

StoreInv == AutopilotConstants /\ StoreTypeOK /\ RootsOK(tasks)

ViewInv ==
    /\ LaterIs(view.tasks, tasks) /\ KeepsResolved(view.resolved, resolved)
    /\ ~behind => view.tasks = tasks /\ view.resolved = resolved

\* What holds of a state of the run, in memory or in its file.
RunIn(r) == /\ r.roots \cup r.retry \subseteq Existing(view)
            /\ \A root \in r.roots : RootOf(view, root) = root

\* A run goes on only with a state that was saved, and the limits that the loop's
\* command was decided within are those of the file too.
RunInv ==
    /\ RunTypeOK
    /\ RunIn(saved) /\ RunIn(file)
    /\ recovering \cup workers \subseteq Existing(view)
    /\ Running => file = saved
    /\ command.by = "autopilot" => file.limits = saved.limits

\* The attempts left are those of a decision that may still be taken.
MemoryInv ==
    /\ MemoryTypeOK
    /\ saved.phase = "running" /\ ~saved.paused => \A k \in Keys : attempts[k] <= Attempts

\* The loop's command was decided while the run went on; one that is not outdated
\* meets the store it was decided on.
CommandInv ==
    /\ CommandTypeOK
    /\ IF command.at = "none" THEN command = NoCommand ELSE command.kind # "none"
    /\ command.kind \notin {"none", "dispatch"} => command.task \in Existing(view)
    /\ command.by = "autopilot" => saved.phase = "running"
    /\ command.kind = "dispatch" => command.by \in {"autopilot", "user"}
    /\ command.kind = "dispatch" /\ command.by = "autopilot" => ~saved.paused \/ overridden
    /\ command.at # "none" /\ ~command.stale => ~behind

\* A repair that the loop decided on is within the family's limit.
RepairInv ==
    command.by = "autopilot" /\ command.kind = "repair" /\ ~command.stale =>
       /\ Status(view, command.task) \in Broken
       /\ Repairs(view, RootOf(view, command.task)) < RepairLimit(RootOf(view, command.task))

\* What an instruction has made, and what its command is to make.
ItemInv ==
    /\ ItemTypeOK
    /\ item.root = 0 => item = NoItem
    /\ item.root # 0 => {item.root, item.task} \subseteq Existing(view) /\ item.effect # "none"
    /\ item.created # 0 =>
          /\ item.created \in Existing(view) /\ item.effect \notin {"none", "Steer"}
          /\ item.effect = "FollowUp" => RootOf(view, item.created) = item.created
          /\ item.effect = "ReviewRepair" => Status(view, item.task) = "Rejected"
    /\ command.by = "owner" =>
          /\ item.root # 0
          /\ command.kind \in {"repair", "review-repair", "follow-up"} => item.created = 0
          /\ command.kind = "repair" => item.effect \in {"Repair", "AfterCheck"}
          /\ command.kind = "review-repair" =>
                item.effect = "ReviewRepair" /\ command.task = item.task
          /\ command.kind = "follow-up" => item.effect = "FollowUp"

WorkInv == WorkTypeOK /\ PausedIsQuiet

\* A repair of the loop is of a task that failed.
LoopInv ==
    /\ automatic \subseteq Existing(view)
    /\ \A t \in automatic : /\ view.tasks[t].of # 0
                            /\ Status(view, view.tasks[t].of) \in Broken
    /\ RepairsBounded
    /\ \A r \in Ids : Cardinality(ByLoop(r)) <= LimitIn(file, r)

AutopilotInv ==
    /\ StoreInv /\ ViewInv /\ RunInv /\ MemoryInv /\ CommandInv /\ RepairInv /\ ItemInv
    /\ WorkInv /\ LoopInv

Shells == [pc : {"terminal", "loop", "starting", "ended"}, stopping : BOOLEAN, fatal : BOOLEAN,
           retry : BOOLEAN, signals : Nat, exit : {0, 1, 2}, accepted : SUBSET Nat]

\* A process that is stopping has paused the run, if it was not over.
ShellInv ==
    /\ shell \in Shells
    /\ In("loop") /\ shell.stopping => ~Active \/ saved.paused
    /\ In("starting") => /\ attempts = NoAttempts /\ Idle /\ workers = {}
                         /\ saved = Restored(file)
    /\ ExitIsTrue

HeadlessInv == AutopilotInv /\ ShellInv
=============================================================================
