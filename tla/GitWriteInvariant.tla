------------------------- MODULE GitWriteInvariant -------------------------
(***************************************************************************)
(* The inductive invariant behind the safety of GitWrite: what a card says *)
(* of the repository it was made from, what the approval compared, and     *)
(* what each step of the call has made of the repository it found, as long *)
(* as nobody else wrote.                                                   *)
(***************************************************************************)
EXTENDS GitWrite

\* History only grows.
Continues(old, new) == Len(old) <= Len(new) /\ \A c \in 1..Len(old) : new[c] = old[c]
Grows(old, new) == Continues(old.commits, new.commits)

Working == call.pc \in Writes \cup Reads

\* A call has all its fields.
Shape(c) ==
    c = [pc |-> c.pc, args |-> c.args, print |-> c.print, plan |-> c.plan,
         tree |-> c.tree, intent |-> c.intent, cut |-> c.cut, report |-> c.report,
         shown |-> c.shown, before |-> c.before, raced |-> c.raced, returned |-> c.returned]

\* A call that has not been approved has written nothing.
QuietInv ==
    /\ call.pc \in {"idle", "planning", "card"} => ~call.cut
    /\ Under => ~call.raced

\* The card's plan is that of the repository shown, of which the fingerprint says
\* what it says of the repository now, unless that was changed and changed back.
CardInv ==
    call.pc = "card" =>
        /\ Sound(call.shown) /\ Grows(call.shown, repo)
        /\ call.plan = PlanOf(call.shown, call.args) /\ call.plan.ok
        /\ ~call.returned /\ Fingerprint(repo) = call.print =>
              /\ Fingerprint(call.shown) = call.print
              /\ call.shown.merging = repo.merging

\* The approval found the repository of the card.
ApprovedInv ==
    Working \/ (call.pc = "ended" /\ call.report = "done") =>
        /\ Sound(call.shown) /\ Grows(call.shown, call.before)
        /\ Sound(call.before) /\ Grows(call.before, repo) /\ Verified(call.before)
        /\ call.plan = PlanOf(call.shown, call.args) /\ call.plan.ok
        /\ ~call.returned =>
              /\ Fingerprint(call.shown) = Fingerprint(call.before)
              /\ call.shown.merging = call.before.merging

\* The steps of each tool, and what a command needs even if others write.
ToolInv ==
    /\ call.pc \in {"planning", "card"} \/ Working => call.args \in Args
    /\ call.pc \in {"add", "recheck", "only", "restore", "intent"} =>
          /\ call.args.tool = "commit" /\ call.args.files # {}
          /\ call.tree \in Trees /\ call.intent \subseteq Files
    /\ call.pc = "commit" => call.args.tool = "commit" /\ call.args.files = {}
    /\ call.pc = "switch" => call.args.tool = "switch"
    /\ call.pc = "merge" => repo.refs[call.args.branch] # 0
    /\ call.pc \in {"merge", "merging", "abort", "verify"} => call.args.tool = "merge"
    /\ call.pc = "push" => call.args.tool = "push"
    /\ call.pc = "log" => call.args.tool \in {"commit", "merge"}

-----------------------------------------------------------------------------
(* What the commands of a call with these arguments make of a repository    *)
(* that was "before".                                                       *)

\* The index was noted, and the files are staged.
NotedIn(before, tree, intent) ==
    tree = before.index /\ intent = Intent(before) /\ before.conflicts = {}

StagedIn(before, args, r) == r \in AddFiles(before, args.files)

Made(before, args, r) ==
    CASE args.tool = "commit" ->
           IF args.files = {} THEN ~NamesSecret(before, {}) /\ r \in CommitStaged(before)
           ELSE \E s \in AddFiles(before, args.files) :
                   ~NamesSecret(s, args.files) /\ r \in CommitOnly(s, args.files)
      [] args.tool = "switch" -> r \in Switch(before, args.branch, args.create)
      [] args.tool = "merge" -> /\ Tracked(before) = {} /\ before.refs[args.branch] # 0
                                /\ r \in Merge(before, before.refs[args.branch])
      [] args.tool = "push" -> r \in Push(before, args.branch)

\* A merge that stopped at its conflicts, or that found the owner's under way, with
\* nothing left to commit of it.
StoppedIn(before, args, r) ==
    /\ Tracked(before) = {} /\ before.refs[args.branch] # 0
    /\ r \in MergeStops(before, before.refs[args.branch])

OwnersIn(before, r) == Tracked(before) = {} /\ before.merging # 0 /\ r = before

\* Each step that is within the budget has done so much, and nothing else.
StepInv ==
    Working /\ ~call.raced =>
        /\ call.pc = "replan" => repo = call.before
        /\ ~call.cut =>
            /\ call.pc \in {"commit", "add", "switch", "merge", "push"} =>
                  repo = call.before /\ PlanOf(repo, call.args).ok
            /\ call.pc \in {"add", "recheck", "only", "restore", "intent"} =>
                  NotedIn(call.before, call.tree, call.intent)
            /\ call.pc \in {"recheck", "only", "restore"} => StagedIn(call.before, call.args, repo)
            /\ call.pc = "only" => ~NamesSecret(repo, call.args.files)
            /\ call.pc = "intent" => repo = [call.before EXCEPT !.intent = {}]
            /\ call.pc = "log" => Made(call.before, call.args, repo)
            /\ call.pc = "merging" =>
                  \/ Tracked(repo) = {} /\ repo = call.before
                  \/ StoppedIn(call.before, call.args, repo)
            /\ call.pc = "abort" =>
                  StoppedIn(call.before, call.args, repo) \/ OwnersIn(call.before, repo)
            /\ call.pc = "verify" => /\ repo = [call.before EXCEPT !.merging = 0]
                                     /\ call.before.intent = {}

EndInv == AsShown /\ ReportsAreTrue

GitInv ==
    /\ GitConstants /\ scenario \in Scenarios /\ GitTypeOK /\ Shape(call)
    /\ QuietInv /\ CardInv /\ ApprovedInv /\ ToolInv /\ StepInv /\ EndInv
=============================================================================
