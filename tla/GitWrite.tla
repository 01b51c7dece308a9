------------------------------ MODULE GitWrite ------------------------------
(***************************************************************************)
(* The git tools of a chat that write (chat_tools/git_write.rs): commit,    *)
(* switch, merge and push on the owner's real repository.  A call shows a   *)
(* card with a fingerprint of the repository and what it would do; when it  *)
(* is approved the fingerprint must still match, the plan is made again and *)
(* the git commands run one after the other within one time budget.  The    *)
(* owner and other programs work in the same repository at any moment.      *)
(*                                                                          *)
(* A file's content is a number, 0 for a file that is not there.  What git  *)
(* itself does is external: each command has an effect or fails without     *)
(* one; a command that is stopped may have had its effect, and may leave    *)
(* index.lock.  Submodules, detached heads and the wording of cards are     *)
(* left out; the checks of the config and of the git directory are one      *)
(* verdict: another setting, one that no write allows, one that no reading  *)
(* of the state allows, and a directory that no command is run in.          *)
(***************************************************************************)
EXTENDS Naturals, Sequences, FiniteSets

CONSTANTS Files, Branches,
          Secrets,      \* the files whose names look like credentials
          MaxListed,    \* git_write.rs:MAX_CARD_LINES
          MaxCommits,   \* bound: commits that ever exist
          Scenarios     \* a repository, the calls made and bounds; one is chosen

Trees == [Files -> Nat]

Settings == {"plain", "other", "refused", "filtered", "foreign"}

VARIABLES
    scenario,
    repo,       \* the repository and its remote
    call,       \* the call under way or just ended
    others,     \* writes of others so far
    calls, faults

gitVars == <<scenario, repo, call, others, calls, faults>>

\* commits: all that exist, each after its parents; at: the current branch; refs,
\* remote, tracking: 0 for a branch that is not there; index: without the entries
\* of intent (git add -N); conflicts: unmerged files; merging: MERGE_HEAD.
Repos == [commits : Seq([parents : SUBSET (1..MaxCommits), tree : Trees]),
          at : Branches, refs : [Branches -> 0..MaxCommits],
          index : Trees, intent : SUBSET Files, work : Trees,
          merging : 0..MaxCommits, conflicts : SUBSET Files, lock : BOOLEAN,
          remote : [Branches -> 0..MaxCommits], tracking : [Branches -> 0..MaxCommits],
          config : Settings]

\* Commits name older ones, an entry of intent has no content, and conflicts are
\* those of a merge under way.
Sound(r) ==
    /\ r \in Repos /\ Len(r.commits) <= MaxCommits
    /\ \A c \in 1..Len(r.commits) : \A p \in r.commits[c].parents : p < c
    /\ \A b \in Branches : {r.refs[b], r.remote[b], r.tracking[b]} \subseteq 0..Len(r.commits)
    /\ r.merging <= Len(r.commits) /\ r.refs[r.at] # 0
    /\ \A f \in r.intent : r.index[f] = 0
    /\ r.conflicts # {} => r.merging # 0

Args == [tool : {"commit"}, files : SUBSET Files]
        \cup [tool : {"switch"}, branch : Branches, create : BOOLEAN]
        \cup [tool : {"merge", "push"}, branch : Branches]

GitConstants ==
    /\ Secrets \subseteq Files /\ {MaxListed, MaxCommits} \subseteq Nat \ {0}
    /\ \A s \in Scenarios : /\ Sound(s.repo) /\ s.args \subseteq Args
                            /\ s.edits \subseteq Nat /\ s.configs \subseteq Settings

ASSUME GitAssumption == GitConstants

NoPlan == [ok |-> FALSE, listed |-> {}]
NoCall == [pc |-> "idle", args |-> [tool |-> "none"], print |-> <<>>, plan |-> NoPlan,
           tree |-> <<>>, intent |-> {}, cut |-> FALSE, report |-> "none",
           shown |-> <<>>, before |-> <<>>, raced |-> FALSE, returned |-> FALSE]

GitInit ==
    /\ scenario \in Scenarios
    /\ repo = scenario.repo /\ call = NoCall
    /\ others = 0 /\ calls = 0 /\ faults = 0

-----------------------------------------------------------------------------
(* Reading the repository. *)

\* No command runs in a directory with links or borrowed objects, or that cannot
\* be walked; the state is not read with filter drivers or includes; and no write
\* is planned with a setting outside ALLOWED_LOCAL_KEYS.
Verified(r) == r.config # "foreign"
Unfiltered(r) == Verified(r) /\ r.config # "filtered"
Allowed(r) == Unfiltered(r) /\ r.config # "refused"

Tip(r) == r.refs[r.at]
TipTree(r) == r.commits[Tip(r)].tree

\* The commits a commit reaches; parents have smaller numbers.
Reach(r, commit) ==
    LET reach[n \in 0..Len(r.commits)] ==
          IF n = 0 THEN {} ELSE {n} \cup UNION {reach[p] : p \in r.commits[n].parents}
    IN  reach[commit]

\* git status --porcelain: the letters of a file, without its contents.
Against(old, new) ==
    IF old = new THEN " " ELSE IF old = 0 THEN "A" ELSE IF new = 0 THEN "D" ELSE "M"
Status(r) ==
    [f \in Files |->
        IF f \in r.conflicts THEN <<"U", "U">>
        ELSE <<Against(TipTree(r)[f], r.index[f]),
               IF f \in r.intent THEN IF r.work[f] = 0 THEN "D" ELSE "A"
               ELSE IF r.index[f] = 0 THEN IF r.work[f] = 0 THEN " " ELSE "?"
               ELSE Against(r.index[f], r.work[f])>>]

Changed(r) == {f \in Files : Status(r)[f] # <<" ", " ">>}
Staged(r) == {f \in Files : Status(r)[f][1] # " "}
Tracked(r) == {f \in Changed(r) : Status(r)[f] # <<" ", "?">>}

\* Fault: local branches other than the current one are not in it.
FingerprintOfHead(r) == <<Tip(r), r.at, r.tracking, Status(r), r.config>>
Fingerprint(r) == <<Tip(r), r.at, r.refs, r.tracking, Status(r), r.config>>

\* Files by a secret name, and new staged files that copy one of HEAD's.
Suspect(r, f) ==
    \/ f \in Secrets
    \/ /\ TipTree(r)[f] = 0 /\ r.index[f] # 0
       /\ \E s \in Secrets : TipTree(r)[s] = r.index[f]

NamesSecret(r, files) ==
    \/ \E f \in (IF files = {} THEN Staged(r) ELSE files \cap Changed(r)) : f \in Secrets
    \/ \E f \in Staged(r) \ Secrets : Suspect(r, f)

\* What a commit's card lists: names of what would be taken.
Listing(r, args) == IF args.files = {} THEN Staged(r) ELSE args.files \cap Changed(r)

PlanCommit(r, args) ==
    [ok |-> /\ Allowed(r) /\ ~NamesSecret(r, args.files)
            /\ Cardinality(Listing(r, args)) \in 1..MaxListed,
     listed |-> Listing(r, args)]

PlanSwitch(r, args) ==
    [ok |-> Allowed(r) /\ args.branch # r.at /\ (r.refs[args.branch] = 0) = args.create,
     listed |-> {}]

Bases(r, source) == Reach(r, Tip(r)) \cap Reach(r, source)
Base(r, source) ==
    r.commits[CHOOSE c \in Bases(r, source) : \A d \in Bases(r, source) : d <= c].tree

\* diff HEAD...source: the files its branch changed, one line each and one for
\* their number.
PlanMerge(r, args) ==
    LET source == r.refs[args.branch]
        files  == {f \in Files : Base(r, source)[f] # r.commits[source].tree[f]}
    IN  [ok |-> /\ Allowed(r) /\ Tracked(r) = {}
                /\ source # 0 /\ source \notin Reach(r, Tip(r))
                /\ Cardinality(files) < MaxListed,
         listed |-> IF source = 0 THEN {} ELSE files]

PlanPush(r, args) ==
    [ok |-> /\ Allowed(r) /\ r.refs[args.branch] # 0
            /\ r.refs[args.branch] \notin
                 (IF r.tracking[args.branch] = 0 THEN {} ELSE Reach(r, r.tracking[args.branch])),
     listed |-> {}]

PlanOf(r, args) ==
    CASE args.tool = "commit" -> PlanCommit(r, args) [] args.tool = "switch" -> PlanSwitch(r, args)
      [] args.tool = "merge"  -> PlanMerge(r, args)  [] args.tool = "push"   -> PlanPush(r, args)

-----------------------------------------------------------------------------
(* What git's commands do: the repositories they may leave when they        *)
(* succeed; none when they fail.                                            *)

Room(r) == Len(r.commits) < MaxCommits
NewCommit(r, parents, tree) == Append(r.commits, [parents |-> parents, tree |-> tree])
Moved(r) == [r EXCEPT !.refs[r.at] = Len(r.commits)]

AddFiles(r, files) ==
    {[r EXCEPT !.index = [f \in Files |-> IF f \in files THEN r.work[f] ELSE @[f]],
               !.intent = @ \ files, !.conflicts = @ \ files]
     : x \in {1 : f \in {g \in files : r.work[g] # 0 \/ r.index[g] # 0}}}

\* commit: the index; with a merge under way it concludes it.
CommitStaged(r) ==
    IF r.conflicts # {} \/ (r.index = TipTree(r) /\ r.merging = 0) \/ ~Room(r) THEN {}
    ELSE {[Moved([r EXCEPT !.commits = NewCommit(r, {Tip(r), r.merging} \ {0}, r.index)])
             EXCEPT !.merging = 0]}

\* commit -- files: the files as they are in the working tree, on top of HEAD.
CommitOnly(r, files) ==
    LET tree == [f \in Files |-> IF f \in files THEN r.work[f] ELSE TipTree(r)[f]]
    IN  IF r.merging # 0 \/ tree = TipTree(r) \/ ~Room(r) THEN {}
        ELSE {Moved([r EXCEPT !.commits = NewCommit(r, {Tip(r)}, tree),
                              !.index = [f \in Files |-> IF f \in files THEN r.work[f] ELSE @[f]],
                              !.intent = @ \ files])}

ReadTree(r, tree) == {[r EXCEPT !.index = tree, !.intent = {}, !.conflicts = {}]}
AddIntent(r, files) ==
    {[r EXCEPT !.intent = @ \cup {f \in files : r.index[f] = 0 /\ r.work[f] # 0}]}

\* The files that differ between two trees are clean, or git leaves everything alone.
Replaces(r, old, new) ==
    \A f \in Files :
        old[f] # new[f] => r.work[f] = old[f] /\ r.index[f] = old[f] /\ f \notin r.intent
Replaced(r, old, new) ==
    [r EXCEPT !.index = [f \in Files |-> IF old[f] # new[f] THEN new[f] ELSE @[f]],
              !.work  = [f \in Files |-> IF old[f] # new[f] THEN new[f] ELSE @[f]]]

Switch(r, branch, create) ==
    LET target == r.commits[r.refs[branch]].tree
    IN  IF (r.refs[branch] = 0) # create THEN {}
        ELSE IF create THEN {[r EXCEPT !.refs[branch] = Tip(r), !.at = branch]}
        ELSE IF r.merging # 0 \/ ~Replaces(r, TipTree(r), target) THEN {}
        ELSE {[Replaced(r, TipTree(r), target) EXCEPT !.at = branch]}

\* A file both sides changed is a conflict.
Merged(r, source) ==
    LET base == Base(r, source)  ours == TipTree(r)  theirs == r.commits[source].tree
    IN  [f \in Files |-> IF theirs[f] = base[f] THEN ours[f] ELSE theirs[f]]
Clashes(r, source) ==
    LET base == Base(r, source)  ours == TipTree(r)  theirs == r.commits[source].tree
    IN  {f \in Files : ours[f] # base[f] /\ theirs[f] # base[f] /\ ours[f] # theirs[f]}
CanMerge(r, source) ==
    /\ r.merging = 0 /\ r.index = TipTree(r)
    /\ Replaces(r, TipTree(r), Merged(r, source))

Merge(r, source) ==
    IF ~CanMerge(r, source) \/ Clashes(r, source) # {} THEN {}
    ELSE IF Tip(r) \in Reach(r, source)
    THEN {[Replaced(r, TipTree(r), Merged(r, source)) EXCEPT !.refs[r.at] = source]}
    ELSE IF ~Room(r) THEN {}
    ELSE {Moved([Replaced(r, TipTree(r), Merged(r, source)) EXCEPT
                   !.commits = NewCommit(r, {Tip(r), source}, Merged(r, source))])}

\* A merge that conflicts exits with a failure and leaves its state behind.
MergeStops(r, source) ==
    IF ~CanMerge(r, source) \/ Clashes(r, source) = {} THEN {}
    ELSE {[Replaced(r, TipTree(r), Merged(r, source)) EXCEPT
             !.merging = source, !.conflicts = Clashes(r, source)]}

\* merge --abort: back to HEAD, keeping what differed from the index.
MergeAbort(r) ==
    IF r.merging = 0 THEN {}
    ELSE {[r EXCEPT !.merging = 0, !.conflicts = {}, !.index = TipTree(r), !.intent = {},
                    !.work = [f \in Files |->
                        IF r.index[f] # TipTree(r)[f] \/ f \in r.conflicts
                        THEN TipTree(r)[f] ELSE @[f]]]}

Push(r, branch) ==
    IF r.remote[branch] # 0 /\ r.remote[branch] \notin Reach(r, r.refs[branch]) THEN {}
    ELSE {[r EXCEPT !.remote[branch] = r.refs[branch], !.tracking[branch] = r.refs[branch]]}

-----------------------------------------------------------------------------
(* A call, from its card to its report. *)

Go(step) == call' = [call EXCEPT !.pc = step]
End(report) == call' = [call EXCEPT !.pc = "ended", !.report = report]
Still == UNCHANGED <<scenario, repo, others, calls, faults>>

\* The card is built: the fingerprint first, then what it shows.
ShowCard(args) ==
    /\ call.pc \in {"idle", "ended"} /\ calls < scenario.calls
    /\ calls' = calls + 1
    /\ call' = IF Unfiltered(repo)
               THEN [NoCall EXCEPT !.pc = "planning", !.args = args, !.print = Fingerprint(repo)]
               ELSE [NoCall EXCEPT !.pc = "ended", !.report = "refused", !.before = repo, !.args = args]
    /\ UNCHANGED <<scenario, repo, others, faults>>

Preview ==
    /\ call.pc = "planning"
    /\ LET plan == PlanOf(repo, call.args)
       IN  call' = IF plan.ok THEN [call EXCEPT !.pc = "card", !.plan = plan, !.shown = repo]
                   ELSE [call EXCEPT !.pc = "ended", !.report = "refused", !.before = repo]
    /\ Still

Deny == call.pc = "card" /\ call' = NoCall /\ Still

\* Approved: the fingerprint is compared, before anything else.
Approved ==
    /\ call.pc = "card"
    /\ call' = IF Unfiltered(repo) /\ Fingerprint(repo) = call.print
               THEN [call EXCEPT !.pc = "replan", !.before = repo]
               ELSE [call EXCEPT !.pc = "ended", !.report = "changed", !.before = repo]
    /\ Still

FirstStep(args) ==
    IF args.tool # "commit" THEN args.tool ELSE IF args.files = {} THEN "commit" ELSE "add"

\* The entries of git add -N whose files are there.
Intent(r) == {f \in r.intent : r.work[f] # 0}

\* The plan is made again; a commit of named files notes the index first, which
\* needs a whole one (write-tree).
Noted == FirstStep(call.args) = "add" => repo.conflicts = {} /\ ~repo.lock

Replan ==
    /\ call.pc = "replan" /\ ~call.cut
    /\ IF ~PlanOf(repo, call.args).ok \/ ~Noted THEN End("refused")
       ELSE call' = [call EXCEPT !.pc = FirstStep(call.args), !.tree = repo.index,
                                 !.intent = Intent(repo)]
    /\ Still

Writes == {"add", "commit", "only", "restore", "intent", "switch", "merge", "abort", "push"}
Reads == {"replan", "recheck", "log", "merging", "verify"}
CallSteps == {"idle", "planning", "card", "ended"} \cup Writes \cup Reads

\* The command of a step.
Results ==
    CASE call.pc = "add"     -> AddFiles(repo, call.args.files)
      [] call.pc = "commit"  -> CommitStaged(repo)
      [] call.pc = "only"    -> CommitOnly(repo, call.args.files)
      [] call.pc = "restore" -> ReadTree(repo, call.tree)
      [] call.pc = "intent"  -> AddIntent(repo, call.intent)
      [] call.pc = "switch"  -> Switch(repo, call.args.branch, call.args.create)
      [] call.pc = "merge"   -> Merge(repo, repo.refs[call.args.branch])
      [] call.pc = "abort"   -> MergeAbort(repo)
      [] call.pc = "push"    -> Push(repo, call.args.branch)

\* A held index.lock fails every command but a push.
Free == Verified(repo) /\ (call.pc = "push" \/ ~repo.lock)
Successes == IF Free THEN Results ELSE {}

\* What a failure leaves: nothing, or a merge that stopped at its conflicts.
Failures ==
    IF call.pc # "merge" \/ ~Free THEN {repo}
    ELSE LET stopped == MergeStops(repo, repo.refs[call.args.branch])
         IN  IF stopped = {} THEN {repo} ELSE stopped

To(step) == [call EXCEPT !.pc = step]
EndOf(report) == [call EXCEPT !.pc = "ended", !.report = report]

\* Fault: entries of git add -N are not put back.
SucceededPlainly ==
    CASE call.pc = "add" -> To("recheck")
      [] call.pc \in {"commit", "only"} \/ call.pc = "merge" -> To("log")
      [] call.pc = "abort" -> To("verify")
      [] call.pc \in {"restore", "intent"} -> EndOf("restored")
      [] call.pc \in {"switch", "push"} -> EndOf("done")

\* What follows a command that succeeded, and one that failed.
Succeeded ==
    CASE call.pc = "add" -> To("recheck")
      [] call.pc \in {"commit", "only", "merge"} -> To("log")
      [] call.pc = "abort" -> To("verify")
      [] call.pc = "restore" -> IF call.intent # {} THEN To("intent") ELSE EndOf("restored")
      [] call.pc = "intent" -> EndOf("restored")
      [] call.pc \in {"switch", "push"} -> EndOf("done")

Failed ==
    CASE call.pc = "only" -> To("restore")
      [] call.pc \in {"restore", "intent"} -> EndOf("unrestored")
      [] call.pc = "merge" -> To("merging")
      [] call.pc = "abort" -> EndOf("mid-merge")
      [] OTHER -> EndOf("failed")

Command ==
    /\ call.pc \in Writes /\ ~call.cut
    /\ repo' \in Successes
    /\ call' = Succeeded
    /\ UNCHANGED <<scenario, others, calls, faults>>

CommandFails ==
    /\ call.pc \in Writes /\ ~call.cut
    /\ \/ Successes = {} /\ repo' \in Failures /\ UNCHANGED faults
       \/ faults < scenario.faults /\ faults' = faults + 1 /\ UNCHANGED repo
    /\ call' = Failed
    /\ UNCHANGED <<scenario, others, calls>>

\* Fault: a push has no deadline.
CutLocal ==
    /\ call.pc \in Writes \ {"push"} /\ ~call.cut
    /\ \E r \in {repo} \cup Successes \cup Failures, lock \in BOOLEAN :
         repo' = [r EXCEPT !.lock = @ \/ lock]
    /\ call' = [Failed EXCEPT !.cut = TRUE]
    /\ UNCHANGED <<scenario, others, calls, faults>>

\* The budget of the call is spent, or its round cancelled, while a command runs:
\* it is killed before or after its effect, and may leave its lock...
Cut ==
    /\ call.pc \in Writes /\ ~call.cut
    /\ \E r \in {repo} \cup Successes \cup Failures, lock \in BOOLEAN :
         repo' = [r EXCEPT !.lock = @ \/ (lock /\ call.pc # "push")]
    /\ call' = [Failed EXCEPT !.cut = TRUE]
    /\ UNCHANGED <<scenario, others, calls, faults>>

\* ... or between two commands.
Expire == call.pc \in Reads /\ ~call.cut /\ call' = [call EXCEPT !.cut = TRUE] /\ Still

\* Whatever would follow then fails at once, reads and writes.
Spent ==
    /\ call.cut /\ call.pc \in Writes \cup Reads
    /\ call' = CASE call.pc \in Writes -> Failed
                 [] call.pc = "replan" -> EndOf("refused")
                 [] call.pc = "recheck" -> To("restore")
                 [] call.pc = "verify" -> EndOf("unsure")
                 [] OTHER -> EndOf("failed")
    /\ Still

\* The staged files are checked again: a copy shows only once it is staged.
Recheck ==
    /\ call.pc = "recheck" /\ ~call.cut
    /\ Go(IF ~Verified(repo) \/ NamesSecret(repo, call.args.files) THEN "restore" ELSE "only")
    /\ Still

\* A failed merge is a conflict if MERGE_HEAD is there: it is aborted.
Merging ==
    /\ call.pc = "merging" /\ ~call.cut
    /\ IF Verified(repo) /\ repo.merging # 0 THEN Go("abort") ELSE End("failed")
    /\ Still

Verify ==
    /\ call.pc = "verify" /\ ~call.cut
    /\ End(IF Verified(repo) /\ Tip(repo) = Tip(call.before) /\ repo.merging = 0 /\ ~repo.lock
           THEN "as it was" ELSE "unsure")
    /\ Still

\* The new commit is read for the report.
Log == call.pc = "log" /\ ~call.cut /\ End(IF Verified(repo) THEN "done" ELSE "failed") /\ Still

-----------------------------------------------------------------------------
(* The owner and other programs, in the same repository. *)

\* A file edited, a setting, a leftover lock removed.
Edited(r) ==
    {[r EXCEPT !.work[f] = c] : f \in Files, c \in scenario.edits}
    \cup {[r EXCEPT !.config = c] : c \in scenario.configs} \cup {[r EXCEPT !.lock = FALSE]}

\* A commit in another worktree, and one pushed from elsewhere.
CommitsElsewhere(r, b, f) ==
    [r EXCEPT !.commits = NewCommit(r, {r.refs[b]}, [r.commits[r.refs[b]].tree EXCEPT ![f] = 7]),
              !.refs[b] = Len(r.commits) + 1]
PushElsewhere(r, b) ==
    [r EXCEPT !.commits = NewCommit(r, {r.remote[b]}, r.commits[r.remote[b]].tree),
              !.remote[b] = Len(r.commits) + 1]

Branched(r) ==
    {[r EXCEPT !.refs[b] = Tip(r)] : b \in {x \in Branches : r.refs[x] = 0}}
    \cup (IF ~Room(r) THEN {} ELSE
            {CommitsElsewhere(r, b, f) :
                b \in {x \in Branches \ {r.at} : r.refs[x] # 0}, f \in Files \ Secrets}
            \cup {PushElsewhere(r, b) : b \in {x \in Branches : r.remote[x] # 0}})

\* A file staged or unstaged, a conflicting merge, a commit.
Unstage(r, f) == [r EXCEPT !.index[f] = TipTree(r)[f], !.intent = @ \ {f}]

Handled(r) ==
    IF r.lock THEN {}
    ELSE (UNION {AddFiles(r, {f}) : f \in Files}) \cup {Unstage(r, f) : f \in Files \ r.conflicts}
         \cup (UNION {MergeStops(r, r.refs[b]) : b \in {x \in Branches : r.refs[x] # 0}})
         \cup CommitStaged(r)

Elsewhere(r) == Edited(r) \cup Branched(r) \cup Handled(r)

Under == call.pc \in {"planning", "card"}

\* raced: while the commands of a call run, or after it; returned: the repository
\* looked different while the card was made, and looks as before again.
Others ==
    /\ others < scenario.others /\ others' = others + 1
    /\ repo' \in Elsewhere(repo) \ {repo}
    /\ call' = [call EXCEPT !.raced = @ \/ ~Under,
                            !.returned = @ \/ (/\ Under /\ Fingerprint(repo) # call.print
                                               /\ Fingerprint(repo') = call.print)]
    /\ UNCHANGED <<scenario, calls, faults>>

Step == Preview \/ Replan \/ Recheck \/ Merging \/ Verify \/ Log \/ Spent

GitNext ==
    \/ \E args \in scenario.args : ShowCard(args)
    \/ Approved \/ Deny \/ Step \/ Command \/ CommandFails \/ Cut \/ Expire \/ Others

GitSpec == GitInit /\ [][GitNext]_gitVars

\* A git command may take for ever; the time of its call does not.
GitFairSpec == GitSpec /\ WF_gitVars(Step) /\ WF_gitVars(Cut)

-----------------------------------------------------------------------------
(* Properties. *)

GitTypeOK ==
    /\ Sound(repo)
    /\ call.pc \in CallSteps /\ {call.cut, call.raced, call.returned} \subseteq BOOLEAN

\* The call has ended and nobody else wrote meanwhile.
Undisturbed == call.pc = "ended" /\ ~call.raced /\ ~call.returned

\* The files a commit takes.
Taken == LET made == repo.commits[Tip(repo)] IN
         {f \in Files : made.tree[f] # TipTree(call.shown)[f]}

NewSecret(f) ==
    LET shown == TipTree(call.shown)  made == repo.commits[Tip(repo)].tree IN
      f \in Secrets \/ (shown[f] = 0 /\ \E s \in Secrets \ {f} : shown[s] # 0 /\ shown[s] = made[f])

\* reference.md: on approval the repository must match the preview, otherwise
\* nothing runs.  What a call did is what its card showed: the commit is on the
\* branch and the commit shown and takes only listed files, none of them a secret
\* or a new copy of one; a switch, a merge and a push are of the commits shown.
AsShown ==
    /\ GitTypeOK
    /\ Undisturbed /\ call.report = "done" =>
        LET shown == call.shown  args == call.args IN
        /\ Fingerprint(shown) = Fingerprint(call.before)
        /\ args.tool = "commit" =>
             /\ repo.at = shown.at /\ Tip(repo) = Len(call.before.commits) + 1
             /\ repo.commits[Tip(repo)].parents = {Tip(shown), shown.merging} \ {0}
             /\ Taken \subseteq call.plan.listed
             /\ \A f \in Taken : ~NewSecret(f)
        /\ args.tool = "switch" =>
             repo.at = args.branch /\ Tip(repo) = IF args.create THEN Tip(shown) ELSE shown.refs[args.branch]
        /\ args.tool = "merge" =>
             Reach(repo, Tip(repo)) \ {Len(call.before.commits) + 1}
               = Reach(repo, Tip(shown)) \cup Reach(repo, shown.refs[args.branch])
        /\ args.tool = "push" =>
             repo.remote = [call.before.remote EXCEPT ![args.branch] = shown.refs[args.branch]]

\* The uncommitted work a call must leave alone: what its commit does not take,
\* and what a switch carries over.
Uncommitted ==
    LET took == IF call.args.tool = "commit" /\ call.report \in {"done", "failed"}
                THEN call.args.files ELSE {}
    IN  IF call.args.tool = "switch" \/ call.args.tool = "merge" THEN Changed(call.before)
        ELSE Files \ took

\* reference.md: a failed commit of named files restores the index, an aborted
\* merge leaves the repository as it was, and a stopped write is not called
\* unchanged.  Uncommitted work survives every call, and a report that says that
\* nothing changed, or that it was put back, is true - but for a merge the owner had
\* under way with nothing left to commit of it: the tool aborts that one for its own.
ReportsAreTrue ==
    Undisturbed =>
        /\ call.report \in {"refused", "changed", "restored"} => repo = [call.before EXCEPT !.intent = repo.intent]
        /\ call.report = "as it was" => repo = [call.before EXCEPT !.intent = repo.intent, !.merging = 0]
        /\ call.cut => call.report \notin {"done", "restored", "as it was"}
        /\ ~call.cut =>
             \A f \in Uncommitted :
                 /\ repo.work[f] = call.before.work[f]
                 /\ repo.index[f] = call.before.index[f] \/ call.report = "unrestored"
                 /\ (f \in Intent(repo)) = (f \in Intent(call.before)) \/ call.report = "unrestored"

\* A git that hangs, at any of its commands, is stopped and its call ends.
CallEnds == call.pc \notin {"idle", "card", "ended"} ~> call.pc \in {"card", "ended"}
=============================================================================
