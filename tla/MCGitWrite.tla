---------------------------- MODULE MCGitWrite ----------------------------
(* Small instances of GitWrite for TLC. *)
EXTENDS GitWrite, TLC

\* A tracked file, another one, and a credential.
CONSTANTS file, note, key, main, go

Tree(f, n, k) == (file :> f) @@ (note :> n) @@ (key :> k)
On(m, g) == (main :> m) @@ (go :> g)
Commit(from, tree) == [parents |-> from, tree |-> tree]

Repo(history, refs, index, intent, work) ==
    [commits |-> history, at |-> main, refs |-> refs, index |-> index, intent |-> intent,
     work |-> work, merging |-> 0, conflicts |-> {}, lock |-> FALSE,
     remote |-> On(1, 0), tracking |-> On(1, 0), config |-> "plain"]

ToCommit(names) == [tool |-> "commit", files |-> names]
ToSwitch(name, new) == [tool |-> "switch", branch |-> name, create |-> new]
ToMerge(name) == [tool |-> "merge", branch |-> name]
ToPush(name) == [tool |-> "push", branch |-> name]

First == Commit({}, Tree(1, 0, 9))

\* A modified file, an untracked copy of the credential or another new file.
Dirty(copy, intent, times) ==
    [repo |-> Repo(<<First>>, On(1, 0), First.tree, intent, Tree(2, copy, 9)),
     args |-> {ToCommit({file}), ToCommit({file, note}), ToCommit({})},
     edits |-> {0, 1, 3}, configs |-> {"other", "foreign"}, calls |-> times, others |-> 2, faults |-> 1]

\* Two branches that changed the same file, or different ones.
Forked(theirs, times) ==
    [repo |-> Repo(<<First, Commit({1}, Tree(2, 0, 9)), Commit({1}, theirs)>>, On(2, 3),
                   Tree(2, 0, 9), {}, Tree(2, 0, 9)),
     args |-> {ToMerge(go), ToSwitch(go, FALSE), ToPush(main)},
     edits |-> {3}, configs |-> {"refused", "filtered"}, calls |-> times, others |-> 3 - times, faults |-> 1]

\* The owner has a merge under way that comes to nothing.
UnderMerge ==
    LET forked == Forked(Tree(1, 4, 9), 1)
    IN  [forked EXCEPT !.repo.merging = 3, !.args = {ToMerge(go), ToCommit({})}, !.others = 1]

Small == {Dirty(9, {}, 1), Dirty(4, {note}, 2), UnderMerge}
         \cup {Forked(theirs, times) : theirs \in {Tree(3, 0, 9), Tree(1, 4, 9)}, times \in 1..2}
=============================================================================
