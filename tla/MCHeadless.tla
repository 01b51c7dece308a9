----------------------------- MODULE MCHeadless -----------------------------
(* Small instances of Headless for TLC. *)
EXTENDS Headless

Scenario(plan, limit, userInputs, restarts, failedSaves, unattended) ==
    [plan |-> plan, tasks |-> limit, inputs |-> userInputs, crashes |-> restarts,
     faults |-> failedSaves, headless |-> unattended]

\* One task, which may be repaired twice; the second task needs the first; two
\* tasks that run side by side.
Single == <<{}>>
Chain == <<{}, {1}>>
Pair == <<{}, {}>>

\* Ends of the loop with room for a retry, a crash, two signals or two decisions
\* of another terminal, a save that fails with a restart or a command of the user
\* behind it, and plans of two tasks in both kinds of process.
Small == {Scenario(Single, 3, 0, 1, 0, FALSE), Scenario(Single, 2, 1, 1, 1, TRUE),
          Scenario(Single, 2, 2, 0, 0, TRUE), Scenario(Chain, 3, 1, 0, 0, TRUE),
          Scenario(Chain, 3, 1, 0, 0, FALSE), Scenario(Pair, 2, 0, 0, 0, TRUE),
          Scenario(Single, 2, 1, 0, 1, FALSE), Scenario(Single, 1, 2, 0, 1, FALSE)}
=============================================================================
