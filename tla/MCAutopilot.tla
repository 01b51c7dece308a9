---------------------------- MODULE MCAutopilot ----------------------------
(* Small instances of Autopilot for TLC. *)
EXTENDS Autopilot

Scenario(plan, limit, userInputs, restarts) ==
    [plan |-> plan, tasks |-> limit, inputs |-> userInputs, crashes |-> restarts,
     faults |-> 0]

\* One task, which may be repaired twice.
Single == <<{}>>

SteeredThenKilled == {Scenario(Single, 2, 2, 1)}
=============================================================================
