----------------------------- MODULE MCPlanning -----------------------------
(* Small instances of Planning for TLC. *)
EXTENDS Planning

Bounds(goal, commands, prompts, decisions, writes, failing, restarts) ==
    [consequential |-> goal, typed |-> commands, spoken |-> prompts, driven |-> decisions,
     others |-> writes, faults |-> failing, crashes |-> restarts]

Everyone == {"user", "autopilot", "elsewhere"}

\* Typed plans and saves; the same over a restart; chat turns of two sessions;
\* the autopilot with a goal that needs an agreed scope, alone and beside a
\* user's commands and prompts; a goal that does not, over a restart.
Small ==
    {Bounds(FALSE, 4, 0, 0, 0, 1, 0), Bounds(FALSE, 3, 0, 0, 1, 1, 0), Bounds(FALSE, 3, 0, 0, 0, 1, 1),
     Bounds(FALSE, 0, 3, 0, 1, 0, 0), Bounds(TRUE, 0, 0, 2, 1, 1, 0), Bounds(TRUE, 1, 1, 1, 0, 0, 0),
     Bounds(FALSE, 1, 0, 1, 1, 0, 1), Bounds(FALSE, 0, 0, 2, 1, 1, 1)}
=============================================================================
