--------------------------- MODULE MCRunLifecycle ---------------------------
(* Small instances of RunLifecycle for TLC. *)
EXTENDS RunLifecycle

\* Two runs of a task and two deaths; one run, a death and two exits.
Small ==
    {[runs |-> 2, crashes |-> 2, quits |-> 0], [runs |-> 1, crashes |-> 1, quits |-> 2]}
=============================================================================
