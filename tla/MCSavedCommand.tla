---------------------------- MODULE MCSavedCommand ----------------------------
(* Small instances of SavedCommand for TLC. *)
EXTENDS SavedCommand

CONSTANTS c1, c2

Bounds(submitting, receipts, submissions, failing, starting) ==
    [commands |-> submitting, receipts |-> receipts, attempts |-> submissions,
     failures |-> failing, restarts |-> starting]

Small == {Bounds({c1, c2}, 2, 2, 1, 0), Bounds({c1, c2}, 2, 1, 1, 1), Bounds({c1}, 2, 2, 1, 1)}
=============================================================================
