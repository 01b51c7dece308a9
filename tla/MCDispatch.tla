------------------------------ MODULE MCDispatch ------------------------------
(* Small instances of Dispatch for TLC. *)
EXTENDS Dispatch

Bounds(known, ready, receipts, scopeRevisions, typed, failed, restarted) ==
    [tasks |-> known, approved |-> ready, receipts |-> receipts, scopes |-> scopeRevisions,
     inputs |-> typed, failures |-> failed, restarts |-> restarted]

\* A task that is redrafted and written elsewhere, with a failed save; three inputs
\* on an untouched scope; two approved tasks, one bound to the scope, with a restart;
\* the same task approved only later.
Small == {Bounds({1}, {1}, 2, 1, 2, 1, 0), Bounds({1}, {1}, 1, 0, 3, 0, 0),
          Bounds({1, 2}, {1, 2}, 3, 1, 1, 0, 1), Bounds({1, 2}, {1}, 3, 0, 1, 0, 0)}
=============================================================================
