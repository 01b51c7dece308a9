----------------------------- MODULE MCChatTurn -----------------------------
EXTENDS ChatTurn

Bounds(S, k, a, t, n, r, p, w, q) ==
  [sessions |-> S, kinds |-> k, keys |-> a, turns |-> t, steps |-> n,
   retries |-> r, prompts |-> p, writes |-> w, quits |-> q]

\* Two chats edit one file; a turn is retried while another program writes and
\* the owner may quit; a rule is added and cleared; a turn edits twice around
\* another program's write; prompts queue behind turns.
Small == {Bounds({1, 2}, {"edit"}, {"yes"}, 1, 1, 0, 2, 0, 0),
          Bounds({1}, {"edit", "shell"}, {"yes", "no"}, 1, 1, 1, 1, 1, 1),
          Bounds({1}, {"shell"}, {"always"}, 2, 1, 0, 3, 0, 1),
          Bounds({1}, {"edit"}, {"yes", "always"}, 1, 2, 0, 1, 1, 0),
          Bounds({1}, {"edit", "shell"}, {"yes", "no"}, 2, 1, 0, 3, 0, 0)}
=============================================================================
