----------------------------- MODULE MCSelection -----------------------------
(* Two terminals and two places, each with its repository.  Three choices, or *)
(* two and a fault or a conversation cleared; four of these in all while one  *)
(* terminal is at work.                                                       *)
EXTENDS Selection, TLC

CONSTANTS t1, t2, home, far, r1, r2

TheRepo == (home :> r1) @@ (far :> r2)

Nothing == [choices |-> {}, places |-> {}]

Events == Len(asked) + faults + (IF cleared = Nothing THEN 0 ELSE 1)

Few == \/ Events <= 3
       \/ /\ Events = 4
          /\ Cardinality({t \in Terminals : term[t].step # "out"}) <= 1

Symmetry == Permutations(Terminals)
=============================================================================
