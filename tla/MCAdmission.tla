---------------------------- MODULE MCAdmission ----------------------------
(* Small instances of Admission for TLC. *)
EXTENDS Admission

\* Two clients that are alike and another one.
CONSTANTS one, two, other

\* A foreground and a background request at one capacity.
OneSlot == [c \in {one, other} |-> 1]

\* The other client's process was started with another capacity.
MixedSlots == [c \in Clients |-> IF c = other THEN 2 ELSE 1]

Setup(slots, died, failed) ==
    [wanted |-> slots, crashes |-> died, failures |-> failed]

Both == {Setup(OneSlot, 1, 0), Setup(MixedSlots, 1, 1)}

=============================================================================
