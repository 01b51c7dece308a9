------------------------------- MODULE MCWork -------------------------------
(* A small instance of Work for TLC. *)
EXTENDS Work
=============================================================================
