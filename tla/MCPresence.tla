----------------------------- MODULE MCPresence -----------------------------
(* Instances of Presence: u1 has one connection, u2 has as many as Conns   *)
(* leaves it.                                                              *)
EXTENDS Presence

CONSTANTS u1, u2, c1
MCUserOf == [c \in Conns |-> IF c = c1 THEN u1 ELSE u2]
=============================================================================
