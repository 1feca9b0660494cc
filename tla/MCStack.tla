------------------------------ MODULE MCStack -------------------------------
(* The stack for TLC. *)
EXTENDS ShadowStack

CONSTANTS o1, o2
=============================================================================
