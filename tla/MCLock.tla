------------------------------- MODULE MCLock -------------------------------
(* The strategy lock for TLC. *)
EXTENDS StrategyLock

CONSTANTS o1, o2, o3
=============================================================================
