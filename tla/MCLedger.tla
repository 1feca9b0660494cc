------------------------------ MODULE MCLedger ------------------------------
(* The ledger for TLC. *)
EXTENDS Ledger

CONSTANTS w1, f1, o1
=============================================================================
