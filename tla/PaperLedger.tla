---------------------------- MODULE PaperLedger -----------------------------
(***************************************************************************)
(* What the ledger of one symbol promises when nothing interferes: a book  *)
(* that holds at most one working order, and an inventory.  Each operation *)
(* happens at once and only to a working order, and an order's fate is     *)
(* final.                                                                  *)
(***************************************************************************)
EXTENDS Integers

CONSTANTS Orders, QtyCap

VARIABLES
  status,     \* of each order
  side,       \* of each order that was placed
  remaining,  \* what a working order has left to fill
  inventory

vars == <<status, side, remaining, inventory>>

Init ==
  /\ status = [o \in Orders |-> "NONE"]
  /\ side = [o \in Orders |-> "BUY"]
  /\ remaining = [o \in Orders |-> 0]
  /\ inventory = 0

Working == {o \in Orders : status[o] = "ACTIVE"}

\* A buy is placed on an empty inventory and within the cap, a sell is covered
\* by the inventory; nothing else is working but what the order replaces.
MayPlace(s, q) ==
  /\ q > 0
  /\ IF s = "BUY" THEN inventory = 0 /\ q <= QtyCap ELSE q <= inventory

Place(o, s, q) ==
  /\ Working = {}
  /\ status[o] = "NONE"
  /\ MayPlace(s, q)
  /\ status' = [status EXCEPT ![o] = "ACTIVE"]
  /\ side' = [side EXCEPT ![o] = s]
  /\ remaining' = [remaining EXCEPT ![o] = q]
  /\ UNCHANGED inventory

Replace(old, o, q) ==
  /\ Working = {old}
  /\ status[o] = "NONE"
  /\ MayPlace(side[old], q)
  /\ status' = [status EXCEPT ![old] = "REPLACED", ![o] = "ACTIVE"]
  /\ side' = [side EXCEPT ![o] = side[old]]
  /\ remaining' = [remaining EXCEPT ![old] = 0, ![o] = q]
  /\ UNCHANGED inventory

Stop(o, how) ==
  /\ o \in Working
  /\ status' = [status EXCEPT ![o] = how]
  /\ remaining' = [remaining EXCEPT ![o] = 0]
  /\ UNCHANGED <<side, inventory>>

Fill(o, q) ==
  /\ o \in Working
  /\ q \in 1..remaining[o]
  /\ remaining' = [remaining EXCEPT ![o] = @ - q]
  /\ status' = [status EXCEPT ![o] = IF q = remaining[o] THEN "FILLED" ELSE @]
  /\ inventory' = IF side[o] = "BUY" THEN inventory + q ELSE inventory - q
  /\ UNCHANGED side

Next ==
  \/ \E o \in Orders, s \in {"BUY", "SELL"} :
       \E q \in 1..(QtyCap + inventory) : Place(o, s, q)
  \/ \E old, o \in Orders : \E q \in 1..(QtyCap + inventory) : Replace(old, o, q)
  \/ \E o \in Orders, how \in {"EXPIRED", "CANCEL_REQUESTED"} : Stop(o, how)
  \/ \E o \in Orders : \E q \in 1..remaining[o] : Fill(o, q)

Spec == Init /\ [][Next]_vars
=============================================================================
