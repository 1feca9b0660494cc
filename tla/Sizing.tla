------------------------------- MODULE Sizing -------------------------------
(***************************************************************************)
(* How large an order the strategy asks for (_build_buy_intent,            *)
(* _build_sell_intent), in units of base coin.                             *)
(***************************************************************************)
EXTENDS Integers

CONSTANTS
  WantedQtys,  \* what ORDER_QUOTE_USDT times the size multiplier may buy
  QtyCap,      \* what MAX_POSITION_QUOTE_USDT buys
  QtyStep      \* InstrumentSpec.qty_step

ASSUME SizingAssumption ==
  /\ WantedQtys \subseteq Nat
  /\ QtyCap \in Nat
  /\ QtyStep \in Nat \ {0}

Lower(a, b) == IF a <= b THEN a ELSE b

FloorToStep(q) == (q \div QtyStep) * QtyStep

\* Slip: the cap is forgotten.
UncappedBuyQtys == {FloorToStep(w) : w \in WantedQtys} \ {0}

\* A buy draft asks for what it wants up to the cap, rounded down to the step;
\* zero fails validation and the draft is a hold.
BuyQtys == {FloorToStep(Lower(w, QtyCap)) : w \in WantedQtys} \ {0}

\* Slip: an exit is rounded up ...
RoundedUpExitQty(q) == FloorToStep(q + QtyStep - 1)
\* ... or to the step below what is held, which may even be nothing.
ShortExitQty(q) == IF q > QtyStep THEN FloorToStep(q - 1) ELSE q
NoExitQty(q) == FloorToStep(q - 1)

\* An exit is rounded down to the step, unless that leaves nothing to sell.
ExitQty(q) == IF FloorToStep(q) > 0 THEN FloorToStep(q) ELSE q
=============================================================================
