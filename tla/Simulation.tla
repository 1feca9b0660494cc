----------------------------- MODULE Simulation -----------------------------
(***************************************************************************)
(* One simulated run of the strategy over past market data:                *)
(* MarketReplayRunner.run_file over recorded events and                    *)
(* CandleBacktestRunner.run over candles.  Both keep an account and one    *)
(* slot per side for the working intent; per event they fill, expire and   *)
(* then perhaps decide.                                                    *)
(*                                                                         *)
(* Money is counted exactly, in units of 1/FeeUnit of the quote currency   *)
(* per unit of price, so that a fee is a whole number of them.  The marks  *)
(* to market and the statistics of the report are left out.                *)
(***************************************************************************)
EXTENDS Sizing

CONSTANTS
  Runners,       \* "replay", "backtest": what may run
  FillModels,    \* "touch", "trade_through": how it may be configured
  ForceClose,
  InitialQuote,
  FeeUnit,       \* 10 000 basis points
  FeeRate,       \* maker_fee_bps
  Prices,        \* bound: prices of trades, candles and limits
  Ttls,          \* ttl_seconds of a decision (0: none)
  WallClock,     \* the time at which the run is made
  MaxTime,       \* bound: times of the recorded market
  MaxItems,      \* bound: trades in a message
  MaxEvents      \* bound: events of the recording

ASSUME SimulationAssumption ==
  /\ Runners \subseteq {"replay", "backtest"}
  /\ FillModels \subseteq {"touch", "trade_through"}
  /\ ForceClose \in BOOLEAN
  /\ InitialQuote \in Nat
  /\ FeeUnit \in Nat \ {0}
  /\ FeeRate \in 0..FeeUnit
  /\ Prices \subseteq Nat \ {0}
  /\ Ttls \subseteq Nat
  /\ WallClock \in Nat
  /\ MaxTime \in Nat
  /\ MaxItems \in Nat
  /\ MaxEvents \in Nat

VARIABLES
  runner,  \* what runs ...
  model,   \* ... with which fill model
  phase,   \* "next" event, its "fills", its "decision", "done"
  now,     \* the time of the event
  events,  \* how many were read
  items,   \* how many trades or candles of the event were applied
  slots,   \* active_buy and active_sell
  acct,    \* the account
  nextId   \* the next intent name

config == <<runner, model>>
vars == <<config, phase, now, events, items, slots, acct, nextId>>

Sides == {"BUY", "SELL"}
Times == 0..MaxTime
Never == -1   \* position_opened_at and expires_at may be None

\* ReplayIntent, BacktestIntent; risk is the decision's risk_exit.  An intent
\* that replaces another has its id.
Intent == [id : Nat \ {0}, price : Nat \ {0}, qty : Nat \ {0}, created : Nat,
           expires : Nat \cup {Never}, risk : BOOLEAN]
None == [id |-> 0, price |-> 0, qty |-> 0, created |-> 0, expires |-> Never,
         risk |-> FALSE]

\* base_qty, avg_entry, pending_entry_cost, closed_trade_pnls added up,
\* position_opened_at, and the ids of the intents filled so far.
Account == [cash : Int, base : Int, avg : Nat, pending : Int, pnls : Int,
            openedAt : Nat \cup {Never}, fills : SUBSET Nat]

Init ==
  /\ runner \in Runners /\ model \in FillModels
  /\ phase = "next"
  /\ now = 0
  /\ events = 0
  /\ items = 0
  /\ slots = [s \in Sides |-> None]
  /\ acct = [cash |-> InitialQuote, base |-> 0, avg |-> 0, pending |-> 0, pnls |-> 0,
             openedAt |-> Never, fills |-> {}]
  /\ nextId = 1

-----------------------------------------------------------------------------
(* Fills *)

\* What the market did at one instant: a trade (low = high, with the side of
\* its aggressor if known) or a whole candle.
Trades == {[at |-> t, low |-> p, high |-> p, aggressor |-> a] :
             t \in Times, p \in Prices, a \in Sides \cup {"NONE"}}
Candles == {c \in [at : Times, low : Prices, high : Prices, aggressor : {"NONE"}] :
              c.low <= c.high}

BuyReached(i, x) ==
  /\ x.aggressor # "BUY"
  /\ IF model = "trade_through" THEN x.low < i.price ELSE x.low <= i.price
SellReached(i, x) ==
  /\ x.aggressor # "SELL"
  /\ IF model = "trade_through" THEN x.high > i.price ELSE x.high >= i.price

\* An intent is filled by what happens after it was created.
Touched(side, x) ==
  LET i == slots[side] IN
  /\ i # None
  /\ i.created < x.at
  /\ IF side = "BUY" THEN BuyReached(i, x) ELSE SellReached(i, x)

Gross(price, q) == FeeUnit * price * q
Fee(price, q) == FeeRate * price * q
Cost(i) == Gross(i.price, i.qty) + Fee(i.price, i.qty)

\* Slip: a buy is not limited by the cash at hand.
AlwaysAffordable(i) == i \in Intent
Affordable(i) == acct.cash >= Cost(i)

\* Slip: the fee of the entry is not part of its cost.
FeelessEntryCost(i) == Gross(i.price, i.qty)
EntryCost(i) == Cost(i)

\* The account after a buy.
Bought(i, at) ==
  [acct EXCEPT !.cash = @ - Cost(i),
               !.base = @ + i.qty,
               !.avg = (acct.avg * acct.base + i.price * i.qty) \div (acct.base + i.qty),
               !.pending = @ + EntryCost(i),
               !.openedAt = IF @ = Never THEN at ELSE @,
               !.fills = @ \cup {i.id}]

\* The entry cost that a sale of q out of account a's position releases.
Released(a, q) == IF q = a.base THEN a.pending ELSE (a.pending * q) \div a.base

\* Slip: the opening time of a closed position is kept.
OpeningKept(a, left) == IF left < 0 THEN Never ELSE a.openedAt
OpeningAfter(a, left) == IF left = 0 THEN Never ELSE a.openedAt

\* An account a after the sale of q; an empty position costs nothing.
Sold(a, q, price, id) ==
  LET left == a.base - q
      proceeds == Gross(price, q) - Fee(price, q)
  IN [a EXCEPT !.cash = @ + proceeds,
               !.base = left,
               !.avg = IF left = 0 THEN 0 ELSE @,
               !.pending = IF left = 0 THEN 0 ELSE @ - Released(a, q),
               !.pnls = @ + proceeds - Released(a, q),
               !.openedAt = OpeningAfter(a, left),
               !.fills = @ \cup {id}]

\* Slip: the slot of a filled buy is not emptied.
BuyLeft(side, filled) == IF filled /\ side = "SELL" THEN None ELSE slots[side]
\* What is left in a slot.
Left(side, filled) == IF filled THEN None ELSE slots[side]

\* _simulate_trade_fills, _simulate_fills_for_candle: the buy first, then the
\* sell of what is held by then.
ApplyFills(x) ==
  LET sell == slots["SELL"]
      fillsBuy == Touched("BUY", x) /\ Affordable(slots["BUY"])
      a == IF fillsBuy THEN Bought(slots["BUY"], x.at) ELSE acct
      fillsSell == Touched("SELL", x) /\ a.base > 0
  IN /\ acct' = IF fillsSell THEN Sold(a, Lower(sell.qty, a.base), sell.price, sell.id)
                             ELSE a
     /\ slots' = [s \in Sides |-> Left(s, IF s = "BUY" THEN fillsBuy ELSE fillsSell)]

-----------------------------------------------------------------------------
(* The run *)

\* The next event of the recording; candles are sorted and of different times,
\* recorded events need not be.
ReadEvent ==
  /\ phase = "next" /\ events < MaxEvents
  /\ now' \in {t \in Times : runner = "backtest" /\ events > 0 => t > now}
  /\ phase' = "fills"
  /\ events' = events + 1
  /\ items' = 0
  /\ UNCHANGED <<config, slots, acct, nextId>>

\* A trade of the message, at the message's time or before.
ReplayTrade(x) ==
  /\ runner = "replay"
  /\ phase = "fills" /\ items < MaxItems
  /\ x.at <= now
  /\ items' = items + 1
  /\ ApplyFills(x)
  /\ UNCHANGED <<config, phase, now, events, nextId>>

RunCandle(x) ==
  /\ runner = "backtest"
  /\ phase = "fills" /\ items = 0
  /\ x.at = now
  /\ items' = 1
  /\ ApplyFills(x)
  /\ UNCHANGED <<config, phase, now, events, nextId>>

Expired(i) == i.expires # Never /\ i.expires <= now

\* _expire_if_needed, on both slots.
Expire ==
  /\ phase = "fills"
  /\ runner = "backtest" => items = 1
  /\ phase' = "decision"
  /\ slots' = [s \in Sides |-> IF Expired(slots[s]) THEN None ELSE slots[s]]
  /\ UNCHANGED <<config, now, events, items, acct, nextId>>

\* Too early for a decision: the book is not there, too few candles were built
\* or the evaluation interval has not elapsed.
Skip ==
  /\ runner = "replay"
  /\ phase = "decision"
  /\ phase' = "next"
  /\ UNCHANGED <<config, now, events, items, slots, acct, nextId>>

Decided ==
  /\ phase = "decision"
  /\ phase' = "next"
  /\ UNCHANGED <<config, now, events, items, acct>>

HoldBack == Decided /\ UNCHANGED <<slots, nextId>>

\* SignalDecision.ts is the wall clock; the replay uses its event's time
\* instead, the backtest does not.
DecisionTime == IF runner = "replay" THEN now ELSE WallClock

\* BUY_INTENT, SELL_INTENT, REPRICE_INTENT: the slot holds the new intent.
Place(side, price, q, risk) ==
  LET old == slots[side] IN
  /\ \E ttl \in Ttls :
       slots' = [slots EXCEPT ![side] =
                   [id |-> IF old = None THEN nextId ELSE old.id,
                    price |-> price, qty |-> q, created |-> DecisionTime,
                    expires |-> IF ttl = 0 THEN Never ELSE DecisionTime + ttl,
                    risk |-> risk]]
  /\ nextId' = IF old = None THEN nextId + 1 ELSE nextId

Holding == acct.base > 0 /\ acct.avg > 0

\* A buy draft, or one at another price than the active buy's.
DecideBuy ==
  /\ Decided
  /\ ~Holding /\ slots["SELL"] = None
  /\ \E p \in Prices \ {slots["BUY"].price}, q \in BuyQtys : Place("BUY", p, q, FALSE)

\* Slip: a target that covers the price but not the fees.
FeelessTarget(p) == p > acct.avg

\* A target at or above maker_roundtrip_break_even_bps over the entry, where
\* 1 / ((1 - fee) * (1 - fee)) of the entry's price breaks even.
TargetMet(p) ==
  p * (FeeUnit - FeeRate) * (FeeUnit - FeeRate) >= acct.avg * FeeUnit * FeeUnit

\* An exit of the whole position: at a target, or at any price if the risk
\* limits say so.
DecideSell ==
  /\ Decided
  /\ Holding /\ slots["BUY"] = None
  /\ \E p \in Prices \ {slots["SELL"].price}, risk \in BOOLEAN :
       /\ risk \/ TargetMet(p)
       /\ Place("SELL", p, ExitQty(acct.base), risk)

\* The side that no longer fits the position is cancelled; so is a buy whose
\* draft is a hold.
MayCancel(side) ==
  IF side = "BUY" THEN Holding \/ slots["SELL"] = None ELSE ~Holding

DecideCancel(side) ==
  /\ Decided
  /\ slots[side] # None
  /\ MayCancel(side)
  /\ slots' = [slots EXCEPT ![side] = None]
  /\ UNCHANGED nextId

\* A hold is not an answer to an intent that no longer fits.
DecideHold ==
  /\ ~(Holding /\ slots["BUY"] # None)
  /\ ~(~Holding /\ slots["SELL"] # None)
  /\ HoldBack

\* The end of the data: an open position is sold at the last price.
Finish ==
  /\ phase = "next" /\ events > 0
  /\ phase' = "done"
  /\ IF ForceClose /\ acct.base > 0
       THEN \E p \in Prices : acct' = Sold(acct, acct.base, p, 0)
       ELSE UNCHANGED acct
  /\ UNCHANGED <<config, now, events, items, slots, nextId>>

Next ==
  \/ ReadEvent \/ Expire \/ Skip \/ DecideBuy \/ DecideSell \/ DecideHold \/ Finish
  \/ \E x \in Trades : ReplayTrade(x)
  \/ \E x \in Candles : RunCandle(x)
  \/ \E side \in Sides : DecideCancel(side)

Spec == Init /\ [][Next]_vars

-----------------------------------------------------------------------------
(* Properties *)

\* The run's account and intents are well formed: every intent in a slot has a
\* quantity and a price above zero.
TypeOK ==
  /\ runner \in Runners /\ model \in FillModels
  /\ phase \in {"next", "fills", "decision", "done"}
  /\ now \in Times
  /\ events \in 0..MaxEvents
  /\ items \in Nat
  /\ slots \in [Sides -> Intent \cup {None}]
  /\ acct \in Account
  /\ nextId \in Nat \ {0}

\* The report adds up: the cash is what the run began with, plus the profit of
\* the closed trades, less the cost of what is still held.  So the realized
\* result that the report takes from the cash is that of its fills.
AccountBalanced ==
  /\ acct.cash = InitialQuote + acct.pnls - acct.pending
  /\ acct.base = 0 => acct.pending = 0

\* The simulated account is never overdrawn and never short.
NeverOverdrawn == acct.cash >= 0 /\ acct.base >= 0

\* position_opened_at, on which the age limit of a position rests, is there
\* exactly as long as the position.
OpenedWithPosition == acct.base > 0 <=> acct.openedAt # Never

\* No intent is filled twice, though a reprice hands its id on: the intent that
\* works under an id has not been filled under it.
FilledOnce == \A s \in Sides : slots[s] # None => slots[s].id \notin acct.fills

\* A round trip is one buy and one sell: no buy adds to a position, whatever
\* the market does between two decisions, and every sell closes its position.
OneRoundTrip ==
  [][/\ acct'.base > acct.base => acct.base = 0
     /\ acct'.base < acct.base => acct'.base = 0]_vars

\* An exit at the target, fees of both sides paid, is not a loss: whatever
\* happened to the slot since, the target was taken from this very position.
TargetExitProfits ==
  [][/\ slots["SELL"] # None /\ ~slots["SELL"].risk
     /\ slots'["SELL"] = None /\ acct'.base < acct.base
     => acct'.pnls >= acct.pnls]_vars

\* A candle that reaches the limit of an intent decided on an earlier candle
\* fills it if the cash suffices.
TouchedBuyFills ==
  [][\A x \in Candles :
       /\ RunCandle(x)
       /\ slots["BUY"] # None
       /\ BuyReached(slots["BUY"], x) /\ Affordable(slots["BUY"])
       => slots'["BUY"] = None]_vars
=============================================================================
