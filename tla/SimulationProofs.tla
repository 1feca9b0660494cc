-------------------------- MODULE SimulationProofs --------------------------
(***************************************************************************)
(* Theorems about the simulated account, for every recording, price, size, *)
(* fee and sequence of decisions.                                          *)
(***************************************************************************)
EXTENDS Simulation, TLAPS

\* Rounding down to the step yields a quantity.
LEMMA FloorType ==
  ASSUME NEW q \in Nat
  PROVE  FloorToStep(q) \in Nat
<1>1. QtyStep \in Nat \ {0}
  BY SizingAssumption
<1>2. q \div QtyStep \in Nat
  BY <1>1
<1> QED
  BY <1>1, <1>2 DEF FloorToStep

\* Every order a buy draft may become has a quantity.
LEMMA BuyQtysType == BuyQtys \subseteq Nat
<1> SUFFICES ASSUME NEW w \in WantedQtys
             PROVE  FloorToStep(Lower(w, QtyCap)) \in Nat
  BY DEF BuyQtys
<1>1. Lower(w, QtyCap) \in Nat
  BY SizingAssumption DEF Lower
<1> QED
  BY <1>1, FloorType

\* An account whose books are in order.
Sound(a) ==
  /\ a \in Account
  /\ a.base >= 0 /\ a.cash >= 0
  /\ a.cash = InitialQuote + a.pnls - a.pending
  /\ a.base = 0 => a.pending = 0
  /\ a.base > 0 <=> a.openedAt # Never

SimInv == TypeOK /\ Sound(acct)

-----------------------------------------------------------------------------
(* The operators *)

\* A fee is at most what it is a fee of.
LEMMA FeeWithinGross ==
  ASSUME NEW price \in Nat, NEW q \in Nat
  PROVE  /\ Gross(price, q) \in Nat /\ Fee(price, q) \in Nat
         /\ Fee(price, q) <= Gross(price, q)
<1> DEFINE notional == price * q
<1>1. notional \in Nat
  OBVIOUS
<1>2. FeeUnit * notional \in Nat /\ FeeRate * notional \in Nat
  BY <1>1, SimulationAssumption
<1>3. FeeRate * notional <= FeeUnit * notional
  <2>1. FeeUnit - FeeRate \in Nat
    BY SimulationAssumption
  <2>2. (FeeUnit - FeeRate) * notional \in Nat
    BY <1>1, <2>1
  <2>3. (FeeUnit - FeeRate) * notional = FeeUnit * notional - FeeRate * notional
    BY <1>1, SimulationAssumption
  <2> HIDE DEF notional
  <2> QED
    BY <1>2, <2>2, <2>3
<1>4. Gross(price, q) = FeeUnit * notional /\ Fee(price, q) = FeeRate * notional
  BY SimulationAssumption DEF Gross, Fee
<1> QED
  BY <1>2, <1>3, <1>4

\* A quotient of a quantity by a positive quantity is one.
LEMMA QuotientType ==
  ASSUME NEW n \in Int, NEW d \in Nat \ {0}
  PROVE  n \div d \in Int /\ (n >= 0 => n \div d \in Nat)
  OBVIOUS

\* Account a with other amounts, and one more intent filled.
WithAmounts(a, cash, base, avg, pending, pnls, opened, id) ==
  [a EXCEPT !.cash = cash, !.base = base, !.avg = avg, !.pending = pending,
            !.pnls = pnls, !.openedAt = opened, !.fills = a.fills \cup {id}]

HasAmounts(a, cash, base, pending, pnls, opened) ==
  /\ a.cash = cash /\ a.base = base
  /\ a.pending = pending /\ a.pnls = pnls
  /\ a.openedAt = opened

LEMMA WithAmountsType ==
  ASSUME NEW a \in Account, NEW cash \in Int, NEW base \in Int, NEW avg \in Nat,
         NEW pending \in Int, NEW pnls \in Int, NEW opened \in Nat \cup {Never},
         NEW id \in Nat
  PROVE  LET b == WithAmounts(a, cash, base, avg, pending, pnls, opened, id)
         IN  b \in Account /\ HasAmounts(b, cash, base, pending, pnls, opened)
<1>1. a.fills \cup {id} \in SUBSET Nat
  BY DEF Account
<1> QED
  BY <1>1 DEF Account, WithAmounts, HasAmounts

\* Buying what the cash affords keeps the books in order.
LEMMA BoughtSound ==
  ASSUME Sound(acct), NEW i \in Intent, NEW at \in Nat, Affordable(i)
  PROVE  Sound(Bought(i, at)) /\ Bought(i, at).base > 0
<1> DEFINE b == Bought(i, at)
           cost == Cost(i)
           weight == acct.avg * acct.base + i.price * i.qty
           avg == weight \div (acct.base + i.qty)
           opened == IF acct.openedAt = Never THEN at ELSE acct.openedAt
<1>1. i.price \in Nat /\ i.qty \in Nat \ {0} /\ i.id \in Nat
  BY DEF Intent
<1>2. /\ acct \in Account
      /\ acct.cash \in Int /\ acct.base \in Nat /\ acct.avg \in Nat
      /\ acct.pending \in Int /\ acct.pnls \in Int
      /\ acct.openedAt \in Nat \cup {Never}
  BY DEF Sound, Account
<1>3. cost \in Nat /\ cost <= acct.cash /\ EntryCost(i) = cost
  <2>1. cost \in Nat
    <3>1. Gross(i.price, i.qty) \in Nat /\ Fee(i.price, i.qty) \in Nat
      BY <1>1, FeeWithinGross
    <3> QED
      BY <3>1 DEF Cost
  <2> QED
    BY <1>2, <2>1 DEF Affordable, EntryCost
<1>4. avg \in Nat
  <2>1. acct.avg * acct.base \in Nat /\ i.price * i.qty \in Nat
    BY <1>1, <1>2
  <2>2. weight \in Nat /\ acct.base + i.qty \in Nat \ {0}
    BY <1>1, <1>2, <2>1
  <2> HIDE DEF weight
  <2> QED
    BY <2>2, QuotientType
<1>5. opened \in Nat \cup {Never}
  BY <1>2
<1>6. b = WithAmounts(acct, acct.cash - cost, acct.base + i.qty, avg,
                     acct.pending + cost, acct.pnls, opened, i.id)
  <2>1. b = [acct EXCEPT !.cash = acct.cash - cost,
                         !.base = acct.base + i.qty,
                         !.avg = avg,
                         !.pending = acct.pending + cost,
                         !.openedAt = opened,
                         !.fills = acct.fills \cup {i.id}]
    BY <1>3 DEF Bought
  <2> HIDE DEF b, cost, avg, opened
  <2> QED
    BY <1>2, <2>1 DEF Account, WithAmounts
<1> HIDE DEF b, cost, avg, opened
<1>7. /\ b \in Account
      /\ b.cash = acct.cash - cost /\ b.base = acct.base + i.qty
      /\ b.pending = acct.pending + cost /\ b.pnls = acct.pnls
      /\ b.openedAt = opened
  <2> DEFINE cash == acct.cash - cost
             base == acct.base + i.qty
             pending == acct.pending + cost
  <2>1. cash \in Int /\ base \in Int /\ pending \in Int
    BY <1>1, <1>2, <1>3
  <2>2. b = WithAmounts(acct, cash, base, avg, pending, acct.pnls, opened, i.id)
    BY <1>6
  <2> HIDE DEF cash, base, pending
  <2>3. b \in Account /\ HasAmounts(b, cash, base, pending, acct.pnls, opened)
    BY <1>1, <1>2, <1>4, <1>5, <2>1, <2>2, WithAmountsType, Zenon
  <2> QED
    BY <2>3 DEF HasAmounts, cash, base, pending
<1>8. b.cash >= 0 /\ b.base > 0 /\ b.cash = InitialQuote + b.pnls - b.pending
  BY <1>1, <1>2, <1>3, <1>7, SimulationAssumption DEF Sound
<1>9. Sound(b) /\ b.base > 0
  <2>1. b.base \in Int /\ b.base >= 0 /\ b.base # 0
    BY <1>1, <1>2, <1>7
  <2>2. opened # Never
    BY DEF opened, Never
  <2> QED
    BY <1>7, <1>8, <2>1, <2>2 DEF Sound
<1> QED
  BY <1>9 DEF b

\* So does selling some of what is held, at any price.
LEMMA SoldSound ==
  ASSUME NEW a, Sound(a), NEW q \in 1..a.base, NEW price \in Nat, NEW id \in Nat
  PROVE  Sound(Sold(a, q, price, id))
<1> DEFINE left == a.base - q
           proceeds == Gross(price, q) - Fee(price, q)
           rel == Released(a, q)
           avg == IF left = 0 THEN 0 ELSE a.avg
           pending == IF left = 0 THEN 0 ELSE a.pending - rel
           opened == OpeningAfter(a, left)
           s == Sold(a, q, price, id)
<1>1. /\ a \in Account
      /\ a.cash \in Int /\ a.base \in Nat /\ a.avg \in Nat
      /\ a.pending \in Int /\ a.pnls \in Int
      /\ a.openedAt \in Nat \cup {Never}
  BY DEF Sound, Account
<1>2. a.base \in Nat \ {0} /\ q \in Nat /\ left \in Nat
  BY <1>1
<1>3. rel \in Int /\ (left = 0 => rel = a.pending)
  <2>1. a.pending * q \in Int
    BY <1>1, <1>2
  <2>2. (a.pending * q) \div a.base \in Int
    BY <1>2, <2>1, QuotientType
  <2> QED
    BY <1>1, <1>2, <2>2 DEF Released
<1>4. proceeds \in Nat
  <2>1. /\ Gross(price, q) \in Nat /\ Fee(price, q) \in Nat
        /\ Fee(price, q) <= Gross(price, q)
    BY <1>2, FeeWithinGross
  <2> QED
    BY <2>1
<1>5. s = WithAmounts(a, a.cash + proceeds, left, avg, pending,
                     a.pnls + proceeds - rel, opened, id)
  BY DEF Sold, WithAmounts
<1>6. opened \in Nat \cup {Never}
  BY <1>1 DEF OpeningAfter
<1> HIDE DEF proceeds, rel, opened, s
<1>7. avg \in Nat /\ pending \in Int
  BY <1>1, <1>3
<1>8. /\ a.cash + proceeds \in Int /\ left \in Int
      /\ a.pnls + proceeds - rel \in Int
  BY <1>1, <1>2, <1>3, <1>4
<1> HIDE DEF left, avg, pending
<1>9. /\ s \in Account
      /\ s.cash = a.cash + proceeds /\ s.base = left /\ s.pending = pending
      /\ s.pnls = a.pnls + proceeds - rel
      /\ s.openedAt = opened
  <2> DEFINE cash == a.cash + proceeds
             pnls == a.pnls + proceeds - rel
  <2>1. cash \in Int /\ pnls \in Int
    BY <1>8
  <2>2. s = WithAmounts(a, cash, left, avg, pending, pnls, opened, id)
    BY <1>5
  <2> HIDE DEF cash, pnls
  <2>3. s \in Account /\ HasAmounts(s, cash, left, pending, pnls, opened)
    BY <1>1, <1>6, <1>7, <1>8, <2>1, <2>2, WithAmountsType, Zenon
  <2> QED
    BY <2>3 DEF HasAmounts, cash, pnls
<1>10. s.cash = InitialQuote + s.pnls - s.pending
  BY <1>1, <1>3, <1>4, <1>9, SimulationAssumption DEF Sound, pending
<1>11. s.cash >= 0 /\ s.base >= 0 /\ (s.base = 0 => s.pending = 0)
  BY <1>1, <1>2, <1>4, <1>9 DEF Sound, pending
<1>12. s.base > 0 <=> s.openedAt # Never
  <2>1. a.openedAt # Never
    BY <1>2 DEF Sound
  <2>2. opened = Never <=> left = 0
    BY <2>1 DEF opened, OpeningAfter
  <2>3. left \in Nat
    BY <1>2 DEF left
  <2> QED
    BY <1>9, <2>2, <2>3
<1>13. Sound(s)
  BY <1>9, <1>10, <1>11, <1>12 DEF Sound
<1> QED
  BY <1>13 DEF s

\* A trade or candle keeps the books in order and leaves only what was working.
LEMMA FillsSound ==
  ASSUME SimInv, NEW x, x.at \in Nat, ApplyFills(x)
  PROVE  Sound(acct') /\ slots' \in [Sides -> Intent \cup {None}]
<1> DEFINE buy == slots["BUY"]
           sell == slots["SELL"]
           fillsBuy == Touched("BUY", x) /\ Affordable(buy)
           a == IF fillsBuy THEN Bought(buy, x.at) ELSE acct
           fillsSell == Touched("SELL", x) /\ a.base > 0
           q == Lower(sell.qty, a.base)
<1>1. buy \in Intent \cup {None} /\ sell \in Intent \cup {None}
  BY DEF SimInv, TypeOK, Sides
<1>2. Sound(a)
  BY <1>1, BoughtSound DEF SimInv, Touched
<1>3. fillsSell => q \in 1..a.base /\ sell.price \in Nat /\ sell.id \in Nat
  <2> SUFFICES ASSUME fillsSell
               PROVE  q \in 1..a.base /\ sell.price \in Nat /\ sell.id \in Nat
    OBVIOUS
  <2>1. sell \in Intent
    BY <1>1 DEF Touched
  <2>2. sell.qty \in Nat \ {0} /\ a.base \in Nat \ {0}
    <3> HIDE DEF a
    <3> QED
      BY <1>2, <2>1 DEF Intent, Sound, Account
  <2> HIDE DEF a, sell
  <2> QED
    BY <2>1, <2>2 DEF Lower, Intent
<1>4. Sound(acct')
  <2>1. acct' = IF fillsSell THEN Sold(a, q, sell.price, sell.id) ELSE a
    BY DEF ApplyFills
  <2> HIDE DEF a, q, fillsSell, sell
  <2> QED
    BY <1>2, <1>3, <2>1, SoldSound
<1>5. slots' \in [Sides -> Intent \cup {None}]
  <2>1. \A f : \A s \in Sides : Left(s, f) \in Intent \cup {None}
    BY DEF Left, SimInv, TypeOK
  <2>2. slots' = [s \in Sides |-> Left(s, IF s = "BUY" THEN fillsBuy ELSE fillsSell)]
    BY DEF ApplyFills
  <2> HIDE DEF fillsBuy, fillsSell
  <2> QED
    BY <2>1, <2>2
<1> QED
  BY <1>4, <1>5

-----------------------------------------------------------------------------
(* The run *)

LEMMA InitSound == Init => SimInv
<1> SUFFICES ASSUME Init PROVE SimInv
  OBVIOUS
<1>1. TypeOK
  BY SimulationAssumption DEF Init, TypeOK, Times, Account, Never
<1>2. Sound(acct)
  BY SimulationAssumption DEF Init, Sound, Account, Never
<1> QED
  BY <1>1, <1>2 DEF SimInv

\* A decision puts a well-formed intent into its slot.
LEMMA PlaceType ==
  ASSUME SimInv, NEW side \in Sides, NEW price \in Prices, NEW q \in Nat \ {0},
         NEW risk \in BOOLEAN, Place(side, price, q, risk)
  PROVE  slots' \in [Sides -> Intent \cup {None}] /\ nextId' \in Nat \ {0}
<1>1. DecisionTime \in Nat
  BY SimulationAssumption DEF DecisionTime, SimInv, TypeOK, Times
<1>2. price \in Nat \ {0}
  BY SimulationAssumption
<1>3. slots[side] \in Intent \cup {None}
  BY DEF SimInv, TypeOK
<1>4. nextId \in Nat \ {0}
  BY DEF SimInv, TypeOK
<1> DEFINE id == IF slots[side] = None THEN nextId ELSE slots[side].id
<1>5. id \in Nat \ {0}
  BY <1>3, <1>4 DEF Intent
<1>6. PICK ttl \in Ttls :
        slots' = [slots EXCEPT ![side] =
                    [id |-> id, price |-> price, qty |-> q, created |-> DecisionTime,
                     expires |-> IF ttl = 0 THEN Never ELSE DecisionTime + ttl,
                     risk |-> risk]]
  BY DEF Place
<1>7. (IF ttl = 0 THEN Never ELSE DecisionTime + ttl) \in Nat \cup {Never}
  BY <1>1, SimulationAssumption
<1> HIDE DEF id
<1>8. slots' \in [Sides -> Intent \cup {None}]
  BY <1>1, <1>2, <1>5, <1>6, <1>7 DEF SimInv, TypeOK, Intent
<1>9. nextId' \in Nat \ {0}
  BY <1>4 DEF Place
<1> QED
  BY <1>8, <1>9

LEMMA NextSound == SimInv /\ [Next]_vars => SimInv'
<1> SUFFICES ASSUME SimInv, [Next]_vars
             PROVE  SimInv'
  OBVIOUS
\* A run does not change its configuration.
<1>0. (runner \in Runners /\ model \in FillModels)'
  BY DEF Next, ReadEvent, ReplayTrade, RunCandle, Expire, Skip, Decided, HoldBack, DecideBuy,
         DecideSell, DecideHold, DecideCancel, Finish, vars, config, SimInv, TypeOK
<1>1. ASSUME NEW x \in Trades, ReplayTrade(x)
      PROVE  SimInv'
  <2>1. x.at \in Nat
    BY DEF Trades, Times
  <2>2. Sound(acct') /\ slots' \in [Sides -> Intent \cup {None}]
    BY <1>1, <2>1, FillsSound DEF ReplayTrade
  <2> QED
    BY <1>0, <1>1, <2>2 DEF SimInv, TypeOK, ReplayTrade, Sound
<1>2. ASSUME NEW x \in Candles, RunCandle(x)
      PROVE  SimInv'
  <2>1. x.at \in Nat
    BY DEF Candles, Times
  <2>2. Sound(acct') /\ slots' \in [Sides -> Intent \cup {None}]
    BY <1>2, <2>1, FillsSound DEF RunCandle
  <2> QED
    BY <1>0, <1>2, <2>2 DEF SimInv, TypeOK, RunCandle, Sound
<1>3. CASE ReadEvent
  BY <1>0, <1>3, SimulationAssumption DEF ReadEvent, SimInv, TypeOK, Sound
<1>4. CASE Expire
  <2>1. slots' \in [Sides -> Intent \cup {None}]
    BY <1>4 DEF Expire, SimInv, TypeOK
  <2> QED
    BY <1>0, <1>4, <2>1 DEF Expire, SimInv, TypeOK, Sound
<1>5. CASE Skip \/ DecideHold
  BY <1>0, <1>5 DEF Skip, DecideHold, HoldBack, Decided, SimInv, TypeOK, Sound
<1>6. CASE DecideBuy
  <2>1. PICK p \in Prices, q \in BuyQtys : Place("BUY", p, q, FALSE)
    BY <1>6 DEF DecideBuy
  <2>2. q \in Nat \ {0}
    BY BuyQtysType DEF BuyQtys
  <2>3. slots' \in [Sides -> Intent \cup {None}] /\ nextId' \in Nat \ {0}
    BY <2>1, <2>2, PlaceType DEF Sides
  <2> QED
    BY <1>0, <1>6, <2>3 DEF DecideBuy, Decided, SimInv, TypeOK, Sound
<1>7. CASE DecideSell
  <2>1. PICK p \in Prices, risk \in BOOLEAN :
          Place("SELL", p, ExitQty(acct.base), risk)
    BY <1>7 DEF DecideSell
  <2>2. acct.base \in Nat \ {0}
    BY <1>7 DEF DecideSell, Holding, SimInv, Sound, Account
  <2>3. ExitQty(acct.base) \in Nat \ {0}
    BY <2>2, FloorType DEF ExitQty
  <2>4. slots' \in [Sides -> Intent \cup {None}] /\ nextId' \in Nat \ {0}
    BY <2>1, <2>3, PlaceType DEF Sides
  <2> QED
    BY <1>0, <1>7, <2>4 DEF DecideSell, Decided, SimInv, TypeOK, Sound
<1>8. ASSUME NEW side \in Sides, DecideCancel(side)
      PROVE  SimInv'
  <2>1. slots' \in [Sides -> Intent \cup {None}]
    BY <1>8 DEF DecideCancel, SimInv, TypeOK
  <2> QED
    BY <1>0, <1>8, <2>1 DEF DecideCancel, Decided, SimInv, TypeOK, Sound
<1>9. CASE Finish
  <2>1. Sound(acct')
    <3>1. CASE ForceClose /\ acct.base > 0
      <4>1. PICK p \in Prices : acct' = Sold(acct, acct.base, p, 0)
        BY <1>9, <3>1 DEF Finish
      <4>2. acct.base \in 1..acct.base /\ p \in Nat
        BY <3>1, SimulationAssumption DEF SimInv, Sound, Account
      <4> QED
        BY <4>1, <4>2, SoldSound DEF SimInv
    <3>2. CASE ~(ForceClose /\ acct.base > 0)
      BY <1>9, <3>2 DEF Finish, SimInv
    <3> QED
      BY <3>1, <3>2
  <2> QED
    BY <1>0, <1>9, <2>1 DEF Finish, SimInv, TypeOK, Sound
<1>10. CASE UNCHANGED vars
  BY <1>0, <1>10 DEF vars, SimInv, TypeOK, Sound
<1> QED
  BY <1>1, <1>2, <1>3, <1>4, <1>5, <1>6, <1>7, <1>8, <1>9, <1>10 DEF Next

\* The account and the intents of a run are well formed.
THEOREM TypeCorrect == Spec => []TypeOK
<1>1. SimInv => TypeOK
  BY DEF SimInv
<1> QED
  BY <1>1, InitSound, NextSound, PTL DEF Spec

\* The report of every run adds up: nothing is earned or lost between the cash,
\* the cost of the position and the profit of the closed trades.
THEOREM AlwaysBalanced == Spec => []AccountBalanced
<1>1. SimInv => AccountBalanced
  BY DEF SimInv, Sound, AccountBalanced
<1> QED
  BY <1>1, InitSound, NextSound, PTL DEF Spec

\* The age of a position is known exactly as long as there is one.
THEOREM AgeKnown == Spec => []OpenedWithPosition
<1>1. SimInv => OpenedWithPosition
  BY DEF SimInv, Sound, OpenedWithPosition
<1> QED
  BY <1>1, InitSound, NextSound, PTL DEF Spec

\* No run spends cash or sells coin that it does not have.
THEOREM NeverShort == Spec => []NeverOverdrawn
<1>1. SimInv => NeverOverdrawn
  BY DEF SimInv, Sound, NeverOverdrawn
<1> QED
  BY <1>1, InitSound, NextSound, PTL DEF Spec

-----------------------------------------------------------------------------
(* Ids *)

\* Working intents have different ids, all of them drawn and none of them filled.
IdsDrawn(sl, filled, n) ==
  /\ \A s \in Sides : sl[s] # None => sl[s].id < n /\ sl[s].id \notin filled
  /\ \A id \in filled : id < n
  /\ sl["BUY"] # None /\ sl["SELL"] # None => sl["BUY"].id # sl["SELL"].id

IdsInv == SimInv /\ IdsDrawn(slots, acct.fills, nextId)

\* A fill notes the id of what it fills.
LEMMA FillNoted ==
  ASSUME NEW a \in Account
  PROVE  /\ a = acct => \A i, at : Bought(i, at).fills = a.fills \cup {i.id}
         /\ \A q, price, id : Sold(a, q, price, id).fills = a.fills \cup {id}
  BY DEF Bought, Sold, Account

\* Taking intents out of their slots disturbs nothing.
LEMMA IdsKept ==
  ASSUME IdsInv, \A s \in Sides : slots'[s] \in {slots[s], None},
         acct'.fills = acct.fills, nextId' = nextId
  PROVE  IdsDrawn(slots, acct.fills, nextId)'
  BY DEF IdsInv, IdsDrawn, Sides

\* What a trade or candle fills is no longer in its slot.
LEMMA FillsIds ==
  ASSUME IdsInv, NEW x, x.at \in Nat, ApplyFills(x), nextId' = nextId
  PROVE  IdsDrawn(slots, acct.fills, nextId)'
<1> DEFINE buy == slots["BUY"]
           sell == slots["SELL"]
           fillsBuy == Touched("BUY", x) /\ Affordable(buy)
           a == IF fillsBuy THEN Bought(buy, x.at) ELSE acct
           fillsSell == Touched("SELL", x) /\ a.base > 0
           bought == IF fillsBuy THEN {buy.id} ELSE {}
           sold == IF fillsSell THEN {sell.id} ELSE {}
<1>1. buy \in Intent \cup {None} /\ acct \in Account
  BY DEF IdsInv, SimInv, TypeOK, Sides
<1>2. (fillsBuy => buy # None) /\ (fillsSell => sell # None)
  BY DEF Touched
<1>3. a \in Account /\ a.fills = acct.fills \cup bought
  <2>1. a \in Account
    BY <1>1, <1>2, BoughtSound DEF IdsInv, SimInv, Sound
  <2>2. fillsBuy => Bought(buy, x.at).fills = acct.fills \cup {buy.id}
    BY <1>1, FillNoted
  <2> QED
    BY <2>1, <2>2
<1>4. acct'.fills = acct.fills \cup bought \cup sold
  <2>1. acct' = IF fillsSell THEN Sold(a, Lower(sell.qty, a.base), sell.price, sell.id) ELSE a
    BY DEF ApplyFills
  <2> HIDE DEF a, fillsBuy, fillsSell, sell, bought
  <2>2. CASE fillsSell
    BY <1>3, <2>1, <2>2, FillNoted
  <2>3. CASE ~fillsSell
    BY <1>3, <2>1, <2>3
  <2> QED
    BY <2>2, <2>3
<1>5. /\ slots'["BUY"] = IF fillsBuy THEN None ELSE buy
      /\ slots'["SELL"] = IF fillsSell THEN None ELSE sell
  BY DEF ApplyFills, Sides, Left
<1>6. IdsDrawn(slots, acct.fills, nextId)
  BY DEF IdsInv
<1> HIDE DEF a, fillsBuy, fillsSell
<1> QED
  BY <1>2, <1>4, <1>5, <1>6 DEF IdsDrawn, Sides

\* A new intent has a new id; one that replaces another takes its id over.
LEMMA PlaceIds ==
  ASSUME IdsInv, NEW side \in Sides, NEW price, NEW q, NEW risk,
         Place(side, price, q, risk), acct' = acct
  PROVE  IdsDrawn(slots, acct.fills, nextId)'
<1> DEFINE id == IF slots[side] = None THEN nextId ELSE slots[side].id
<1>1. slots \in [Sides -> Intent \cup {None}] /\ nextId \in Nat /\ acct \in Account
  BY DEF IdsInv, SimInv, TypeOK
<1>2. slots'[side].id = id /\ \A s \in Sides : s # side => slots'[s] = slots[s]
  BY <1>1 DEF Place
<1>3. nextId' = IF slots[side] = None THEN nextId + 1 ELSE nextId
  BY DEF Place
<1>4. \A s \in Sides : slots[s] # None => slots[s].id \in Nat
  BY <1>1 DEF Intent
<1>5. \A n \in acct.fills : n \in Nat
  BY <1>1 DEF Account
<1>6. IdsDrawn(slots, acct.fills, nextId)
  BY DEF IdsInv
<1>7. \A n \in acct.fills : n < nextId'
  BY <1>1, <1>3, <1>5, <1>6 DEF IdsDrawn
<1>8. id < nextId' /\ id \notin acct.fills
  BY <1>1, <1>3, <1>4, <1>5, <1>6 DEF IdsDrawn
<1>9. \A s \in Sides : s # side /\ slots[s] # None => slots[s].id < nextId' /\ slots[s].id # id
  BY <1>1, <1>3, <1>4, <1>6 DEF IdsDrawn, Sides
<1> HIDE DEF id
<1> QED
  BY <1>2, <1>6, <1>7, <1>8, <1>9 DEF IdsDrawn, Sides

LEMMA IdsInit == Init => IdsInv
<1> SUFFICES ASSUME Init PROVE IdsInv
  OBVIOUS
<1>1. IdsDrawn(slots, acct.fills, nextId)
  BY DEF Init, IdsDrawn, Sides
<1> QED
  BY <1>1, InitSound DEF IdsInv

LEMMA IdsNext == IdsInv /\ [Next]_vars => IdsInv'
<1> SUFFICES ASSUME IdsInv, [Next]_vars
             PROVE  IdsDrawn(slots, acct.fills, nextId)'
  BY NextSound DEF IdsInv
<1>1. ASSUME NEW x \in Trades, ReplayTrade(x)
      PROVE  IdsDrawn(slots, acct.fills, nextId)'
  BY <1>1, FillsIds DEF Trades, Times, ReplayTrade
<1>2. ASSUME NEW x \in Candles, RunCandle(x)
      PROVE  IdsDrawn(slots, acct.fills, nextId)'
  BY <1>2, FillsIds DEF Candles, Times, RunCandle
<1>3. CASE ReadEvent \/ Skip \/ DecideHold
  BY <1>3, IdsKept DEF ReadEvent, Skip, DecideHold, HoldBack, Decided
<1>4. CASE Expire
  BY <1>4, IdsKept DEF Expire
<1>5. CASE DecideBuy
  BY <1>5, PlaceIds DEF DecideBuy, Decided, Sides
<1>6. CASE DecideSell
  BY <1>6, PlaceIds DEF DecideSell, Decided, Sides
<1>7. ASSUME NEW side \in Sides, DecideCancel(side)
      PROVE  IdsDrawn(slots, acct.fills, nextId)'
  <2>1. \A s \in Sides : slots'[s] \in {slots[s], None}
    BY <1>7 DEF DecideCancel, IdsInv, SimInv, TypeOK
  <2> QED
    BY <1>7, <2>1, IdsKept DEF DecideCancel, Decided
\* The forced sale has no intent: its id is below every drawn one.
<1>8. CASE Finish
  <2>1. acct'.fills \in {acct.fills, acct.fills \cup {0}}
    <3>1. acct \in Account
      BY DEF IdsInv, SimInv, TypeOK
    <3> QED
      BY <1>8, <3>1, FillNoted DEF Finish
  <2>2. slots' = slots /\ nextId' = nextId /\ 0 < nextId
    BY <1>8 DEF Finish, IdsInv, SimInv, TypeOK
  <2>3. \A s \in Sides : slots[s] # None => slots[s].id # 0
    BY DEF IdsInv, SimInv, TypeOK, Intent
  <2> QED
    BY <2>1, <2>2, <2>3 DEF IdsInv, IdsDrawn
<1>9. CASE UNCHANGED vars
  BY <1>9, IdsKept DEF vars
<1> QED
  BY <1>1, <1>2, <1>3, <1>4, <1>5, <1>6, <1>7, <1>8, <1>9 DEF Next

\* Whatever is repriced, filled, expired or cancelled, no intent works under an
\* id that a fill has already been booked under.
THEOREM NoIdFilledTwice == Spec => []FilledOnce
<1>1. IdsInv => FilledOnce
  BY DEF IdsInv, IdsDrawn, FilledOnce
<1> QED
  BY <1>1, IdsInit, IdsNext, PTL DEF Spec

-----------------------------------------------------------------------------
(* Round trips *)

\* A product divided by one of its factors is the other.
LEMMA ExactQuotient ==
  ASSUME NEW n \in Nat, NEW d \in Nat \ {0}
  PROVE  (n * d) \div d = n
<1> DEFINE m == n * d
           k == m \div d
<1>1. m \in Nat
  OBVIOUS
<1>2. k \in Nat /\ d * k <= m /\ m < d * (k + 1)
  <2> HIDE DEF m
  <2> QED
    BY <1>1
<1>3. k <= n
  <2> SUFFICES ASSUME k >= n + 1 PROVE FALSE
    BY <1>2
  <2>1. d * k >= d * (n + 1)
    <3>1. k - (n + 1) \in Nat
      BY <1>2
    <3>2. d * (k - (n + 1)) \in Nat
      BY <3>1
    <3> HIDE DEF k
    <3> QED
      BY <1>2, <3>2
  <2>2. d * (n + 1) = m + d
    OBVIOUS
  <2> HIDE DEF k, m
  <2> QED
    BY <1>1, <1>2, <2>1, <2>2
<1>4. k >= n
  <2> SUFFICES ASSUME n >= k + 1 PROVE FALSE
    BY <1>2
  <2>1. d * n >= d * (k + 1)
    <3>1. n - (k + 1) \in Nat
      BY <1>2
    <3>2. d * (n - (k + 1)) \in Nat
      BY <3>1
    <3> HIDE DEF k
    <3> QED
      BY <1>2, <3>2
  <2>2. d * n = m
    OBVIOUS
  <2> HIDE DEF k, m
  <2> QED
    BY <1>1, <1>2, <2>1, <2>2
<1> QED
  BY <1>2, <1>3, <1>4

\* What was rounded down to the step once is sold as a whole.
LEMMA ExitOfWhole ==
  ASSUME NEW q \in BuyQtys
  PROVE  ExitQty(q) = q
<1>1. PICK w \in WantedQtys : q = FloorToStep(Lower(w, QtyCap)) /\ q # 0
  BY DEF BuyQtys
<1> DEFINE n == Lower(w, QtyCap) \div QtyStep
<1>2. n \in Nat /\ QtyStep \in Nat \ {0}
  <2>1. Lower(w, QtyCap) \in Nat /\ QtyStep \in Nat \ {0}
    BY SizingAssumption DEF Lower
  <2> QED
    BY <2>1, QuotientType
<1>3. q = n * QtyStep
  BY <1>1 DEF FloorToStep
<1> HIDE DEF n
<1>4. FloorToStep(q) = q
  BY <1>2, <1>3, ExactQuotient DEF FloorToStep
<1>5. q \in Nat
  BY BuyQtysType
<1> QED
  BY <1>1, <1>4, <1>5 DEF ExitQty

\* A target that covers the fees of both sides, as TargetMet has it.
Covers(avg, p) ==
  p * (FeeUnit - FeeRate) * (FeeUnit - FeeRate) >= avg * FeeUnit * FeeUnit

\* What a position of one buy cost, its fee included.
PaidFor(avg, base) == (FeeUnit + FeeRate) * (avg * base)

\* A target covers what was paid: with fee rate f, 1 / (1 - f)^2 is not less
\* than (1 + f) / (1 - f).
LEMMA TargetCovers ==
  ASSUME NEW avg \in Nat \ {0}, NEW p \in Nat, NEW q \in Nat, Covers(avg, p)
  PROVE  Gross(p, q) - Fee(p, q) >= PaidFor(avg, q)
<1> DEFINE net == FeeUnit - FeeRate
           sum == FeeUnit + FeeRate
<1>1. net \in Nat /\ sum \in Nat \ {0} /\ FeeUnit \in Nat \ {0} /\ FeeRate \in Nat
  BY SimulationAssumption
<1>2. sum * net <= FeeUnit * FeeUnit
  <2>1. sum * net = FeeUnit * FeeUnit - FeeRate * FeeRate
    BY <1>1
  <2>2. FeeRate * FeeRate \in Nat /\ FeeUnit * FeeUnit \in Nat
    BY <1>1
  <2> HIDE DEF sum, net
  <2> QED
    BY <2>1, <2>2
<1>3. (p * net) * net >= avg * (FeeUnit * FeeUnit)
  BY <1>1 DEF Covers
<1> HIDE DEF net, sum
<1>4. avg * (FeeUnit * FeeUnit) >= (avg * sum) * net
  <2> DEFINE a == sum * net
             b == FeeUnit * FeeUnit
  <2>1. a \in Nat /\ b \in Nat /\ b - a \in Nat
    BY <1>1, <1>2
  <2>2. avg * (b - a) \in Nat /\ avg * (b - a) = avg * b - avg * a
    <3> HIDE DEF a, b
    <3> QED
      BY <2>1
  <2>3. avg * a = (avg * sum) * net
    BY <1>1
  <2>4. avg * a \in Nat /\ avg * b \in Nat
    BY <2>1
  <2> HIDE DEF a
  <2> QED
    BY <2>2, <2>3, <2>4
<1>5. net > 0
  <2> SUFFICES ASSUME net = 0 PROVE FALSE
    BY <1>1
  <2>1. FeeUnit * FeeUnit \in Nat \ {0}
    BY <1>1
  <2>2. avg * (FeeUnit * FeeUnit) > 0
    BY <2>1
  <2> DEFINE a == avg * (FeeUnit * FeeUnit)
             b == (p * net) * net
  <2>3. a \in Nat /\ b = 0
    BY <1>1
  <2>4. a > 0 /\ b >= a
    BY <1>3, <2>2
  <2> HIDE DEF a, b
  <2> QED
    BY <2>3, <2>4
<1>6. p * net >= avg * sum
  <2> DEFINE a == p * net
             b == avg * sum
  <2>1. a \in Nat /\ b \in Nat
    BY <1>1
  <2>2. a * net \in Nat /\ b * net \in Nat /\ avg * (FeeUnit * FeeUnit) \in Nat
    BY <1>1, <2>1
  <2>3. a * net >= b * net
    BY <1>3, <1>4, <2>2
  <2> HIDE DEF a, b
  <2>4. SUFFICES ASSUME b - a \in Nat \ {0} PROVE FALSE
    BY <2>1 DEF a, b
  <2>5. (b - a) * net > 0 /\ (b - a) * net = b * net - a * net
    BY <1>1, <1>5, <2>1, <2>4
  <2> QED
    BY <2>2, <2>3, <2>5
<1>7. (p * net) * q >= (avg * sum) * q
  <2> DEFINE a == p * net
             b == avg * sum
  <2>1. a \in Nat /\ b \in Nat /\ a - b \in Nat
    BY <1>1, <1>6
  <2> HIDE DEF a, b
  <2>2. (a - b) * q \in Nat /\ (a - b) * q = a * q - b * q
    BY <2>1
  <2>3. a * q \in Nat /\ b * q \in Nat
    BY <2>1
  <2> QED
    BY <2>2, <2>3 DEF a, b
<1>8. (p * net) * q = Gross(p, q) - Fee(p, q)
  BY <1>1 DEF Gross, Fee, net
<1>9. (avg * sum) * q = PaidFor(avg, q)
  BY <1>1 DEF PaidFor, sum
<1> QED
  BY <1>7, <1>8, <1>9

\* At any moment of a run there is no position, at most a buy working, or one
\* position, of one buy, at most with a sell of all of it, whose target, if it is
\* one, was taken from this position.
RoundTrip(sl, a) ==
  /\ a.base \in {0} \cup BuyQtys
  /\ a.base > 0 => a.avg > 0 /\ a.pending = PaidFor(a.avg, a.base)
  /\ sl["BUY"] # None => sl["BUY"].qty \in BuyQtys /\ a.base = 0 /\ sl["SELL"] = None
  /\ sl["SELL"] # None => /\ a.base > 0 /\ sl["SELL"].qty = a.base
                          /\ sl["SELL"].risk \/ Covers(a.avg, sl["SELL"].price)

TripInv == SimInv /\ (phase # "done" => RoundTrip(slots, acct))

\* One step of a round trip ...
TripStep ==
  /\ acct'.base > acct.base => acct.base = 0
  /\ acct'.base < acct.base => acct'.base = 0
\* ... and of an exit at the target.
ExitStep ==
  /\ slots["SELL"] # None /\ ~slots["SELL"].risk
  /\ slots'["SELL"] = None /\ acct'.base < acct.base
  => acct'.pnls >= acct.pnls

\* The first buy sets the price and the cost of the position.
LEMMA FirstBuy ==
  ASSUME Sound(acct), acct.base = 0, NEW i \in Intent, NEW at \in Nat
  PROVE  LET b == Bought(i, at)
         IN  b.base = i.qty /\ b.avg = i.price /\ b.pending = PaidFor(i.price, i.qty)
<1> DEFINE b == Bought(i, at)
<1>1. i.price \in Nat \ {0} /\ i.qty \in Nat \ {0}
  BY DEF Intent
<1>2. acct \in Account /\ acct.avg \in Nat /\ acct.pending = 0
  BY DEF Sound, Account
<1>3. /\ b.base = acct.base + i.qty
      /\ b.avg = (acct.avg * acct.base + i.price * i.qty) \div (acct.base + i.qty)
      /\ b.pending = acct.pending + EntryCost(i)
  BY <1>2 DEF Bought, Account
<1>4. b.avg = (i.price * i.qty) \div i.qty
  BY <1>1, <1>2, <1>3
<1>5. b.avg = i.price
  BY <1>1, <1>4, ExactQuotient
<1>6. EntryCost(i) = PaidFor(i.price, i.qty)
  BY <1>1, SimulationAssumption DEF EntryCost, Cost, Gross, Fee, PaidFor
<1>7. PaidFor(i.price, i.qty) \in Int
  BY <1>1, SimulationAssumption DEF PaidFor
<1> HIDE DEF b
<1>8. b.base = i.qty /\ b.pending = PaidFor(i.price, i.qty)
  BY <1>1, <1>2, <1>3, <1>6, <1>7
<1> QED
  BY <1>5, <1>8 DEF b

\* Selling all of a position leaves none and realizes its whole cost.
LEMMA SoldAll ==
  ASSUME NEW a \in Account, NEW price, NEW id
  PROVE  LET s == Sold(a, a.base, price, id)
         IN  /\ s.base = 0
             /\ s.pnls = a.pnls + (Gross(price, a.base) - Fee(price, a.base)) - a.pending
<1>1. a.base \in Int /\ a.base - a.base = 0
  BY DEF Account
<1> QED
  BY <1>1 DEF Sold, Released, Account

\* A trade or candle goes one step of the round trip.
LEMMA FillsTrip ==
  ASSUME SimInv, RoundTrip(slots, acct), NEW x, x.at \in Nat, ApplyFills(x)
  PROVE  RoundTrip(slots', acct') /\ TripStep /\ ExitStep
<1> DEFINE buy == slots["BUY"]
           sell == slots["SELL"]
           fillsBuy == Touched("BUY", x) /\ Affordable(buy)
           a == IF fillsBuy THEN Bought(buy, x.at) ELSE acct
           fillsSell == Touched("SELL", x) /\ a.base > 0
<1>1. /\ buy \in Intent \cup {None} /\ sell \in Intent \cup {None}
      /\ Sound(acct) /\ acct \in Account
      /\ acct.base \in Nat /\ acct.avg \in Nat /\ acct.pnls \in Int
  BY DEF SimInv, TypeOK, Sides, Sound, Account
<1>2. acct' = IF fillsSell THEN Sold(a, Lower(sell.qty, a.base), sell.price, sell.id) ELSE a
  BY DEF ApplyFills
<1>3. /\ slots'["BUY"] = IF fillsBuy THEN None ELSE buy
      /\ slots'["SELL"] = IF fillsSell THEN None ELSE sell
  BY DEF ApplyFills, Sides, Left
<1>4. (fillsBuy => buy # None) /\ (fillsSell => sell # None)
  BY DEF Touched
<1>5. CASE fillsBuy
  <2>1. buy # None /\ acct.base = 0 /\ sell = None /\ buy.qty \in BuyQtys
    BY <1>4, <1>5 DEF RoundTrip
  <2>2. ~fillsSell
    BY <1>4, <2>1
  <2>3. acct' = Bought(buy, x.at)
    BY <1>2, <1>5, <2>2
  <2>4. /\ acct'.base = buy.qty /\ acct'.avg = buy.price
        /\ acct'.pending = PaidFor(buy.price, buy.qty)
    BY <1>1, <2>1, <2>3, FirstBuy
  <2>5. slots'["BUY"] = None /\ slots'["SELL"] = None
    BY <1>3, <1>5, <2>1, <2>2
  <2>6. buy.qty \in Nat \ {0} /\ buy.price \in Nat \ {0}
    BY <1>1, <2>1 DEF Intent
  <2> HIDE DEF buy, sell
  <2>7. RoundTrip(slots', acct')
    BY <2>1, <2>4, <2>5, <2>6 DEF RoundTrip
  <2>8. TripStep /\ ExitStep
    BY <2>1, <2>4, <2>6 DEF TripStep, ExitStep, sell
  <2> QED
    BY <2>7, <2>8
<1>6. CASE ~fillsBuy /\ fillsSell
  <2>1. sell # None /\ a = acct
    BY <1>4, <1>6
  <2>2. /\ acct.base > 0 /\ sell.qty = acct.base /\ buy = None
        /\ acct.pending = PaidFor(acct.avg, acct.base) /\ acct.avg > 0
        /\ sell.risk \/ Covers(acct.avg, sell.price)
    BY <2>1 DEF RoundTrip
  <2>3. Lower(sell.qty, acct.base) = acct.base
    BY <1>1, <2>2 DEF Lower
  <2>4. acct' = Sold(acct, acct.base, sell.price, sell.id)
    BY <1>2, <1>6, <2>1, <2>3
  <2>5. /\ acct'.base = 0
        /\ acct'.pnls = acct.pnls + (Gross(sell.price, acct.base) - Fee(sell.price, acct.base))
                          - acct.pending
    BY <1>1, <2>4, SoldAll
  <2>6. slots'["BUY"] = None /\ slots'["SELL"] = None
    BY <1>3, <1>6, <2>2
  <2>7. sell.price \in Nat
    BY <1>1, <2>1 DEF Intent
  <2>8. /\ Gross(sell.price, acct.base) \in Nat /\ Fee(sell.price, acct.base) \in Nat
        /\ PaidFor(acct.avg, acct.base) \in Nat
    BY <1>1, <2>7, FeeWithinGross, SimulationAssumption DEF PaidFor
  <2> HIDE DEF buy, sell
  <2>9. RoundTrip(slots', acct')
    BY <2>5, <2>6 DEF RoundTrip
  <2>10. TripStep
    BY <1>1, <2>5 DEF TripStep
  <2>11. ExitStep
    <3>1. SUFFICES ASSUME ~sell.risk PROVE acct'.pnls >= acct.pnls
      BY DEF ExitStep, sell
    <3>2. Gross(sell.price, acct.base) - Fee(sell.price, acct.base) >= PaidFor(acct.avg, acct.base)
      BY <1>1, <2>2, <2>7, <3>1, TargetCovers
    <3> QED
      BY <1>1, <2>2, <2>5, <2>8, <3>2
  <2> QED
    BY <2>9, <2>10, <2>11
<1>7. CASE ~fillsBuy /\ ~fillsSell
  <2>1. acct' = acct /\ slots'["BUY"] = buy /\ slots'["SELL"] = sell
    BY <1>2, <1>3, <1>7
  <2> HIDE DEF fillsBuy, fillsSell, a
  <2>2. RoundTrip(slots', acct')
    BY <2>1 DEF RoundTrip
  <2>3. TripStep /\ ExitStep
    BY <1>1, <2>1 DEF TripStep, ExitStep
  <2> QED
    BY <2>2, <2>3
<1> QED
  BY <1>5, <1>6, <1>7

\* A step that fills nothing and takes intents out of their slots at most.
LEMMA TripKept ==
  ASSUME SimInv, RoundTrip(slots, acct), acct' = acct,
         \A s \in Sides : slots'[s] \in {slots[s], None}
  PROVE  RoundTrip(slots', acct') /\ TripStep /\ ExitStep
<1>1. acct.base \in Int
  BY DEF SimInv, Sound, Account
<1>2. slots'["BUY"] \in {slots["BUY"], None} /\ slots'["SELL"] \in {slots["SELL"], None}
  BY DEF Sides
<1> QED
  BY <1>1, <1>2 DEF RoundTrip, TripStep, ExitStep

\* What a decision puts into a slot.
LEMMA Placed ==
  ASSUME SimInv, NEW side \in Sides, NEW price, NEW q, NEW risk,
         Place(side, price, q, risk)
  PROVE  /\ slots'[side].qty = q /\ slots'[side].price = price /\ slots'[side].risk = risk
         /\ \A s \in Sides : s # side => slots'[s] = slots[s]
  BY DEF Place, SimInv, TypeOK

LEMMA TripInit == Init => TripInv
<1> SUFFICES ASSUME Init PROVE TripInv
  OBVIOUS
<1>1. RoundTrip(slots, acct)
  BY DEF Init, RoundTrip, Sides
<1> QED
  BY <1>1, InitSound DEF TripInv

LEMMA TripNext == TripInv /\ [Next]_vars => TripInv' /\ TripStep /\ ExitStep
<1> SUFFICES ASSUME TripInv, [Next]_vars
             PROVE  (phase' # "done" => RoundTrip(slots', acct')) /\ TripStep /\ ExitStep
  BY NextSound DEF TripInv
<1>1. ASSUME NEW x \in Trades, ReplayTrade(x)
      PROVE  RoundTrip(slots', acct') /\ TripStep /\ ExitStep
  BY <1>1, FillsTrip DEF Trades, Times, ReplayTrade, TripInv
<1>2. ASSUME NEW x \in Candles, RunCandle(x)
      PROVE  RoundTrip(slots', acct') /\ TripStep /\ ExitStep
  BY <1>2, FillsTrip DEF Candles, Times, RunCandle, TripInv
<1>3. CASE ReadEvent \/ Skip \/ DecideHold
  BY <1>3, TripKept DEF ReadEvent, Skip, DecideHold, HoldBack, Decided, TripInv
<1>4. CASE Expire
  BY <1>4, TripKept DEF Expire, TripInv
<1>5. ASSUME NEW side \in Sides, DecideCancel(side)
      PROVE  RoundTrip(slots', acct') /\ TripStep /\ ExitStep
  <2>1. \A s \in Sides : slots'[s] \in {slots[s], None}
    BY <1>5 DEF DecideCancel, TripInv, SimInv, TypeOK
  <2> QED
    BY <1>5, <2>1, TripKept DEF DecideCancel, Decided, TripInv
<1>6. acct.base \in Int
  BY DEF TripInv, SimInv, Sound, Account
<1>7. CASE DecideBuy
  <2>1. PICK p \in Prices, q \in BuyQtys : Place("BUY", p, q, FALSE)
    BY <1>7 DEF DecideBuy
  <2>2. RoundTrip(slots, acct) /\ acct' = acct /\ slots["SELL"] = None
    BY <1>7 DEF DecideBuy, Decided, TripInv
  <2>3. acct.base = 0
    BY <1>7, <2>2, BuyQtysType DEF DecideBuy, Holding, RoundTrip, BuyQtys
  <2>4. slots'["BUY"].qty = q /\ slots'["SELL"] = slots["SELL"]
    BY <2>1, Placed DEF Sides, TripInv
  <2>5. RoundTrip(slots', acct')
    BY <2>2, <2>3, <2>4 DEF RoundTrip
  <2> QED
    BY <1>6, <2>2, <2>5 DEF TripStep, ExitStep
<1>8. CASE DecideSell
  <2>1. PICK p \in Prices, risk \in BOOLEAN :
          (risk \/ TargetMet(p)) /\ Place("SELL", p, ExitQty(acct.base), risk)
    BY <1>8 DEF DecideSell
  <2>2. RoundTrip(slots, acct) /\ acct' = acct /\ slots["BUY"] = None /\ acct.base > 0
    BY <1>8 DEF DecideSell, Decided, Holding, TripInv
  <2>3. ExitQty(acct.base) = acct.base
    BY <1>6, <2>2, ExitOfWhole DEF RoundTrip
  <2>4. /\ slots'["SELL"].qty = acct.base /\ slots'["SELL"].price = p
        /\ slots'["SELL"].risk = risk
        /\ slots'["BUY"] = slots["BUY"]
    BY <2>1, <2>3, Placed DEF Sides, TripInv
  <2>5. slots'["SELL"].risk \/ Covers(acct.avg, slots'["SELL"].price)
    BY <2>1, <2>4 DEF TargetMet, Covers
  <2>6. RoundTrip(slots', acct')
    BY <2>2, <2>4, <2>5 DEF RoundTrip
  <2> QED
    BY <1>6, <2>2, <2>6 DEF TripStep, ExitStep
<1>9. CASE Finish
  <2>1. phase' = "done" /\ slots' = slots
    BY <1>9 DEF Finish
  <2>2. CASE ForceClose /\ acct.base > 0
    <3>1. PICK p \in Prices : acct' = Sold(acct, acct.base, p, 0)
      BY <1>9, <2>2 DEF Finish
    <3>2. acct'.base = 0
      BY <3>1, SoldAll DEF TripInv, SimInv, TypeOK
    <3> QED
      BY <1>6, <2>1, <2>2, <3>2 DEF TripStep, ExitStep
  <2>3. CASE ~(ForceClose /\ acct.base > 0)
    <3>1. acct' = acct
      BY <1>9, <2>3 DEF Finish
    <3> QED
      BY <1>6, <2>1, <3>1 DEF TripStep, ExitStep
  <2> QED
    BY <2>2, <2>3
<1>10. CASE UNCHANGED vars
  BY <1>6, <1>10 DEF vars, TripInv, TripStep, ExitStep
<1> QED
  BY <1>1, <1>2, <1>3, <1>4, <1>5, <1>7, <1>8, <1>9, <1>10 DEF Next

\* In every run, whatever the market does between two decisions, no buy adds to
\* a position and every sell closes its position.
THEOREM AlwaysOneRoundTrip == Spec => OneRoundTrip
<1>1. TripInv /\ [Next]_vars => [TripStep]_vars
  BY TripNext
<1>2. [][TripStep]_vars => OneRoundTrip
  BY PTL DEF OneRoundTrip, TripStep
<1> QED
  BY <1>1, <1>2, TripInit, TripNext, PTL DEF Spec

\* In every run, an exit at the target is not a loss, at every fee: the target
\* was taken from the position it closes, and covers the fees of both sides.
THEOREM TargetExitNeverLoses == Spec => TargetExitProfits
<1>1. TripInv /\ [Next]_vars => [ExitStep]_vars
  BY TripNext
<1>2. [][ExitStep]_vars => TargetExitProfits
  BY PTL DEF TargetExitProfits, ExitStep
<1> QED
  BY <1>1, <1>2, TripInit, TripNext, PTL DEF Spec
=============================================================================
