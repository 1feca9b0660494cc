------------------------------ MODULE Candles ------------------------------
(***************************************************************************)
(* Where a run over past data has its candles from: a backtest downloads   *)
(* them page by page (fetch_historical_klines), going back from the end of *)
(* the range, and a replay builds them from the trades it reads            *)
(* (_TradeCandleBuilder).                                                  *)
(*                                                                         *)
(* Times are integers, a candle's time is a multiple of Step.  Of a        *)
(* downloaded candle only the time is kept.                                *)
(***************************************************************************)
EXTENDS Integers, FiniteSets, Sequences

CONSTANTS
  Step,        \* the length of a candle's interval
  Times,       \* bound: the times of candles and ranges
  PageLimits,  \* page_limit of a download
  ApiLimit,    \* candles the exchange returns at most
  TradeTimes,  \* bound: the times of trades
  Prices,
  Qtys,
  MaxTrades    \* bound: trades of a recording

ASSUME CandlesAssumption ==
  /\ Step \in Nat \ {0}
  /\ Times \subseteq Nat
  /\ IsFiniteSet(Times)
  /\ TradeTimes \subseteq Nat
  /\ PageLimits \subseteq Nat \ {0}
  /\ ApiLimit \in Nat \ {0}
  /\ Prices \subseteq Nat
  /\ Qtys \subseteq Nat \ {0}
  /\ MaxTrades \in Nat

VARIABLES
  source,     \* "exchange" for a download, "recording" for a replay
  klines,     \* the times of the candles the exchange has
  from, to,   \* the range that is asked for
  limit,      \* page_limit
  cursor,     \* cursor_end
  got,        \* the times of the candles downloaded
  ended,      \* the download has ended
  tape,       \* the trades read so far
  completed,  \* _TradeCandleBuilder._completed
  current     \* _TradeCandleBuilder._current, or NoCandle

download == <<klines, from, to, limit, cursor, got, ended>>
building == <<tape, completed, current>>
vars == <<source, download, building>>

Trades == [at : TradeTimes, price : Prices, qty : Qtys]
CandleTimes == {t \in Times : t % Step = 0}
NoCandle == [ts |-> -1]
Candle == [ts : Nat, open : Prices, high : Prices, low : Prices, close : Prices, volume : Nat]

TypeOK ==
  /\ source \in {"exchange", "recording"}
  /\ klines \subseteq CandleTimes
  /\ from \in Nat /\ to \in Nat
  /\ limit \in Nat \ {0}
  /\ cursor \in Int
  /\ got \subseteq klines
  /\ ended \in BOOLEAN
  /\ tape \in Seq(Trades)
  /\ completed \in Seq(Candle)
  /\ current \in Candle \cup {NoCandle}

Init ==
  /\ \/ /\ source = "exchange"
        /\ klines \in SUBSET CandleTimes
        /\ from \in Times
        /\ to \in {t \in Times : t > from}
        /\ limit \in PageLimits
     \/ /\ source = "recording" \* a replay downloads nothing
        /\ klines = {}
        /\ from = 0
        /\ to = 0
        /\ limit = ApiLimit
  /\ cursor = to
  /\ got = {}
  /\ ended = FALSE
  /\ tape = <<>>
  /\ completed = <<>>
  /\ current = NoCandle

-----------------------------------------------------------------------------
(* Download.                                                               *)

Window(end) == {t \in klines : from <= t /\ t <= end}

\* What the exchange answers: the newest candles of the range, as many as it
\* may return, or all there are.
IsPage(page, window, n) ==
  \/ page = window /\ Cardinality(window) <= n
  \/ /\ page \subseteq window
     /\ Cardinality(page) = n
     /\ \A t \in page, u \in window \ page : u < t

\* get_klines does not ask for more than the exchange returns.
AskedFor == IF limit <= ApiLimit THEN limit ELSE ApiLimit

\* Slip: the next page ends at the oldest candle of this one, which a page of
\* one candle never gets past.
SameCandleAgain(first) == first

NextCursor(first) == first - Step

\* The loop ends at the start of the range, and after a page that is not full.
LastPage(page, next) == next >= cursor \/ next <= from \/ Cardinality(page) < limit

\* Slip: an empty page is asked for again.
EmptyPageRetried ==
  /\ source = "exchange"
  /\ ~ended
  /\ IsPage({}, Window(cursor), AskedFor)
  /\ UNCHANGED vars

EmptyPage ==
  /\ source = "exchange"
  /\ ~ended
  /\ IsPage({}, Window(cursor), AskedFor)
  /\ ended' = TRUE
  /\ UNCHANGED <<source, klines, from, to, limit, cursor, got, building>>

NextPage ==
  /\ source = "exchange"
  /\ ~ended
  /\ \E page \in SUBSET Window(cursor) \ {{}} :
       /\ IsPage(page, Window(cursor), AskedFor)
       /\ got' = got \cup {t \in page : from <= t /\ t <= to}
       /\ \E first \in page :
            /\ \A t \in page : first <= t
            /\ cursor' = IF NextCursor(first) >= cursor THEN cursor ELSE NextCursor(first)
            /\ ended' = LastPage(page, NextCursor(first))
  /\ UNCHANGED <<source, klines, from, to, limit, building>>

-----------------------------------------------------------------------------
(* Building.                                                               *)

\* _floor_time
Bucket(t) == t - (t % Step)

Opened(trade) ==
  [ts |-> Bucket(trade.at), open |-> trade.price, high |-> trade.price,
   low |-> trade.price, close |-> trade.price, volume |-> trade.qty]

Higher(a, b) == IF a >= b THEN a ELSE b
Lower(a, b) == IF a <= b THEN a ELSE b

\* Slip: the volume is the last trade's.
LastVolume(candle, trade) ==
  [candle EXCEPT !.high = Higher(@, trade.price), !.low = Lower(@, trade.price),
                 !.close = trade.price, !.volume = trade.qty]

Extended(candle, trade) ==
  [candle EXCEPT !.high = Higher(@, trade.price), !.low = Lower(@, trade.price),
                 !.close = trade.price, !.volume = @ + trade.qty]

\* Slip: a first candle that is not there is completed.
BuiltUnchecked == Append(completed, current)

\* candles()
Built == IF current = NoCandle THEN completed ELSE Append(completed, current)

\* update_trade: a trade of another interval completes the current candle.
UpdateTrade(trade) ==
  /\ source = "recording"
  /\ Len(tape) < MaxTrades
  /\ tape' = Append(tape, trade)
  /\ IF trade.price = 0
     THEN UNCHANGED <<completed, current>>
     ELSE IF current # NoCandle /\ current.ts = Bucket(trade.at)
     THEN current' = Extended(current, trade) /\ UNCHANGED completed
     ELSE /\ current' = Opened(trade)
          /\ completed' = Built
  /\ UNCHANGED <<source, download>>

Next ==
  \/ EmptyPage
  \/ NextPage
  \/ \E trade \in Trades : UpdateTrade(trade)

Spec == Init /\ [][Next]_vars

\* A download that is not interrupted goes on.
FairSpec == Spec /\ WF_vars(EmptyPage \/ NextPage)

-----------------------------------------------------------------------------
(* Properties.                                                             *)

\* A download that has ended returns the candles of the range that the
\* exchange has, all of them and no other, whatever the gaps and however the
\* pages fall, except that it may lack the one at the very start: the loop
\* does not ask for a page that would hold that candle alone
\* (fetch_historical_klines, while cursor_end > start_utc).
DownloadExact ==
  (ended /\ limit <= ApiLimit) => got \ {from} = {t \in klines : from < t /\ t <= to}

\* A download ends: no page leaves the cursor where it was.
DownloadEnds == (source = "exchange") ~> ended

\* The trades of an interval, of positive price, by their places on the tape.
TradesOf(b) == {i \in DOMAIN tape : tape[i].price > 0 /\ Bucket(tape[i].at) = b}

\* What each trade of the tape adds to the volume of an interval, and its volume.
QtysOf(b) == [i \in DOMAIN tape |-> IF i \in TradesOf(b) THEN tape[i].qty ELSE 0]
VolumeOf(b) ==
  LET volume[i \in 0..Len(tape)] == IF i = 0 THEN 0 ELSE volume[i - 1] + QtysOf(b)[i]
  IN  volume[Len(tape)]

\* The candle of an interval: the prices of its first, its last, its highest and
\* its lowest trade, and its volume.
IsCandleOf(candle, b) ==
  /\ \E i \in TradesOf(b) : candle.open = tape[i].price /\ \A j \in TradesOf(b) : i <= j
  /\ \E i \in TradesOf(b) : candle.close = tape[i].price /\ \A j \in TradesOf(b) : j <= i
  /\ \E i \in TradesOf(b) : candle.high = tape[i].price
  /\ \E i \in TradesOf(b) : candle.low = tape[i].price
  /\ \A i \in TradesOf(b) : candle.low <= tape[i].price /\ tape[i].price <= candle.high
  /\ candle.volume = VolumeOf(b)

IntervalsInOrder ==
  \A i, j \in DOMAIN tape : i < j => Bucket(tape[i].at) <= Bucket(tape[j].at)

\* As long as no trade comes after one of a later interval, in whatever order
\* they come within an interval, the builder's candles are one for each
\* interval with trades, in order, each that of its trades.
BuiltExactly == IntervalsInOrder =>
  /\ {Built[k].ts : k \in DOMAIN Built} = {b \in {Bucket(t) : t \in TradeTimes} : TradesOf(b) # {}}
  /\ \A j, k \in DOMAIN Built : j < k => Built[j].ts < Built[k].ts
  /\ \A candle \in {Built[k] : k \in DOMAIN Built} : IsCandleOf(candle, candle.ts)
=============================================================================
