--------------------------- MODULE CandlesProofs ---------------------------
(***************************************************************************)
(* Theorems about the sources of candles, for every step, range, page size *)
(* and recording.                                                          *)
(***************************************************************************)
EXTENDS Candles, FiniteSetTheorems, SequenceTheorems, WellFoundedInduction, TLAPS

\* The candles of the range that lie behind the cursor are those downloaded;
\* when the download has ended, nothing but the start lies ahead of it.
Behind(end) == {t \in klines : from <= t /\ t <= to /\ t > end}

DownloadInv ==
  /\ cursor <= to
  /\ got = Behind(cursor)
  /\ (ended /\ limit <= ApiLimit) => \A t \in klines : (from < t /\ t <= to) => t > cursor

CandlesInv == TypeOK /\ DownloadInv

-----------------------------------------------------------------------------
(* Arithmetic *)

LEMMA BucketType ==
  ASSUME NEW t \in Nat
  PROVE  Bucket(t) \in Nat
<1>1. t % Step \in 0..(Step - 1) /\ t = Step * (t \div Step) + (t % Step) /\ t \div Step \in Int
  BY CandlesAssumption
<1>2. t \div Step >= 0
  <2> SUFFICES ASSUME t \div Step <= -1 PROVE FALSE
    BY <1>1
  <2> DEFINE q == t \div Step
  <2>1. q \in Int /\ -1 - q \in Nat
    BY <1>1
  <2>2. Step * (-1 - q) >= 0
    BY <2>1, CandlesAssumption
  <2>3. Step * (-1 - q) = -Step - Step * q
    BY <2>1, CandlesAssumption
  <2> QED
    BY <1>1, <2>1, <2>2, <2>3, CandlesAssumption
<1>3. Step * (t \div Step) >= 0
  BY <1>1, <1>2, CandlesAssumption
<1> QED
  BY <1>1, <1>3, CandlesAssumption DEF Bucket

\* Between a candle's time and the one before there is no candle's time.
LEMMA NoTimeBetween ==
  ASSUME NEW a \in CandleTimes, NEW b \in CandleTimes, b > a - Step
  PROVE  b >= a
<1> SUFFICES ASSUME b < a PROVE FALSE
  BY CandlesAssumption DEF CandleTimes
<1> DEFINE p == a \div Step
           q == b \div Step
<1>1. /\ a \in Nat /\ b \in Nat /\ p \in Int /\ q \in Int
      /\ a = Step * p /\ b = Step * q
  BY CandlesAssumption DEF CandleTimes
<1>2. Step * (p - q) = a - b
  BY <1>1, CandlesAssumption
<1> HIDE DEF p, q
<1>3. CASE p - q <= 0
  <2>1. Step * (q - p) >= 0
    BY <1>1, <1>3, CandlesAssumption
  <2>2. Step * (q - p) = b - a
    BY <1>1, CandlesAssumption
  <2> QED
    BY <1>1, <2>1, <2>2
<1>4. CASE p - q >= 1
  <2>1. Step * ((p - q) - 1) >= 0
    BY <1>1, <1>4, CandlesAssumption
  <2>2. Step * ((p - q) - 1) = Step * (p - q) - Step
    BY <1>1, CandlesAssumption
  <2> QED
    BY <1>1, <1>2, <2>1, <2>2, CandlesAssumption
<1> QED
  BY <1>1, <1>3, <1>4

-----------------------------------------------------------------------------
(* The invariant *)

LEMMA CandlesInit == Init => CandlesInv
<1> SUFFICES ASSUME Init PROVE CandlesInv
  OBVIOUS
<1>1. /\ source \in {"exchange", "recording"}
      /\ klines \subseteq CandleTimes
      /\ from \in Nat /\ to \in Nat
      /\ limit \in Nat \ {0}
  <2>1. Times \subseteq Nat /\ PageLimits \subseteq Nat \ {0} /\ ApiLimit \in Nat \ {0}
    BY CandlesAssumption
  <2>2. \/ /\ source = "exchange" /\ klines \in SUBSET CandleTimes
           /\ from \in Times /\ to \in Times /\ limit \in PageLimits
        \/ /\ source = "recording" /\ klines = {}
           /\ from = 0 /\ to = 0 /\ limit = ApiLimit
    BY DEF Init
  <2>3. CASE source = "exchange"
    BY <2>1, <2>2, <2>3
  <2>4. CASE source = "recording"
    BY <2>1, <2>2, <2>4
  <2> QED
    BY <2>2, <2>3, <2>4
<1>2. cursor = to /\ got = {} /\ ended = FALSE
  BY DEF Init
<1>3. TypeOK
  <2>1. tape \in Seq(Trades) /\ completed \in Seq(Candle)
    <3>1. tape = <<>> /\ completed = <<>>
      BY DEF Init
    <3>2. tape \in Seq(Trades)
      BY <3>1
    <3>3. completed \in Seq(Candle)
      BY <3>1
    <3> QED
      BY <3>2, <3>3
  <2>2. cursor \in Int /\ got \subseteq klines /\ ended \in BOOLEAN
    <3>1. cursor \in Int
      BY <1>1, <1>2
    <3>2. got \subseteq klines
      BY <1>2
    <3>3. ended \in BOOLEAN
      BY <1>2
    <3> QED
      BY <3>1, <3>2, <3>3
  <2>3. current \in Candle \cup {NoCandle}
    <3>1. current = NoCandle
      BY DEF Init
    <3> QED
      BY <3>1
  <2> QED
    BY <1>1, <2>1, <2>2, <2>3 DEF TypeOK
<1>4. \A t \in klines : t \in Nat
  BY <1>1, CandlesAssumption DEF CandleTimes
<1>5. DownloadInv
  BY <1>1, <1>2, <1>4 DEF DownloadInv, Behind
<1> QED
  BY <1>3, <1>5 DEF CandlesInv

LEMMA EmptyPageInv == ASSUME CandlesInv, EmptyPage PROVE CandlesInv'
<1> USE DEF CandlesInv
<1>1. Window(cursor) = {}
  <2>1. Cardinality({}) = 0 /\ AskedFor # 0
    BY FS_EmptySet, CandlesAssumption DEF AskedFor, TypeOK
  <2> QED
    BY <2>1 DEF EmptyPage, IsPage
<1>2. \A t \in klines : (from < t /\ t <= to) => t > cursor
  BY <1>1, CandlesAssumption DEF Window, TypeOK, CandleTimes
<1>3. TypeOK'
  BY DEF EmptyPage, building, TypeOK
<1> QED
  BY <1>2, <1>3 DEF EmptyPage, DownloadInv, Behind

LEMMA NextPageInv == ASSUME CandlesInv, NextPage PROVE CandlesInv'
<1> USE DEF CandlesInv
<1>1. PICK page \in SUBSET Window(cursor) \ {{}} :
        /\ IsPage(page, Window(cursor), AskedFor)
        /\ got' = got \cup {t \in page : from <= t /\ t <= to}
        /\ \E first \in page :
             /\ \A t \in page : first <= t
             /\ cursor' = IF NextCursor(first) >= cursor THEN cursor ELSE NextCursor(first)
             /\ ended' = LastPage(page, NextCursor(first))
  BY DEF NextPage
<1>2. PICK first \in page :
        /\ \A t \in page : first <= t
        /\ cursor' = IF NextCursor(first) >= cursor THEN cursor ELSE NextCursor(first)
        /\ ended' = LastPage(page, NextCursor(first))
  BY <1>1
<1>3. UNCHANGED <<source, klines, from, to, limit, tape, completed, current>>
  BY DEF NextPage, building
<1>4. klines \subseteq Nat /\ klines \subseteq CandleTimes /\ from \in Nat /\ to \in Nat /\ cursor \in Int
  BY CandlesAssumption DEF TypeOK, CandleTimes
<1>5. /\ first \in klines /\ from <= first /\ first <= cursor
      /\ NextCursor(first) \in Int /\ NextCursor(first) < cursor /\ NextCursor(first) < first
  BY <1>1, <1>2, <1>4, CandlesAssumption DEF Window, NextCursor
<1>6. cursor' = NextCursor(first)
  BY <1>2, <1>4, <1>5
<1>7. \A t \in Window(cursor) : t > NextCursor(first) => t \in page
  <2> SUFFICES ASSUME NEW t \in Window(cursor), t > NextCursor(first), t \notin page PROVE FALSE
    OBVIOUS
  <2>1. t \in CandleTimes /\ first \in CandleTimes
    BY <1>4, <1>5 DEF Window
  <2>2. t >= first
    BY <2>1, NoTimeBetween DEF NextCursor
  <2>3. t < first
    BY <1>1, <1>2 DEF IsPage
  <2> QED
    BY <2>2, <2>3, <1>4, <2>1, CandlesAssumption DEF CandleTimes
<1>8. \A t \in page : t \in Window(cursor) /\ t > NextCursor(first)
  <2> SUFFICES ASSUME NEW t \in page PROVE t \in Window(cursor) /\ t > NextCursor(first)
    OBVIOUS
  <2>1. t \in Window(cursor) /\ t \in Nat /\ first \in Nat
    BY <1>1, <1>4, <1>5 DEF Window
  <2>2. first <= t
    BY <1>2
  <2> QED
    BY <2>1, <2>2, <1>5
<1>9. \A t \in klines : (from <= t /\ t <= to) =>
        (t > NextCursor(first) <=> (t > cursor \/ t \in page))
  BY <1>4, <1>5, <1>7, <1>8 DEF Window
<1>10. got' = Behind(cursor)'
  <2>1. got' = got \cup page
    <3>1. \A t \in page : from <= t /\ t <= to
      BY <1>8, <1>4 DEF DownloadInv, Window
    <3> QED
      BY <3>1, <1>1
  <2>2. Behind(cursor)' = {t \in klines : from <= t /\ t <= to /\ t > NextCursor(first)}
    BY <1>3, <1>6 DEF Behind
  <2>3. page \subseteq {t \in klines : from <= t /\ t <= to}
    BY <1>8, <1>4 DEF Window, DownloadInv
  <2> QED
    BY <2>1, <2>2, <2>3, <1>9 DEF DownloadInv, Behind
<1>11. TypeOK'
  <2>1. got' \subseteq klines
    BY <1>10, <1>3 DEF Behind
  <2>2. ended' \in BOOLEAN
    BY <1>2 DEF LastPage
  <2> QED
    BY <2>1, <2>2, <1>3, <1>5, <1>6 DEF TypeOK
<1>12. cursor' <= to'
  BY <1>3, <1>4, <1>5, <1>6 DEF DownloadInv
<1>13. (ended' /\ limit <= ApiLimit) =>
         \A t \in klines : (from < t /\ t <= to) => t > NextCursor(first)
  <2> SUFFICES ASSUME ended', limit <= ApiLimit, NEW t \in klines, from < t, t <= to
               PROVE  t > NextCursor(first)
    OBVIOUS
  <2>1. CASE NextCursor(first) <= from
    BY <2>1, <1>4, <1>5
  <2>2. CASE Cardinality(page) < limit
    <3>1. page = Window(cursor)
      BY <2>2, <1>1 DEF IsPage, AskedFor, TypeOK
    <3>2. t > cursor \/ t \in page
      BY <3>1, <1>4 DEF Window
    <3> QED
      BY <3>2, <1>9, <1>4
  <2>3. ~(NextCursor(first) >= cursor)
    BY <1>4, <1>5
  <2>4. NextCursor(first) <= from \/ Cardinality(page) < limit
    BY <1>2, <2>3 DEF LastPage
  <2> QED
    BY <2>1, <2>2, <2>4
<1>14. DownloadInv'
  BY <1>3, <1>6, <1>10, <1>12, <1>13 DEF DownloadInv
<1> QED
  BY <1>11, <1>14

\* A trade leaves the download alone and its candle is one.
LEMMA UpdateTradeInv ==
  ASSUME CandlesInv, NEW trade \in Trades, UpdateTrade(trade)
  PROVE  CandlesInv'
<1> USE DEF CandlesInv
<1>1. /\ trade.at \in Nat /\ trade.price \in Prices /\ trade.price \in Nat
      /\ trade.qty \in Nat /\ trade \in Trades
  BY CandlesAssumption DEF Trades
<1>2. Opened(trade) \in Candle
  BY <1>1, BucketType DEF Opened, Candle
<1>3. current \in Candle => Extended(current, trade) \in Candle
  <2> SUFFICES ASSUME current \in Candle PROVE Extended(current, trade) \in Candle
    OBVIOUS
  <2>1. /\ Higher(current.high, trade.price) \in Prices
        /\ Lower(current.low, trade.price) \in Prices
        /\ current.volume + trade.qty \in Nat
    BY <1>1 DEF Candle, Higher, Lower
  <2> QED
    BY <1>1, <2>1 DEF Extended, Candle
<1>4. Built \in Seq(Candle)
  BY DEF Built, TypeOK
<1>5. tape' \in Seq(Trades)
  BY <1>1 DEF UpdateTrade, TypeOK
<1>6. completed' \in Seq(Candle) /\ current' \in Candle \cup {NoCandle}
  <2>1. CASE trade.price = 0
    BY <2>1 DEF UpdateTrade, TypeOK
  <2>2. CASE trade.price # 0 /\ current # NoCandle /\ current.ts = Bucket(trade.at)
    BY <2>2, <1>3 DEF UpdateTrade, TypeOK
  <2>3. CASE trade.price # 0 /\ ~(current # NoCandle /\ current.ts = Bucket(trade.at))
    BY <2>3, <1>2, <1>4 DEF UpdateTrade
  <2> QED
    BY <2>1, <2>2, <2>3
<1>7. UNCHANGED <<source, klines, from, to, limit, cursor, got, ended>>
  BY DEF UpdateTrade, download
<1>8. TypeOK'
  BY <1>5, <1>6, <1>7 DEF TypeOK
<1>9. DownloadInv'
  BY <1>7 DEF DownloadInv, Behind
<1> QED
  BY <1>8, <1>9

LEMMA CandlesNext == ASSUME CandlesInv, [Next]_vars PROVE CandlesInv'
<1>1. CASE EmptyPage
  BY <1>1, EmptyPageInv
<1>2. CASE NextPage
  BY <1>2, NextPageInv
<1>3. ASSUME NEW trade \in Trades, UpdateTrade(trade) PROVE CandlesInv'
  BY <1>3, UpdateTradeInv
<1>4. CASE UNCHANGED vars
  BY <1>4 DEF CandlesInv, TypeOK, DownloadInv, Behind, vars, download, building
<1> QED
  BY <1>1, <1>2, <1>3, <1>4 DEF Next

LEMMA CandlesAlways == Spec => []CandlesInv
  BY CandlesInit, CandlesNext, PTL DEF Spec

-----------------------------------------------------------------------------
(* Theorems *)

\* The download and the builder keep their types; what is downloaded is among
\* what the exchange has (fetch_historical_klines, _TradeCandleBuilder).
THEOREM TypeCorrect == Spec => []TypeOK
<1>1. CandlesInv => TypeOK
  BY DEF CandlesInv
<1> QED
  BY <1>1, CandlesAlways, PTL

\* A download returns the range, whatever the gaps and the page size that the
\* exchange honours (fetch_historical_klines).
THEOREM DownloadComplete == Spec => []DownloadExact
<1>1. CandlesInv => DownloadExact
  <2> SUFFICES ASSUME CandlesInv, ended, limit <= ApiLimit
               PROVE  got \ {from} = {t \in klines : from < t /\ t <= to}
    BY DEF DownloadExact
  <2>1. klines \subseteq Nat /\ from \in Nat /\ to \in Nat /\ cursor \in Int
    BY CandlesAssumption DEF CandlesInv, TypeOK, CandleTimes
  <2>2. got = {t \in klines : from <= t /\ t <= to /\ t > cursor}
    BY DEF CandlesInv, DownloadInv, Behind
  <2>3. \A t \in klines : (from < t /\ t <= to) => t > cursor
    BY DEF CandlesInv, DownloadInv
  <2>4. \A t \in klines : (from <= t /\ t # from) <=> from < t
    BY <2>1
  <2> QED
    BY <2>2, <2>3, <2>4
<1> QED
  BY <1>1, CandlesAlways, PTL

\* Every page that does not end the download moves its cursor back by a candle or
\* more and leaves it within the range (fetch_historical_klines).
PagesGoBack ==
  [][(EmptyPage \/ NextPage) => ended' \/ (from < cursor' /\ cursor' + Step <= cursor)]_vars

\* So a range is asked for in at most as many pages as it has room for candles,
\* whatever gaps and page size the exchange has: the rank behind DownloadEnds.
THEOREM DownloadGoesBack == Spec => PagesGoBack
<1>1. ASSUME TypeOK, NextPage PROVE ended' \/ (from < cursor' /\ cursor' + Step <= cursor)
  <2>0. PICK page \in SUBSET Window(cursor) : \E first \in page :
          /\ cursor' = IF NextCursor(first) >= cursor THEN cursor ELSE NextCursor(first)
          /\ ended' = LastPage(page, NextCursor(first))
    BY <1>1 DEF NextPage
  <2>1. PICK first \in page :
          /\ cursor' = IF NextCursor(first) >= cursor THEN cursor ELSE NextCursor(first)
          /\ ended' = LastPage(page, NextCursor(first))
    BY <2>0
  <2>2. /\ first \in Nat /\ first <= cursor /\ cursor \in Int /\ from \in Nat
        /\ Step \in Nat /\ Step > 0
    BY <1>1, <2>1, CandlesAssumption DEF Window, TypeOK, CandleTimes
  <2>3. NextCursor(first) \in Int /\ NextCursor(first) + Step <= cursor /\ NextCursor(first) < cursor
    BY <2>2 DEF NextCursor
  <2>4. cursor' = NextCursor(first)
    BY <2>1, <2>2, <2>3
  <2>5. ended' \/ NextCursor(first) > from
    <3>1. NextCursor(first) <= from => LastPage(page, NextCursor(first))
      BY DEF LastPage
    <3>2. NextCursor(first) <= from \/ NextCursor(first) > from
      BY <2>2, <2>3
    <3> QED
      BY <2>1, <3>1, <3>2
  <2> QED
    BY <2>2, <2>3, <2>4, <2>5
<1>2. TypeOK => ((EmptyPage \/ NextPage) => ended' \/ (from < cursor' /\ cursor' + Step <= cursor))
  BY <1>1 DEF EmptyPage
<1>3. TypeOK /\ [Next]_vars =>
        [(EmptyPage \/ NextPage) => ended' \/ (from < cursor' /\ cursor' + Step <= cursor)]_vars
  BY <1>2
<1> QED
  BY <1>3, TypeCorrect, PTL DEF Spec, PagesGoBack

-----------------------------------------------------------------------------
(* Volumes *)

\* A set of naturals has a least element.
LEMMA LeastNat ==
  ASSUME NEW S, S \subseteq Nat, S # {}
  PROVE  \E n \in S : \A m \in S : n <= m
<1>1. PICK n \in S : \A m \in S : <<m, n>> \notin OpToRel(<, Nat)
  BY NatLessThanWellFounded, WFMin, Zenon
<1>2. \A m \in S : ~(m < n)
  BY <1>1, Zenon DEF OpToRel
<1> QED
  BY <1>2

\* v is what the first elements of f add up to, as VolumeOf has it.
AddsUp(n, f, v) == v = [i \in 0..n |-> IF i = 0 THEN 0 ELSE v[i - 1] + f[i]]

LEMMA AddsUpAt ==
  ASSUME NEW n \in Nat, NEW f, NEW v, AddsUp(n, f, v)
  PROVE  v[0] = 0 /\ \A i \in 1..n : v[i] = v[i - 1] + f[i]
  BY DEF AddsUp

\* There is such a function, for every n.
LEMMA SumsThere ==
  ASSUME NEW n \in Nat, NEW f
  PROVE  \E v : AddsUp(n, f, v)
<1> DEFINE bad == {k \in Nat : ~ \E v : AddsUp(k, f, v)}
<1>1. SUFFICES ASSUME bad # {} PROVE FALSE
  OBVIOUS
<1>2. PICK k \in bad : \A m \in bad : k <= m
  <2>1. bad \subseteq Nat
    OBVIOUS
  <2> HIDE DEF bad
  <2> QED
    BY <1>1, <2>1, LeastNat
<1>3. k # 0
  <2>1. AddsUp(0, f, [i \in 0..0 |-> 0])
    BY DEF AddsUp
  <2> QED
    BY <1>2, <2>1
<1>4. k - 1 \in Nat /\ k - 1 \notin bad
  BY <1>2, <1>3
<1>5. PICK v : AddsUp(k - 1, f, v)
  BY <1>4
<1> DEFINE w == [i \in 0..k |-> IF i = 0 THEN 0 ELSE v[i - 1] + f[i]]
<1>6. \A i \in 0..(k - 1) : v[i] = w[i]
  BY <1>4, <1>5 DEF AddsUp
<1>7. AddsUp(k, f, w)
  <2>1. k \in Nat
    BY <1>2
  <2>2. ASSUME NEW i \in 1..k PROVE w[i - 1] = v[i - 1]
    <3>1. i - 1 \in 0..(k - 1)
      BY <2>1
    <3> HIDE DEF w
    <3> QED
      BY <1>6, <3>1
  <2>3. \A i \in 1..k : w[i - 1] = v[i - 1]
    BY <2>2
  <2> QED
    BY <2>3 DEF AddsUp
<1> QED
  BY <1>2, <1>7

\* It is a natural, and the same on the elements that two functions share.
Share(n, f, h) == \A i \in 1..n : f[i] \in Nat /\ f[i] = h[i]

LEMMA SumsAgree ==
  ASSUME NEW n \in Nat, NEW m \in Nat, n <= m, NEW f, NEW h, Share(n, f, h),
         NEW v, AddsUp(n, f, v), NEW w, AddsUp(m, h, w)
  PROVE  v[n] \in Nat /\ v[n] = w[n]
<1> DEFINE bad == {k \in Nat : k <= n /\ ~(v[k] \in Nat /\ v[k] = w[k])}
<1>1. SUFFICES ASSUME bad # {} PROVE FALSE
  OBVIOUS
<1>2. PICK k \in bad : \A l \in bad : k <= l
  <2>1. bad \subseteq Nat
    OBVIOUS
  <2> HIDE DEF bad
  <2> QED
    BY <1>1, <2>1, LeastNat
<1>3. v[0] = 0 /\ w[0] = 0
  BY AddsUpAt
<1>4. k \in 1..n /\ k \in 1..m
  BY <1>2, <1>3
<1>5. k - 1 \in Nat /\ k - 1 <= n /\ k - 1 \notin bad
  BY <1>2, <1>4
<1>6. v[k - 1] \in Nat /\ v[k - 1] = w[k - 1]
  BY <1>5
<1>7. v[k] = v[k - 1] + f[k] /\ w[k] = w[k - 1] + h[k]
  BY <1>4, AddsUpAt
<1>8. f[k] \in Nat /\ f[k] = h[k]
  BY <1>4 DEF Share
<1> QED
  BY <1>2, <1>6, <1>7, <1>8

\* The volume of an interval is such a sum.
VolumeSums(b) == \E v : AddsUp(Len(tape), QtysOf(b), v) /\ VolumeOf(b) = v[Len(tape)]

LEMMA VolumeThere == TypeOK => \A b : VolumeSums(b)
<1> SUFFICES ASSUME TypeOK, NEW b PROVE VolumeSums(b)
  OBVIOUS
<1> DEFINE sum == CHOOSE v : AddsUp(Len(tape), QtysOf(b), v)
<1>1. Len(tape) \in Nat
  BY LenProperties DEF TypeOK
<1>2. AddsUp(Len(tape), QtysOf(b), sum)
  BY <1>1, SumsThere
<1>3. VolumeOf(b) = sum[Len(tape)]
  BY DEF VolumeOf, AddsUp
<1> QED
  BY <1>2, <1>3 DEF VolumeSums

LEMMA VolumeThereNext == TypeOK' => (\A b : VolumeSums(b))'
  BY VolumeThere, PTL

-----------------------------------------------------------------------------
(* A trade is read *)

\* The tape grows by one trade, at place n + 1.
LEMMA TapeGrows ==
  ASSUME TypeOK, NEW trade \in Trades, tape' = Append(tape, trade)
  PROVE  LET n == Len(tape)
         IN  /\ n \in Nat /\ Len(tape') = n + 1
             /\ DOMAIN tape = 1..n /\ DOMAIN tape' = 1..(n + 1)
             /\ tape'[n + 1] = trade
             /\ \A i \in 1..n : tape'[i] = tape[i] /\ tape[i] \in Trades
<1>1. tape \in Seq(Trades)
  BY DEF TypeOK
<1> QED
  BY <1>1, AppendProperties, LenProperties, ElementOfSeq

\* It is one of the trades of its interval if its price is positive.
Counts(trade, b) == trade.price > 0 /\ Bucket(trade.at) = b

LEMMA TradesGrow ==
  ASSUME TypeOK, NEW trade \in Trades, tape' = Append(tape, trade), NEW b
  PROVE  /\ TradesOf(b) \subseteq 1..Len(tape)
         /\ TradesOf(b)' = IF Counts(trade, b) THEN TradesOf(b) \cup {Len(tape) + 1}
                                               ELSE TradesOf(b)
<1> DEFINE n == Len(tape)
<1>1. /\ n \in Nat /\ DOMAIN tape = 1..n /\ DOMAIN tape' = 1..(n + 1)
      /\ tape'[n + 1] = trade /\ \A i \in 1..n : tape'[i] = tape[i]
  BY TapeGrows
<1> HIDE DEF n
<1>2. \A i : i \in 1..(n + 1) <=> i \in 1..n \/ i = n + 1
  BY <1>1
<1>3. n + 1 \notin 1..n
  BY <1>1
<1>4. TradesOf(b) \subseteq 1..n
  BY <1>1 DEF TradesOf
<1>5. \A i : i \in TradesOf(b)' <=> i \in TradesOf(b) \/ (i = n + 1 /\ Counts(trade, b))
  BY <1>1, <1>2, <1>3 DEF TradesOf, Counts
<1>6. TradesOf(b)' = IF Counts(trade, b) THEN TradesOf(b) \cup {n + 1} ELSE TradesOf(b)
  BY <1>5
<1> QED
  BY <1>4, <1>6 DEF n

LEMMA VolumeGrows ==
  ASSUME TypeOK, TypeOK', NEW trade \in Trades, tape' = Append(tape, trade), NEW b
  PROVE  /\ VolumeOf(b) \in Nat
         /\ VolumeOf(b)' = VolumeOf(b) + (IF Counts(trade, b) THEN trade.qty ELSE 0)
<1> DEFINE n == Len(tape)
           f == QtysOf(b)
           h == QtysOf(b)'
<1>1. /\ n \in Nat /\ Len(tape') = n + 1
      /\ DOMAIN tape = 1..n /\ DOMAIN tape' = 1..(n + 1) /\ tape'[n + 1] = trade
      /\ \A i \in 1..n : tape'[i] = tape[i] /\ tape[i] \in Trades
  BY TapeGrows
<1>2. /\ TradesOf(b) \subseteq 1..n
      /\ TradesOf(b)' = IF Counts(trade, b) THEN TradesOf(b) \cup {n + 1} ELSE TradesOf(b)
  BY TradesGrow
<1>3. PICK v : AddsUp(n, f, v) /\ VolumeOf(b) = v[n]
  BY VolumeThere DEF VolumeSums
<1>4. PICK w : AddsUp(n + 1, h, w) /\ VolumeOf(b)' = w[n + 1]
  BY <1>1, VolumeThereNext DEF VolumeSums
<1>5. trade.qty \in Nat
  BY CandlesAssumption DEF Trades
<1>6. h[n + 1] = IF Counts(trade, b) THEN trade.qty ELSE 0
  <2>1. n + 1 \in 1..(n + 1) /\ n + 1 \notin 1..n
    BY <1>1
  <2> QED
    BY <1>1, <1>2, <2>1 DEF QtysOf
<1>7. Share(n, f, h)
  <2> SUFFICES ASSUME NEW i \in 1..n PROVE f[i] \in Nat /\ f[i] = h[i]
    BY DEF Share
  <2>1. i \in 1..(n + 1) /\ i # n + 1
    BY <1>1
  <2>2. i \in TradesOf(b)' <=> i \in TradesOf(b)
    BY <1>2, <2>1
  <2>3. tape[i].qty \in Nat /\ tape'[i] = tape[i]
    BY <1>1, CandlesAssumption DEF Trades
  <2> QED
    BY <1>1, <2>1, <2>2, <2>3 DEF QtysOf
<1> HIDE DEF n, f, h
<1>8. v[n] \in Nat /\ v[n] = w[n]
  <2>1. n + 1 \in Nat /\ n <= n + 1
    BY <1>1
  <2> QED
    BY <1>1, <1>3, <1>4, <1>7, <2>1, SumsAgree
<1>9. w[n + 1] = w[n] + h[n + 1]
  <2>1. n + 1 \in 1..(n + 1) /\ (n + 1) - 1 = n /\ n + 1 \in Nat
    BY <1>1
  <2>2. w[n + 1] = w[(n + 1) - 1] + h[n + 1]
    BY <1>4, <2>1, AddsUpAt
  <2> QED
    BY <2>1, <2>2
<1>10. VolumeOf(b)' = VolumeOf(b) + h[n + 1]
  BY <1>3, <1>4, <1>8, <1>9
<1> QED
  BY <1>3, <1>6, <1>8, <1>10

LEMMA VolumeOfNone ==
  ASSUME TypeOK, NEW b, TradesOf(b) = {}
  PROVE  VolumeOf(b) = 0
<1> DEFINE n == Len(tape)
           f == QtysOf(b)
           zeros == [i \in 0..n |-> 0]
<1>1. n \in Nat /\ DOMAIN tape = 1..n
  BY LenProperties DEF TypeOK
<1>2. PICK v : AddsUp(n, f, v) /\ VolumeOf(b) = v[n]
  BY VolumeThere DEF VolumeSums
<1>3. \A i \in 1..n : f[i] = 0
  BY <1>1 DEF QtysOf
<1>4. Share(n, f, f)
  BY <1>3 DEF Share
<1> HIDE DEF n, f
<1>5. AddsUp(n, f, zeros)
  BY <1>1, <1>3 DEF AddsUp
<1>6. zeros[n] = 0
  BY <1>1
<1> HIDE DEF zeros
<1>7. v[n] = zeros[n]
  <2>1. n <= n
    BY <1>1
  <2> QED
    BY <1>1, <1>2, <1>4, <1>5, <2>1, SumsAgree
<1> QED
  BY <1>2, <1>6, <1>7

\* The candle of another interval stays the candle of its interval.
LEMMA CandleKept ==
  ASSUME TypeOK, TypeOK', NEW trade \in Trades, tape' = Append(tape, trade),
         NEW b, ~Counts(trade, b), NEW candle, IsCandleOf(candle, b)
  PROVE  IsCandleOf(candle, b)'
<1> DEFINE n == Len(tape)
<1>1. \A i \in 1..n : tape'[i] = tape[i]
  BY TapeGrows
<1>2. TradesOf(b) \subseteq 1..n /\ TradesOf(b)' = TradesOf(b)
  BY TradesGrow
<1>3. VolumeOf(b)' = VolumeOf(b)
  BY VolumeGrows
<1> HIDE DEF n
<1> QED
  BY <1>1, <1>2, <1>3 DEF IsCandleOf

\* The candle of the trade's interval, extended by the trade, is again that of
\* its interval.
LEMMA CandleExtended ==
  ASSUME TypeOK, TypeOK', NEW trade \in Trades, tape' = Append(tape, trade),
         NEW b, Counts(trade, b), NEW candle \in Candle, IsCandleOf(candle, b)
  PROVE  IsCandleOf(Extended(candle, trade), b)'
<1> DEFINE n == Len(tape)
           m == n + 1
           T == TradesOf(b)
           d == Extended(candle, trade)
<1>1. /\ n \in Nat /\ tape'[m] = trade
      /\ \A i \in 1..n : tape'[i] = tape[i] /\ tape[i] \in Trades
  BY TapeGrows
<1>2. T \subseteq 1..n /\ TradesOf(b)' = T \cup {m}
  BY TradesGrow
<1>3. VolumeOf(b)' = VolumeOf(b) + trade.qty
  BY VolumeGrows
<1>4. /\ d.open = candle.open /\ d.close = trade.price
      /\ d.high = Higher(candle.high, trade.price)
      /\ d.low = Lower(candle.low, trade.price)
      /\ d.volume = candle.volume + trade.qty
  BY DEF Extended, Candle
<1>5. /\ \E i \in T : candle.open = tape[i].price /\ \A j \in T : i <= j
      /\ \E i \in T : candle.high = tape[i].price
      /\ \E i \in T : candle.low = tape[i].price
      /\ \A i \in T : candle.low <= tape[i].price /\ tape[i].price <= candle.high
      /\ candle.volume = VolumeOf(b)
  BY DEF IsCandleOf
<1>6. /\ candle.high \in Nat /\ candle.low \in Nat /\ trade.price \in Nat
      /\ \A i \in 1..n : tape[i].price \in Nat
  BY <1>1, CandlesAssumption DEF Candle, Trades
<1>7. /\ m \in TradesOf(b)' /\ \A i \in T : i \in TradesOf(b)' /\ tape'[i] = tape[i] /\ i <= m
      /\ \A i \in TradesOf(b)' : i \in T \/ i = m
  BY <1>1, <1>2
<1> HIDE DEF n, m, T, d
<1>8. \E i \in TradesOf(b)' : d.open = tape'[i].price /\ \A j \in TradesOf(b)' : i <= j
  BY <1>4, <1>5, <1>7
<1>9. \E i \in TradesOf(b)' : d.close = tape'[i].price /\ \A j \in TradesOf(b)' : j <= i
  <2>1. d.close = tape'[m].price /\ m <= m
    BY <1>1, <1>4 DEF m
  <2> QED
    BY <1>7, <2>1
<1>10. \E i \in TradesOf(b)' : d.high = tape'[i].price
  BY <1>1, <1>4, <1>5, <1>7 DEF Higher
<1>11. \E i \in TradesOf(b)' : d.low = tape'[i].price
  BY <1>1, <1>4, <1>5, <1>7 DEF Lower
<1>12. \A i \in TradesOf(b)' : d.low <= tape'[i].price /\ tape'[i].price <= d.high
  <2> SUFFICES ASSUME NEW i \in TradesOf(b)'
               PROVE  d.low <= tape'[i].price /\ tape'[i].price <= d.high
    OBVIOUS
  <2>1. d.low <= candle.low /\ d.low <= trade.price /\ candle.high <= d.high /\ trade.price <= d.high
    BY <1>4, <1>6 DEF Higher, Lower
  <2>2. d.low \in Nat /\ d.high \in Nat
    BY <1>4, <1>6 DEF Higher, Lower
  <2>3. CASE i = m
    BY <1>1, <2>1, <2>3
  <2>4. CASE i \in T
    <3>1. tape'[i] = tape[i] /\ tape[i].price \in Nat
      BY <1>2, <1>6, <1>7, <2>4
    <3>2. candle.low <= tape[i].price /\ tape[i].price <= candle.high
      BY <1>5, <2>4
    <3> QED
      BY <1>6, <2>1, <2>2, <3>1, <3>2
  <2> QED
    BY <1>7, <2>3, <2>4
<1>13. d.volume = VolumeOf(b)'
  BY <1>3, <1>4, <1>5
<1>14. IsCandleOf(d, b)'
  BY <1>8, <1>9, <1>10, <1>11, <1>12, <1>13 DEF IsCandleOf, d
<1> QED
  BY <1>14 DEF d

\* The first trade of an interval opens the candle of the interval.
LEMMA CandleOpened ==
  ASSUME TypeOK, TypeOK', NEW trade \in Trades, tape' = Append(tape, trade),
         NEW b, Counts(trade, b), TradesOf(b) = {}
  PROVE  IsCandleOf(Opened(trade), b)'
<1> DEFINE m == Len(tape) + 1
           d == Opened(trade)
<1>1. m \in Nat /\ tape'[m] = trade
  BY TapeGrows
<1>2. TradesOf(b)' = {m}
  BY TradesGrow
<1>3. VolumeOf(b)' = trade.qty
  <2>1. VolumeOf(b)' = 0 + trade.qty /\ trade.qty \in Nat
    BY VolumeGrows, VolumeOfNone, CandlesAssumption DEF Trades
  <2> QED
    BY <2>1
<1>4. /\ d.open = trade.price /\ d.close = trade.price /\ d.high = trade.price
      /\ d.low = trade.price /\ d.volume = trade.qty /\ trade.price \in Nat
  BY CandlesAssumption DEF Opened, Trades
<1> HIDE DEF m, d
<1>5. IsCandleOf(d, b)'
  <2>1. tape'[m].price = trade.price /\ m <= m /\ trade.price <= trade.price
    BY <1>1, <1>4
  <2>2. \A i \in TradesOf(b)' : i = m
    BY <1>2
  <2>3. m \in TradesOf(b)'
    BY <1>2
  <2>4. \E i \in TradesOf(b)' : d.open = tape'[i].price /\ \A j \in TradesOf(b)' : i <= j
    BY <1>4, <2>1, <2>2, <2>3
  <2>5. \E i \in TradesOf(b)' : d.close = tape'[i].price /\ \A j \in TradesOf(b)' : j <= i
    BY <1>4, <2>1, <2>2, <2>3
  <2>6. /\ \E i \in TradesOf(b)' : d.high = tape'[i].price
        /\ \E i \in TradesOf(b)' : d.low = tape'[i].price
    BY <1>4, <2>1, <2>3
  <2>7. \A i \in TradesOf(b)' : d.low <= tape'[i].price /\ tape'[i].price <= d.high
    BY <1>4, <2>1, <2>2
  <2>8. d.volume = VolumeOf(b)'
    BY <1>3, <1>4
  <2> QED
    BY <2>4, <2>5, <2>6, <2>7, <2>8 DEF IsCandleOf
<1> QED
  BY <1>5 DEF d

-----------------------------------------------------------------------------
(* The builder *)

\* There is no completed candle without a current one, and the candles are
\* exact.
BuildInv ==
  /\ current = NoCandle => completed = <<>>
  /\ BuiltExactly

\* The three promises of exactness.
OnePerInterval ==
  {Built[k].ts : k \in DOMAIN Built} = {b \in {Bucket(t) : t \in TradeTimes} : TradesOf(b) # {}}
Ascending == \A j, k \in DOMAIN Built : j < k => Built[j].ts < Built[k].ts
EachExact == \A candle \in {Built[k] : k \in DOMAIN Built} : IsCandleOf(candle, candle.ts)

LEMMA ExactParts == BuiltExactly <=> (IntervalsInOrder => OnePerInterval /\ Ascending /\ EachExact)
  BY DEF BuiltExactly, OnePerInterval, Ascending, EachExact

LEMMA BuildInit == Init => BuildInv
<1> SUFFICES ASSUME Init PROVE BuildInv
  OBVIOUS
<1>1. tape = <<>> /\ completed = <<>> /\ current = NoCandle
  BY DEF Init
<1>2. Built = <<>> /\ DOMAIN Built = {}
  BY <1>1 DEF Built
<1>3. \A b : TradesOf(b) = {}
  BY <1>1 DEF TradesOf
<1>4. OnePerInterval /\ Ascending /\ EachExact
  BY <1>2, <1>3 DEF OnePerInterval, Ascending, EachExact
<1> QED
  BY <1>1, <1>4, ExactParts DEF BuildInv

\* The builder's candles, with a current one and without.
BuiltShape ==
  /\ Built \in Seq(Candle)
  /\ current = NoCandle => Built = completed
  /\ current # NoCandle =>
       LET m == Len(completed)
       IN  /\ m \in Nat /\ DOMAIN Built = 1..(m + 1) /\ DOMAIN completed = 1..m
           /\ current \in Candle /\ Built[m + 1] = current
           /\ \A k \in 1..m : Built[k] = completed[k]

LEMMA BuiltType == TypeOK => BuiltShape
<1> SUFFICES ASSUME TypeOK PROVE BuiltShape
  OBVIOUS
<1>1. completed \in Seq(Candle) /\ current \in Candle \cup {NoCandle}
  BY DEF TypeOK
<1>2. CASE current = NoCandle
  BY <1>1, <1>2 DEF Built, BuiltShape
<1>3. CASE current # NoCandle
  <2>1. current \in Candle /\ Built = Append(completed, current)
    BY <1>1, <1>3 DEF Built
  <2> QED
    BY <1>1, <1>3, <2>1, AppendProperties, LenProperties DEF BuiltShape
<1> QED
  BY <1>2, <1>3

LEMMA BuiltTypeNext == TypeOK' => BuiltShape'
  BY BuiltType, PTL

\* If the intervals are in order with the trade, they were before it, and the
\* trade's is none before the others'.
LEMMA OrderBefore ==
  ASSUME TypeOK, NEW trade \in Trades, tape' = Append(tape, trade), IntervalsInOrder'
  PROVE  /\ IntervalsInOrder
         /\ \A b : TradesOf(b) # {} => b \in Nat /\ b <= Bucket(trade.at)
<1> DEFINE n == Len(tape)
<1>1. /\ n \in Nat /\ DOMAIN tape = 1..n /\ DOMAIN tape' = 1..(n + 1) /\ tape'[n + 1] = trade
      /\ \A i \in 1..n : tape'[i] = tape[i] /\ tape[i] \in Trades
  BY TapeGrows
<1> HIDE DEF n
<1>2. \A i, j \in 1..(n + 1) : i < j => Bucket(tape'[i].at) <= Bucket(tape'[j].at)
  BY <1>1 DEF IntervalsInOrder, Bucket
<1>3. \A i \in 1..n : i \in 1..(n + 1) /\ i < n + 1
  BY <1>1
<1>4. n + 1 \in 1..(n + 1)
  BY <1>1
<1>5. IntervalsInOrder
  BY <1>1, <1>2, <1>3 DEF IntervalsInOrder
<1>6. ASSUME NEW b, TradesOf(b) # {} PROVE b \in Nat /\ b <= Bucket(trade.at)
  <2>1. PICK i \in 1..n : Bucket(tape[i].at) = b
    BY <1>1, <1>6 DEF TradesOf
  <2>2. tape[i].at \in Nat
    BY <1>1, CandlesAssumption DEF Trades
  <2>3. b \in Nat
    BY <2>1, <2>2, BucketType
  <2>4. Bucket(tape'[i].at) <= Bucket(tape'[n + 1].at)
    BY <1>2, <1>3, <1>4
  <2>5. tape'[i] = tape[i] /\ tape'[n + 1] = trade
    BY <1>1
  <2> QED
    BY <2>1, <2>3, <2>4, <2>5
<1> QED
  BY <1>5, <1>6

LEMMA CandleIsOne == ASSUME NEW c \in Candle PROVE c.ts \in Nat /\ c # NoCandle
<1>1. c.ts \in Nat
  BY DEF Candle
<1>2. NoCandle.ts = -1
  BY DEF NoCandle
<1> QED
  BY <1>1, <1>2

\* A trade without a price changes no candle.
LEMMA TradeIgnored ==
  ASSUME TypeOK, TypeOK', OnePerInterval, Ascending, EachExact,
         NEW trade \in Trades, UpdateTrade(trade), trade.price = 0
  PROVE  OnePerInterval' /\ Ascending' /\ EachExact'
<1>1. tape' = Append(tape, trade) /\ Built' = Built
  BY DEF UpdateTrade, Built
<1>2. \A b : ~Counts(trade, b)
  BY DEF Counts
<1>3. \A b : TradesOf(b)' = TradesOf(b)
  BY <1>1, <1>2, TradesGrow
<1>4. OnePerInterval'
  BY <1>1, <1>3 DEF OnePerInterval
<1>5. Ascending'
  BY <1>1 DEF Ascending
<1>6. EachExact'
  <2> SUFFICES ASSUME NEW c, c \in {Built[k] : k \in DOMAIN Built} PROVE IsCandleOf(c, c.ts)'
    BY <1>1 DEF EachExact
  <2>1. IsCandleOf(c, c.ts)
    BY DEF EachExact
  <2> QED
    BY <1>1, <1>2, <2>1, CandleKept
<1> QED
  BY <1>4, <1>5, <1>6

\* A trade of the current candle's interval extends it; the candles before it
\* are of other intervals.
LEMMA TradeExtends ==
  ASSUME TypeOK, TypeOK', OnePerInterval, Ascending, EachExact,
         NEW trade \in Trades, UpdateTrade(trade), trade.price # 0,
         current # NoCandle, current.ts = Bucket(trade.at)
  PROVE  OnePerInterval' /\ Ascending' /\ EachExact'
<1> DEFINE m == Len(completed)
           b == Bucket(trade.at)
<1>1. tape' = Append(tape, trade) /\ current' = Extended(current, trade) /\ completed' = completed
  BY DEF UpdateTrade
<1>2. /\ m \in Nat /\ DOMAIN Built = 1..(m + 1) /\ current \in Candle /\ Built[m + 1] = current
      /\ \A k \in 1..m : Built[k] = completed[k]
  BY BuiltType DEF BuiltShape
<1>3. PICK c : c = current
  OBVIOUS
<1>4. PICK d : d = Extended(c, trade)
  OBVIOUS
<1>5. c \in Candle /\ c.ts = b /\ d.ts = b /\ current' = d
  BY <1>1, <1>2, <1>3, <1>4 DEF Extended, Candle
<1>6. current' # NoCandle
  <2>1. d \in Candle \cup {NoCandle}
    BY <1>5 DEF TypeOK
  <2>2. d.ts \in Nat
    BY <1>5, CandleIsOne
  <2>3. NoCandle.ts = -1
    BY DEF NoCandle
  <2> QED
    BY <1>5, <2>2, <2>3
<1>7. /\ DOMAIN Built' = 1..(m + 1) /\ Built'[m + 1] = d
      /\ \A k \in 1..m : Built'[k] = completed[k]
  BY <1>1, <1>5, <1>6, BuiltTypeNext DEF BuiltShape
<1>8. trade.price > 0
  <2>1. trade.price \in Nat
    BY CandlesAssumption DEF Trades
  <2> QED
    BY <2>1
<1>9. Counts(trade, b) /\ \A x : Counts(trade, x) => x = b
  BY <1>8 DEF Counts
<1> HIDE DEF m, b
<1>10. m + 1 \in 1..(m + 1) /\ \A k \in 1..(m + 1) : k \in 1..m \/ k = m + 1
  BY <1>2
<1>11. \A k \in 1..m : k \in 1..(m + 1) /\ k < m + 1
  BY <1>2
<1>12. \A k \in DOMAIN Built : Built'[k].ts = Built[k].ts
  BY <1>2, <1>3, <1>5, <1>7, <1>10
<1>13. Ascending'
  BY <1>2, <1>7, <1>12 DEF Ascending
<1>14. TradesOf(b) # {}
  <2>1. b \in {Built[k].ts : k \in DOMAIN Built}
    BY <1>2, <1>3, <1>5, <1>10
  <2> QED
    BY <2>1 DEF OnePerInterval
<1>15. \A x : TradesOf(x)' # {} <=> TradesOf(x) # {}
  <2> SUFFICES ASSUME NEW x PROVE TradesOf(x)' # {} <=> TradesOf(x) # {}
    OBVIOUS
  <2>1. CASE Counts(trade, x)
    <3>1. TradesOf(x)' = TradesOf(x) \cup {Len(tape) + 1}
      BY <1>1, <2>1, TradesGrow
    <3> QED
      BY <1>9, <1>14, <2>1, <3>1
  <2>2. CASE ~Counts(trade, x)
    BY <1>1, <2>2, TradesGrow
  <2> QED
    BY <2>1, <2>2
<1>16. OnePerInterval'
  <2>1. {Built'[k].ts : k \in DOMAIN Built'} = {Built[k].ts : k \in DOMAIN Built}
    BY <1>2, <1>7, <1>12
  <2> QED
    BY <1>15, <2>1 DEF OnePerInterval, Bucket
<1>17. EachExact'
  <2> SUFFICES ASSUME NEW e, e \in {Built'[k] : k \in DOMAIN Built'} PROVE IsCandleOf(e, e.ts)'
    BY DEF EachExact
  <2>1. PICK k \in 1..(m + 1) : e = Built'[k]
    BY <1>7
  <2>2. CASE k = m + 1
    <3>1. e = Extended(c, trade) /\ e.ts = b
      BY <1>4, <1>5, <1>7, <2>1, <2>2
    <3>2. IsCandleOf(c, b)
      <4>1. c \in {Built[l] : l \in DOMAIN Built}
        BY <1>2, <1>3, <1>10
      <4>2. IsCandleOf(c, c.ts)
        BY <4>1 DEF EachExact
      <4> QED
        BY <1>5, <4>2
    <3>3. IsCandleOf(Extended(c, trade), b)'
      BY <1>1, <1>5, <1>9, <3>2, CandleExtended
    <3> QED
      BY <3>1, <3>3
  <2>3. CASE k \in 1..m
    <3>1. e = Built[k] /\ k < m + 1 /\ k \in DOMAIN Built /\ m + 1 \in DOMAIN Built
      BY <1>2, <1>7, <1>10, <1>11, <2>1, <2>3
    <3>2. e \in Candle /\ e.ts \in Nat /\ e.ts < b
      <4>1. Built[k].ts < Built[m + 1].ts
        BY <3>1 DEF Ascending
      <4>2. Built[k] \in Candle
        BY <3>1, BuiltType, ElementOfSeq DEF BuiltShape
      <4> QED
        BY <1>2, <1>3, <1>5, <3>1, <4>1, <4>2, CandleIsOne
    <3>3. ~Counts(trade, e.ts)
      <4>1. b \in Nat
        BY <1>5, CandleIsOne
      <4> QED
        BY <1>9, <3>2, <4>1
    <3>4. IsCandleOf(e, e.ts)
      BY <3>1 DEF EachExact
    <3> QED
      BY <1>1, <3>3, <3>4, CandleKept
  <2> QED
    BY <1>10, <2>2, <2>3
<1> QED
  BY <1>13, <1>16, <1>17

\* A trade of a later interval opens its candle, behind all the others.
LEMMA TradeOpens ==
  ASSUME TypeOK, TypeOK', OnePerInterval, Ascending, EachExact,
         current = NoCandle => completed = <<>>,
         NEW trade \in Trades, UpdateTrade(trade), trade.price # 0,
         ~(current # NoCandle /\ current.ts = Bucket(trade.at)), IntervalsInOrder'
  PROVE  OnePerInterval' /\ Ascending' /\ EachExact'
<1> DEFINE m == Len(Built)
           b == Bucket(trade.at)
<1>1. tape' = Append(tape, trade) /\ current' = Opened(trade) /\ completed' = Built
  BY DEF UpdateTrade
<1>2. Built \in Seq(Candle) /\ m \in Nat /\ DOMAIN Built = 1..m
  BY BuiltType, LenProperties DEF BuiltShape
<1>3. PICK d : d = Opened(trade)
  OBVIOUS
<1>4. trade.at \in TradeTimes /\ trade.at \in Nat /\ b \in Nat /\ d.ts = b /\ current' = d
  BY <1>1, <1>3, CandlesAssumption, BucketType DEF Opened, Trades
<1>5. current' # NoCandle
  <2>1. NoCandle.ts = -1
    BY DEF NoCandle
  <2> QED
    BY <1>4, <2>1
<1>6. /\ DOMAIN Built' = 1..(m + 1) /\ Built'[m + 1] = d
      /\ \A k \in 1..m : Built'[k] = Built[k]
  BY <1>1, <1>4, <1>5, BuiltTypeNext DEF BuiltShape
<1>7. Counts(trade, b) /\ \A x : Counts(trade, x) => x = b
  <2>1. trade.price \in Nat
    BY CandlesAssumption DEF Trades
  <2>2. trade.price > 0
    BY <2>1
  <2> QED
    BY <2>2 DEF Counts
<1>8. \A x : TradesOf(x) # {} => x \in Nat /\ x <= b
  BY <1>1, OrderBefore
<1>9. \A k \in DOMAIN Built : Built[k] \in Candle /\ Built[k].ts \in Nat
  BY <1>2, ElementOfSeq, CandleIsOne
<1>10. b \in {Bucket(t) : t \in TradeTimes}
  BY <1>4
<1> HIDE DEF m, b
<1>11. \A k \in DOMAIN Built : Built[k].ts < b
  <2> SUFFICES ASSUME NEW k \in DOMAIN Built PROVE Built[k].ts < b
    OBVIOUS
  <2>1. \A l \in DOMAIN Built : Built[l].ts <= b
    BY <1>8 DEF OnePerInterval
  <2>2. CASE current = NoCandle
    <3>1. Built = <<>>
      BY <2>2 DEF Built
    <3> QED
      BY <3>1
  <2>3. CASE current # NoCandle
    <3> DEFINE n == Len(completed) + 1
    <3>1. n \in Nat /\ DOMAIN Built = 1..n /\ Built[n] = current
      BY <2>3, BuiltType DEF BuiltShape
    <3>2. current.ts # b
      BY <2>3 DEF b
    <3> HIDE DEF n
    <3>3. n \in DOMAIN Built
      BY <3>1
    <3>4. Built[n].ts < b
      BY <1>4, <1>9, <2>1, <3>1, <3>2, <3>3
    <3>5. k < n => Built[k].ts < Built[n].ts
      BY <3>3 DEF Ascending
    <3>6. k = n \/ k < n
      BY <3>1
    <3> QED
      BY <1>4, <1>9, <3>3, <3>4, <3>5, <3>6
  <2> QED
    BY <2>2, <2>3
<1>12. TradesOf(b) = {}
  <2> SUFFICES ASSUME TradesOf(b) # {} PROVE FALSE
    OBVIOUS
  <2>1. b \in {Built[k].ts : k \in DOMAIN Built}
    BY <1>10 DEF OnePerInterval
  <2>2. PICK k \in DOMAIN Built : Built[k].ts = b
    BY <2>1
  <2> QED
    BY <1>4, <1>11, <2>2
<1>13. \A k \in 1..(m + 1) : k \in 1..m \/ k = m + 1
  BY <1>2
<1>14. m + 1 \in 1..(m + 1) /\ (\A k \in 1..m : k \in 1..(m + 1)) /\ m + 1 \notin 1..m
  BY <1>2
<1>15. Ascending'
  <2> SUFFICES ASSUME NEW j \in 1..(m + 1), NEW k \in 1..(m + 1), j < k
               PROVE  Built'[j].ts < Built'[k].ts
    BY <1>6 DEF Ascending
  <2>1. j \in 1..m
    BY <1>2
  <2>2. CASE k = m + 1
    BY <1>2, <1>4, <1>6, <1>11, <2>1, <2>2
  <2>3. CASE k \in 1..m
    <3>1. Built[j].ts < Built[k].ts
      BY <1>2, <2>1, <2>3 DEF Ascending
    <3> QED
      BY <1>6, <2>1, <2>3, <3>1
  <2> QED
    BY <1>13, <2>2, <2>3
<1>16. \A x : TradesOf(x)' # {} <=> TradesOf(x) # {} \/ x = b
  <2> SUFFICES ASSUME NEW x PROVE TradesOf(x)' # {} <=> TradesOf(x) # {} \/ x = b
    OBVIOUS
  <2>1. CASE Counts(trade, x)
    <3>1. TradesOf(x)' = TradesOf(x) \cup {Len(tape) + 1}
      BY <1>1, <2>1, TradesGrow
    <3> QED
      BY <1>7, <2>1, <3>1
  <2>2. CASE ~Counts(trade, x)
    <3>1. TradesOf(x)' = TradesOf(x)
      BY <1>1, <2>2, TradesGrow
    <3> QED
      BY <1>7, <2>2, <3>1
  <2> QED
    BY <2>1, <2>2
<1>17. OnePerInterval'
  <2> DEFINE old == {Built[k].ts : k \in DOMAIN Built}
             new == {Built'[k].ts : k \in DOMAIN Built'}
             all == {Bucket(t) : t \in TradeTimes}
  <2>1. \A x : x \in new <=> x \in old \/ x = b
    BY <1>2, <1>4, <1>6, <1>13, <1>14
  <2>2. \A x : x \in old <=> x \in all /\ TradesOf(x) # {}
    BY DEF OnePerInterval
  <2>3. b \in all
    BY <1>10
  <2> HIDE DEF old, new, all
  <2>4. new = {x \in all : TradesOf(x)' # {}}
    BY <1>16, <2>1, <2>2, <2>3
  <2> QED
    BY <2>4 DEF OnePerInterval, new, all, Bucket
<1>18. EachExact'
  <2> SUFFICES ASSUME NEW e, e \in {Built'[k] : k \in DOMAIN Built'} PROVE IsCandleOf(e, e.ts)'
    BY DEF EachExact
  <2>1. PICK k \in 1..(m + 1) : e = Built'[k]
    BY <1>6
  <2>2. CASE k = m + 1
    <3>1. e = Opened(trade) /\ e.ts = b
      BY <1>3, <1>4, <1>6, <2>1, <2>2
    <3>2. IsCandleOf(Opened(trade), b)'
      BY <1>1, <1>7, <1>12, CandleOpened
    <3> QED
      BY <3>1, <3>2
  <2>3. CASE k \in 1..m
    <3>1. e = Built[k] /\ k \in DOMAIN Built
      BY <1>2, <1>6, <2>1, <2>3
    <3>2. ~Counts(trade, e.ts)
      BY <1>4, <1>7, <1>9, <1>11, <3>1
    <3>3. IsCandleOf(e, e.ts)
      BY <3>1 DEF EachExact
    <3> QED
      BY <1>1, <3>2, <3>3, CandleKept
  <2> QED
    BY <1>13, <2>2, <2>3
<1> QED
  BY <1>15, <1>17, <1>18

\* An action that leaves the builder alone.
LEMMA BuilderLeftAlone == ASSUME BuildInv, UNCHANGED building PROVE BuildInv'
<1>1. UNCHANGED <<tape, completed, current>> /\ UNCHANGED Built
  BY DEF building, Built
<1>2. UNCHANGED IntervalsInOrder
  BY <1>1 DEF IntervalsInOrder, Bucket
<1>3. \A b : TradesOf(b)' = TradesOf(b)
  BY <1>1 DEF TradesOf, Bucket
<1>4. \A b : VolumeOf(b)' = VolumeOf(b)
  BY <1>1 DEF VolumeOf, QtysOf, TradesOf, Bucket
<1>5. \A c, b : IsCandleOf(c, b)' <=> IsCandleOf(c, b)
  BY <1>1, <1>3, <1>4 DEF IsCandleOf
<1>6. OnePerInterval => OnePerInterval'
  BY <1>1, <1>3 DEF OnePerInterval, Bucket
<1>7. Ascending => Ascending'
  BY <1>1 DEF Ascending
<1>8. EachExact => EachExact'
  BY <1>1, <1>5 DEF EachExact
<1> QED
  BY <1>1, <1>2, <1>6, <1>7, <1>8, ExactParts DEF BuildInv, BuiltExactly, OnePerInterval, Ascending, EachExact

LEMMA BuildTrade ==
  ASSUME TypeOK, TypeOK', BuildInv, NEW trade \in Trades, UpdateTrade(trade)
  PROVE  BuildInv'
<1>1. tape' = Append(tape, trade)
  BY DEF UpdateTrade
<1>2. current' = NoCandle => completed' = <<>>
  <2>1. CASE trade.price = 0
    BY <2>1 DEF UpdateTrade, BuildInv
  <2>2. CASE trade.price # 0
    <3>1. current'.ts = Bucket(trade.at)
      <4>1. current # NoCandle => current \in Candle
        BY DEF TypeOK
      <4>2. Opened(trade).ts = Bucket(trade.at)
        BY DEF Opened
      <4>3. ASSUME current \in Candle, current.ts = Bucket(trade.at)
            PROVE  Extended(current, trade).ts = Bucket(trade.at)
        BY <4>3 DEF Extended, Candle
      <4> QED
        BY <2>2, <4>1, <4>2, <4>3 DEF UpdateTrade
    <3>2. Bucket(trade.at) \in Nat /\ NoCandle.ts = -1
      BY CandlesAssumption, BucketType DEF Trades, NoCandle
    <3> QED
      BY <3>1, <3>2
  <2> QED
    BY <2>1, <2>2
<1>3. ASSUME IntervalsInOrder' PROVE OnePerInterval' /\ Ascending' /\ EachExact'
  <2>1. OnePerInterval /\ Ascending /\ EachExact
    BY <1>1, <1>3, OrderBefore, ExactParts DEF BuildInv
  <2>2. current = NoCandle => completed = <<>>
    BY DEF BuildInv
  <2>3. CASE trade.price = 0
    BY <2>1, <2>3, TradeIgnored
  <2>4. CASE trade.price # 0 /\ current # NoCandle /\ current.ts = Bucket(trade.at)
    BY <2>1, <2>4, TradeExtends
  <2>5. CASE trade.price # 0 /\ ~(current # NoCandle /\ current.ts = Bucket(trade.at))
    BY <1>3, <2>1, <2>2, <2>5, TradeOpens
  <2> QED
    BY <2>3, <2>4, <2>5
<1>4. BuiltExactly'
  BY <1>3 DEF BuiltExactly, OnePerInterval, Ascending, EachExact
<1> QED
  BY <1>2, <1>4 DEF BuildInv

LEMMA BuildNext == ASSUME TypeOK, TypeOK', BuildInv, [Next]_vars PROVE BuildInv'
<1>1. CASE EmptyPage
  BY <1>1, BuilderLeftAlone DEF EmptyPage
<1>2. CASE NextPage
  BY <1>2, BuilderLeftAlone DEF NextPage
<1>3. ASSUME NEW trade \in Trades, UpdateTrade(trade) PROVE BuildInv'
  BY <1>3, BuildTrade
<1>4. CASE UNCHANGED vars
  BY <1>4, BuilderLeftAlone DEF vars
<1> QED
  BY <1>1, <1>2, <1>3, <1>4 DEF Next

\* As long as no trade comes after one of a later interval, the candles a replay
\* builds are those of its trades: one for each interval with trades, in order,
\* with the interval's first, last, highest and lowest price and its volume
\* (_TradeCandleBuilder.update_trade, candles).
THEOREM BuilderExact == Spec => []BuiltExactly
<1>1. BuildInv => BuiltExactly
  BY DEF BuildInv
<1> QED
  BY <1>1, TypeCorrect, BuildInit, BuildNext, PTL DEF Spec
=============================================================================
