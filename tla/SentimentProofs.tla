-------------------------- MODULE SentimentProofs --------------------------
(***************************************************************************)
(* Theorems about the cached Fear & Greed index, for any number of         *)
(* processes, history length, refresh interval, publications and faults.   *)
(***************************************************************************)
EXTENDS Sentiment, WellFoundedInduction, TLAPS

\* What the provider had published when the tick before t ended.
Before(t) == IF t = 0 THEN 0 ELSE dayAt[t - 1]

\* The provider's days do not go back.
DaysGrow ==
  /\ dayAt[now] >= 1
  /\ \A t, u \in Times : (t <= u /\ u <= now) => dayAt[t] <= dayAt[u]

\* A row is as good a sign of freshness as the newest row would be: when it was
\* written, what its refresh had seen was cached.
RowsTrusted == \A d \in Saved : rows[d] <= now /\ Newest >= Before(rows[d])

\* The same will be true of each value still to be saved, when its turn comes.
BatchInOrder(p) ==
  \A k \in DOMAIN batch[p] :
    /\ batch[p][k].at <= now
    /\ \/ Newest >= Before(batch[p][k].at)
       \/ \E j \in 1..k : batch[p][j].day >= Before(batch[p][k].at)

Refreshing == {"history", "latest", "save", "write"}

\* The value that will have answered a writer's question is saved or about to be.
AnswerComing(w) ==
  \/ Newest >= Before(asked[w])
  \/ \E k \in DOMAIN batch[w] : batch[w][k].day >= Before(asked[w])

ToldWell(w) ==
  /\ told[w].day >= kept[w]
  /\ (told[w].from # "fallback" /\ asked[w] >= RefreshAfter)
       => told[w].day >= dayAt[asked[w] - RefreshAfter]

CycleSound(w) ==
  /\ asked[w] <= now
  /\ pc[w] \in Refreshing => Newest >= kept[w]
  /\ pc[w] \in {"save", "write"} => AnswerComing(w)
  /\ pc[w] = "told" => ToldWell(w)

ProcSound(p) ==
  /\ pc[p] = "write" => batch[p] # <<>>
  /\ BatchInOrder(p)
  /\ p \in Writers => CycleSound(p)

SentimentInv ==
  /\ TypeOK
  /\ DaysGrow
  /\ RowsTrusted
  /\ \A p \in Procs : ProcSound(p)

-----------------------------------------------------------------------------
(* The newest day *)

LEMMA HasGreatest ==
  ASSUME NEW S \in SUBSET (0..LastDay), S # {}
  PROVE  \E d \in S : \A e \in S : e <= d
<1> DEFINE T == {LastDay - d : d \in S}
<1>1. T \subseteq Nat /\ T # {} /\ LastDay \in Nat
  <2>1. LastDay \in Nat /\ \A d \in S : LastDay - d \in Nat
    BY SentimentAssumption
  <2>2. PICK d \in S : TRUE
    OBVIOUS
  <2>3. LastDay - d \in T
    OBVIOUS
  <2>4. T \subseteq Nat
    BY <2>1
  <2> QED
    BY <2>1, <2>3, <2>4
<1> HIDE DEF T
<1>2. PICK m \in T : \A k \in T : <<k, m>> \notin OpToRel(<, Nat)
  BY <1>1, NatLessThanWellFounded, WFMin, Zenon
<1>3. \A k \in T : ~(k < m)
  BY <1>1, <1>2, Zenon DEF OpToRel
<1>4. PICK d \in S : m = LastDay - d
  BY DEF T
<1>5. \A e \in S : ~(LastDay - e < LastDay - d)
  BY <1>3, <1>4 DEF T
<1>6. \A e \in S : e <= d
  BY <1>1, <1>5
<1> QED
  BY <1>6

LEMMA GreatestFacts ==
  ASSUME NEW S \in SUBSET Days, NEW n, n = CHOOSE d \in S \cup {0} : \A e \in S : e <= d
  PROVE  n \in S \cup {0} /\ (\A e \in S : e <= n) /\ n \in 0..LastDay
<1>1. S \cup {0} \in SUBSET (0..LastDay)
  BY SentimentAssumption DEF Days
<1>2. PICK d \in S \cup {0} : \A e \in S \cup {0} : e <= d
  BY <1>1, HasGreatest
<1>3. \A e \in S : e <= d
  BY <1>2
<1>4. n \in S \cup {0} /\ \A e \in S : e <= n
  BY <1>3, Zenon
<1> QED
  BY <1>1, <1>4

LEMMA NewestFacts ==
  TypeOK => Newest \in Saved \cup {0} /\ (\A e \in Saved : e <= Newest) /\ Newest \in 0..LastDay
<1>1. Saved \in SUBSET Days
  BY DEF Saved
<1> QED
  BY <1>1, GreatestFacts DEF Newest

\* Rows are never taken back.
LEMMA NewestGrows ==
  ASSUME Saved \subseteq Saved'
  PROVE  /\ Newest <= Newest' /\ Newest \in 0..LastDay /\ Newest' \in 0..LastDay
         /\ \A e \in Saved' : e <= Newest'
<1>1. Saved \in SUBSET Days /\ Saved' \in SUBSET Days
  BY DEF Saved
<1>2. Newest \in Saved \cup {0} /\ Newest \in 0..LastDay
  BY <1>1, GreatestFacts DEF Newest
<1>3. (\A e \in Saved' : e <= Newest') /\ Newest' \in 0..LastDay
  BY <1>1, GreatestFacts DEF Newest
<1> QED
  BY <1>2, <1>3, SentimentAssumption

LEMMA ValueTimes ==
  ASSUME NEW b \in Seq(Values), NEW k \in DOMAIN b
  PROVE  b[k].at \in Times
<1>1. b[k] \in Values
  OBVIOUS
<1> QED
  BY <1>1 DEF Values

\* What a refresh fetches is what there is now.
LEMMA FetchTypes ==
  ASSUME TypeOK, DaysGrow
  PROVE  /\ Latest \in Values /\ Latest.day = dayAt[now] /\ Latest.at = now
         /\ History \in Seq(Values)
         /\ 1 \in DOMAIN History /\ History[1].day = dayAt[now]
         /\ \A k \in DOMAIN History : History[k].at = now /\ k >= 1
<1>1. now \in Times /\ Published = dayAt[now] /\ Published \in 1..LastDay
  BY DEF TypeOK, DaysGrow, Published
<1>2. HistoryLength \in 1..Published
  BY <1>1, SentimentAssumption DEF HistoryLength
<1>3. \A k \in 1..HistoryLength : [day |-> Published - k + 1, at |-> now] \in Values
  BY <1>1, <1>2, SentimentAssumption DEF Values, Days
<1>4. History \in [1..HistoryLength -> Values]
  BY <1>3 DEF History
<1>5. History \in Seq(Values)
  BY <1>2, <1>4, SentimentAssumption
<1>6. Latest \in Values
  BY <1>1 DEF Latest, Values, Days
<1> QED
  BY <1>1, <1>2, <1>5, <1>6, SentimentAssumption DEF History, Latest

-----------------------------------------------------------------------------
(* Steps of one process *)

Same(q) ==
  /\ pc'[q] = pc[q] /\ batch'[q] = batch[q] /\ asked'[q] = asked[q]
  /\ kept'[q] = kept[q] /\ told'[q] = told[q]

LEMMA BeforeType ==
  ASSUME TypeOK, NEW t \in Times
  PROVE  Before(t) \in 0..LastDay
<1>1. t # 0 => t - 1 \in Times
  BY SentimentAssumption DEF Times
<1> QED
  BY <1>1, SentimentAssumption DEF Before, TypeOK

\* A process that leaves the rows alone answers for itself only.
LEMMA LocalStep ==
  ASSUME SentimentInv, TypeOK', UNCHANGED <<now, dayAt, rows>>,
         NEW p \in Procs, \A q \in Procs \ {p} : Same(q),
         ProcSound(p)'
  PROVE  SentimentInv'
<1>1. DaysGrow'
  BY DEF SentimentInv, DaysGrow
<1>2. Newest' = Newest /\ Saved' = Saved /\ \A t : Before(t)' = Before(t)
  BY DEF Newest, Saved, Before
<1>3. RowsTrusted'
  BY <1>2 DEF SentimentInv, RowsTrusted
<1>4. ASSUME NEW q \in Procs, q # p PROVE ProcSound(q)'
  <2>1. ProcSound(q) /\ Same(q)
    BY <1>4 DEF SentimentInv
  <2> QED
    BY <1>2, <2>1 DEF Same, ProcSound, BatchInOrder, CycleSound, AnswerComing, ToldWell
<1> QED
  BY <1>1, <1>3, <1>4 DEF SentimentInv

\* A process that is idle, wherever it was.
LEMMA ForgetInv ==
  ASSUME SentimentInv, TypeOK', UNCHANGED <<now, dayAt, rows, asked>>, NEW p \in Procs,
         \A q \in Procs \ {p} : Same(q), pc'[p] = "idle", batch'[p] = <<>>
  PROVE  SentimentInv'
<1>1. BatchInOrder(p)'
  BY DEF BatchInOrder
<1>2. p \in Writers => asked[p] <= now
  BY DEF SentimentInv, ProcSound, CycleSound
<1>3. ProcSound(p)'
  BY <1>1, <1>2 DEF ProcSound, CycleSound, Refreshing
<1> QED
  BY <1>3, LocalStep

LEMMA TakeSnapshotInv ==
  ASSUME SentimentInv, NEW w \in Writers, TakeSnapshot(w)
  PROVE  SentimentInv'
<1>1. /\ w \in Procs /\ TypeOK /\ UNCHANGED <<now, dayAt, faults, rows, batch, found, kept, told>>
      /\ pc' = [pc EXCEPT ![w] = "ask"] /\ asked' = [asked EXCEPT ![w] = now]
  BY DEF TakeSnapshot, world, Procs, SentimentInv
<1>2. TypeOK'
  BY <1>1 DEF TypeOK
<1>3. \A q \in Procs \ {w} : Same(q)
  BY <1>1 DEF Same, TypeOK
<1>4. pc'[w] = "ask" /\ asked'[w] = now /\ batch'[w] = batch[w] /\ now \in Nat
  BY <1>1, SentimentAssumption DEF TypeOK, Times
<1>5. Newest' = Newest /\ \A t : Before(t)' = Before(t)
  BY <1>1 DEF Newest, Saved, Before
<1>6. BatchInOrder(w)'
  <2>1. BatchInOrder(w)
    BY <1>1 DEF SentimentInv, ProcSound
  <2> QED
    BY <1>1, <1>5, <2>1 DEF BatchInOrder
<1>7. ProcSound(w)'
  BY <1>1, <1>4, <1>6 DEF ProcSound, CycleSound, Refreshing
<1> QED
  BY <1>1, <1>2, <1>3, <1>7, LocalStep

LEMMA TellCachedInv ==
  ASSUME SentimentInv, NEW w \in Writers, TellCached(w)
  PROVE  SentimentInv'
<1>1. /\ w \in Procs /\ TypeOK /\ UNCHANGED <<now, dayAt, faults, rows, batch, found, asked>>
      /\ pc' = [pc EXCEPT ![w] = "told"] /\ kept' = [kept EXCEPT ![w] = Newest]
      /\ told' = [told EXCEPT ![w] = [day |-> Newest, from |-> "cache"]]
      /\ Newest # 0 /\ asked[w] - rows[Newest] < RefreshAfter
  BY DEF TellCached, world, Procs, SentimentInv, Fresh
<1>2. Newest \in Saved /\ Newest \in 0..LastDay
  BY <1>1, NewestFacts
<1>3. TypeOK'
  <2>1. [day |-> Newest, from |-> "cache"] \in [day : 0..LastDay, from : Sources]
    BY <1>2 DEF Sources
  <2> QED
    BY <1>1, <1>2, <2>1 DEF TypeOK
<1>4. \A q \in Procs \ {w} : Same(q)
  BY <1>1 DEF Same, TypeOK
<1>5. /\ pc'[w] = "told" /\ asked'[w] = asked[w] /\ batch'[w] = batch[w] /\ kept'[w] = Newest
      /\ told'[w] = [day |-> Newest, from |-> "cache"]
  BY <1>1 DEF TypeOK
<1>6. Newest' = Newest /\ \A t : Before(t)' = Before(t)
  BY <1>1 DEF Newest, Saved, Before
<1>7. ProcSound(w)
  BY <1>1 DEF SentimentInv
<1>8. BatchInOrder(w)'
  BY <1>1, <1>6, <1>7 DEF BatchInOrder, ProcSound
<1>9. ASSUME asked[w] >= RefreshAfter PROVE Newest >= dayAt[asked[w] - RefreshAfter]
  <2> DEFINE f == rows[Newest]
  <2>1. f \in Times /\ f <= now /\ Newest >= Before(f)
    BY <1>1, <1>2 DEF SentimentInv, RowsTrusted, TypeOK, Saved
  <2>2. asked[w] \in Times /\ now \in Times /\ asked[w] <= now
    BY <1>1, <1>7 DEF TypeOK, ProcSound, CycleSound
  <2>3. asked[w] - f < RefreshAfter
    BY <1>1
  <2> HIDE DEF f
  <2>4. /\ asked[w] - RefreshAfter \in Times /\ f - 1 \in Times /\ f # 0
        /\ asked[w] - RefreshAfter <= f - 1 /\ f - 1 <= now
    BY <1>9, <2>1, <2>2, <2>3, SentimentAssumption DEF Times
  <2>5. dayAt[asked[w] - RefreshAfter] <= dayAt[f - 1]
    BY <2>4 DEF SentimentInv, DaysGrow
  <2>6. dayAt[f - 1] \in Nat /\ dayAt[asked[w] - RefreshAfter] \in Nat /\ Newest \in Nat
    BY <1>1, <1>2, <2>4, SentimentAssumption DEF TypeOK
  <2> QED
    BY <2>1, <2>4, <2>5, <2>6 DEF Before
<1>10. ToldWell(w)'
  BY <1>1, <1>2, <1>5, <1>9, SentimentAssumption DEF ToldWell
<1>11. CycleSound(w)'
  BY <1>1, <1>5, <1>7, <1>10 DEF CycleSound, ProcSound, Refreshing
<1> QED
  BY <1>1, <1>3, <1>4, <1>5, <1>8, <1>11, LocalStep DEF ProcSound

LEMMA FirstCallType == FirstCall \in {"history", "latest"}
  BY DEF FirstCall

LEMMA AskProviderInv ==
  ASSUME SentimentInv, NEW w \in Writers, AskProvider(w)
  PROVE  SentimentInv'
<1>1. /\ w \in Procs /\ TypeOK /\ UNCHANGED <<now, dayAt, faults, rows, batch, found, asked, told>>
      /\ pc' = [pc EXCEPT ![w] = FirstCall] /\ kept' = [kept EXCEPT ![w] = Newest]
  BY DEF AskProvider, world, Procs, SentimentInv
<1>2. Newest \in 0..LastDay
  BY <1>1, NewestFacts
<1>3. TypeOK'
  BY <1>1, <1>2, FirstCallType DEF TypeOK
<1>4. \A q \in Procs \ {w} : Same(q)
  BY <1>1 DEF Same, TypeOK
<1>5. /\ pc'[w] \in {"history", "latest"} /\ asked'[w] = asked[w] /\ batch'[w] = batch[w]
      /\ kept'[w] = Newest
  BY <1>1, FirstCallType DEF TypeOK
<1>6. Newest' = Newest /\ \A t : Before(t)' = Before(t)
  BY <1>1 DEF Newest, Saved, Before
<1>7. ProcSound(w)
  BY <1>1 DEF SentimentInv
<1>8. BatchInOrder(w)'
  BY <1>1, <1>6, <1>7 DEF BatchInOrder, ProcSound
<1>9. CycleSound(w)'
  BY <1>1, <1>2, <1>5, <1>6, <1>7, SentimentAssumption DEF CycleSound, ProcSound
<1> QED
  BY <1>1, <1>3, <1>4, <1>5, <1>8, <1>9, LocalStep DEF ProcSound

LEMMA DecideInv ==
  ASSUME SentimentInv, NEW w \in Writers, Decide(w)
  PROVE  SentimentInv'
<1>1. /\ w \in Procs /\ TypeOK /\ UNCHANGED <<now, dayAt, faults, rows, batch, found, asked>>
      /\ pc' = [pc EXCEPT ![w] = "idle"] /\ kept' = [kept EXCEPT ![w] = 0]
      /\ told' = [told EXCEPT ![w] = Nothing]
  BY DEF Decide, world, Procs, SentimentInv
<1>2. TypeOK'
  <2>1. Nothing \in [day : 0..LastDay, from : Sources] /\ 0 \in 0..LastDay
    BY SentimentAssumption DEF Nothing, Sources
  <2> QED
    BY <1>1, <2>1 DEF TypeOK
<1>3. \A q \in Procs \ {w} : Same(q)
  BY <1>1 DEF Same, TypeOK
<1>4. pc'[w] = "idle" /\ batch'[w] = batch[w] /\ asked'[w] = asked[w]
  BY <1>1 DEF TypeOK
<1>5. Newest' = Newest /\ \A t : Before(t)' = Before(t)
  BY <1>1 DEF Newest, Saved, Before
<1>6. ProcSound(w)
  BY <1>1 DEF SentimentInv
<1>7. BatchInOrder(w)'
  BY <1>1, <1>5, <1>6 DEF BatchInOrder, ProcSound
<1> QED
  BY <1>1, <1>2, <1>3, <1>4, <1>6, <1>7, LocalStep DEF ProcSound, CycleSound, Refreshing

-----------------------------------------------------------------------------
(* A refresh *)

\* fng-sync begins or ends its turn.
LEMMA SyncTurnInv ==
  ASSUME SentimentInv, NEW s \in Syncs, Wake(s) \/ SleepAgain(s)
  PROVE  SentimentInv'
<1>1. /\ s \in Procs /\ TypeOK /\ s \notin Writers
      /\ UNCHANGED <<now, dayAt, faults, rows, batch, found, asked, kept, told>>
  BY SentimentAssumption DEF Wake, SleepAgain, world, Procs, SentimentInv
<1>2. PICK c \in {"idle", "history", "latest"} : pc' = [pc EXCEPT ![s] = c]
  BY FirstCallType DEF Wake, SleepAgain
<1>3. TypeOK' /\ \A q \in Procs \ {s} : Same(q)
  BY <1>1, <1>2 DEF Same, TypeOK
<1>4. pc'[s] # "write" /\ batch'[s] = batch[s]
  BY <1>1, <1>2 DEF TypeOK
<1>5. Newest' = Newest /\ \A t : Before(t)' = Before(t)
  BY <1>1 DEF Newest, Saved, Before
<1>6. BatchInOrder(s)'
  <2>1. BatchInOrder(s)
    BY <1>1 DEF SentimentInv, ProcSound
  <2> QED
    BY <1>1, <1>5, <2>1 DEF BatchInOrder
<1> QED
  BY <1>1, <1>3, <1>4, <1>6, LocalStep DEF ProcSound

\* What was published by now was, more than that, published by an earlier tick.
LEMMA BeforeNow ==
  ASSUME TypeOK, DaysGrow, NEW t \in Times, t <= now
  PROVE  Before(t) <= dayAt[now]
<1>1. now \in Times /\ dayAt[now] \in Nat /\ dayAt[now] >= 1
  BY SentimentAssumption DEF TypeOK, DaysGrow
<1>2. t # 0 => t - 1 \in Times /\ t - 1 <= now
  BY <1>1, SentimentAssumption DEF Times
<1>3. t # 0 => dayAt[t - 1] <= dayAt[now]
  <2> SUFFICES ASSUME t # 0 PROVE dayAt[t - 1] <= dayAt[now]
    OBVIOUS
  <2>1. now <= now
    BY <1>1, SentimentAssumption DEF Times
  <2> QED
    BY <1>1, <1>2, <2>1 DEF DaysGrow
<1> QED
  BY <1>1, <1>3 DEF Before

LEMMA FetchHistoryInv ==
  ASSUME SentimentInv, NEW p \in Procs, FetchHistory(p)
  PROVE  SentimentInv'
<1>1. /\ TypeOK /\ DaysGrow /\ pc[p] = "history"
      /\ UNCHANGED <<now, dayAt, faults, rows, found, asked, kept, told>>
      /\ pc' = [pc EXCEPT ![p] = "latest"] /\ batch' = [batch EXCEPT ![p] = History]
  BY DEF FetchHistory, world, SentimentInv
<1>2. /\ History \in Seq(Values)
      /\ 1 \in DOMAIN History /\ History[1].day = dayAt[now]
      /\ \A k \in DOMAIN History : History[k].at = now /\ k >= 1
  BY <1>1, FetchTypes
<1>3. TypeOK'
  BY <1>1, <1>2 DEF TypeOK
<1>4. \A q \in Procs \ {p} : Same(q)
  BY <1>1 DEF Same, TypeOK
<1>5. /\ pc'[p] = "latest" /\ asked'[p] = asked[p] /\ batch'[p] = History
      /\ kept'[p] = kept[p] /\ now \in Times /\ now <= now
  BY <1>1, SentimentAssumption DEF TypeOK, Times
<1>6. Newest' = Newest /\ \A t : Before(t)' = Before(t)
  BY <1>1 DEF Newest, Saved, Before
<1>7. BatchInOrder(p)'
  <2> SUFFICES ASSUME NEW k \in DOMAIN History
               PROVE  /\ History[k].at <= now
                      /\ \E j \in 1..k : History[j].day >= Before(History[k].at)
    BY <1>1, <1>5, <1>6 DEF BatchInOrder
  <2>1. History[k].at = now /\ k >= 1 /\ k \in Nat
    BY <1>2
  <2>2. Before(now) <= dayAt[now] /\ Before(now) \in Nat /\ dayAt[now] \in Nat
    BY <1>1, <1>5, BeforeNow, BeforeType, SentimentAssumption DEF TypeOK
  <2>3. 1 \in 1..k /\ History[1].day >= Before(History[k].at)
    BY <1>2, <2>1, <2>2
  <2> QED
    BY <1>5, <2>1, <2>3
<1>8. p \in Writers => CycleSound(p)'
  <2>1. p \in Writers => CycleSound(p)
    BY DEF SentimentInv, ProcSound
  <2> QED
    BY <1>1, <1>5, <1>6, <2>1 DEF CycleSound, Refreshing
<1> QED
  BY <1>1, <1>3, <1>4, <1>5, <1>7, <1>8, LocalStep DEF ProcSound

LEMMA FetchLatestInv ==
  ASSUME SentimentInv, NEW p \in Procs, FetchLatest(p)
  PROVE  SentimentInv'
<1> DEFINE b == batch[p]
           c == Append(b, Latest)
<1>1. /\ TypeOK /\ DaysGrow /\ pc[p] = "latest"
      /\ UNCHANGED <<now, dayAt, faults, rows, found, asked, kept, told>>
      /\ pc' = [pc EXCEPT ![p] = "save"] /\ batch' = [batch EXCEPT ![p] = c]
  BY DEF FetchLatest, world, SentimentInv
<1>2. b \in Seq(Values) /\ Latest \in Values /\ Latest.day = dayAt[now] /\ Latest.at = now
  BY <1>1, FetchTypes DEF TypeOK
<1>3. /\ c \in Seq(Values) /\ Len(c) = Len(b) + 1 /\ Len(b) \in Nat /\ c[Len(c)] = Latest
      /\ DOMAIN c = 1..Len(c)
      /\ \A k \in DOMAIN b : c[k] = b[k] /\ k \in 1..Len(b)
  <2> HIDE DEF b
  <2> QED
    BY <1>2
<1> HIDE DEF c
<1>4. TypeOK'
  BY <1>1, <1>3 DEF TypeOK
<1>5. \A q \in Procs \ {p} : Same(q)
  BY <1>1 DEF Same, TypeOK
<1>6. /\ pc'[p] = "save" /\ asked'[p] = asked[p] /\ batch'[p] = c
      /\ kept'[p] = kept[p] /\ now \in Times /\ now <= now
  BY <1>1, SentimentAssumption DEF TypeOK, Times
<1>7. Newest' = Newest /\ \A t : Before(t)' = Before(t)
  BY <1>1 DEF Newest, Saved, Before
<1>8. BatchInOrder(p)
  BY DEF SentimentInv, ProcSound
<1>9. dayAt[now] \in Nat
  BY <1>1, <1>6, SentimentAssumption DEF TypeOK
<1>10. BatchInOrder(p)'
  <2> SUFFICES ASSUME NEW k \in DOMAIN c
               PROVE  /\ c[k].at <= now
                      /\ \/ Newest >= Before(c[k].at)
                         \/ \E j \in 1..k : c[j].day >= Before(c[k].at)
    BY <1>1, <1>6, <1>7 DEF BatchInOrder
  <2>1. CASE k \in DOMAIN b
    <3>1. \A j \in 1..k : j \in DOMAIN b
      BY <1>2, <2>1
    <3> QED
      BY <1>3, <1>8, <2>1, <3>1 DEF BatchInOrder
  <2>2. CASE k \notin DOMAIN b
    <3>1. k = Len(c) /\ c[k] = Latest
      BY <1>2, <1>3, <2>2
    <3>2. Before(now) <= dayAt[now] /\ Before(now) \in Nat
      BY <1>1, <1>6, BeforeNow, BeforeType, SentimentAssumption
    <3> QED
      BY <1>2, <1>3, <1>6, <1>9, <3>1, <3>2
  <2> QED
    BY <2>1, <2>2
<1>11. p \in Writers => CycleSound(p)'
  <2> SUFFICES ASSUME p \in Writers PROVE CycleSound(p)'
    OBVIOUS
  <2>1. CycleSound(p)
    BY DEF SentimentInv, ProcSound
  <2>2. asked[p] \in Times /\ asked[p] <= now
    BY <1>1, <2>1 DEF TypeOK, CycleSound
  <2>3. Before(asked[p]) <= dayAt[now] /\ Before(asked[p]) \in Nat
    BY <1>1, <2>2, BeforeNow, BeforeType, SentimentAssumption
  <2>4. c[Len(c)].day >= Before(asked[p]) /\ Len(c) \in DOMAIN c
    BY <1>2, <1>3, <1>9, <2>3
  <2>5. AnswerComing(p)'
    BY <1>6, <1>7, <2>4 DEF AnswerComing
  <2> QED
    BY <1>1, <1>6, <1>7, <2>1, <2>5 DEF CycleSound, Refreshing
<1> QED
  BY <1>1, <1>4, <1>5, <1>6, <1>10, <1>11, LocalStep DEF ProcSound

\* Whatever ends a cycle early.
LEMMA AbortInv ==
  ASSUME SentimentInv, NEW p \in Procs, Forget(p), faults' \in 0..MaxFaults
  PROVE  SentimentInv'
<1>1. /\ TypeOK /\ UNCHANGED <<now, dayAt, rows, asked>>
      /\ pc' = [pc EXCEPT ![p] = "idle"] /\ batch' = [batch EXCEPT ![p] = <<>>]
      /\ found' = [found EXCEPT ![p] = FALSE] /\ kept' = [kept EXCEPT ![p] = 0]
      /\ told' = [told EXCEPT ![p] = Nothing]
  BY DEF Forget, SentimentInv
<1>2. TypeOK'
  <2>1. Nothing \in [day : 0..LastDay, from : Sources] /\ 0 \in 0..LastDay
    BY SentimentAssumption DEF Nothing, Sources
  <2>2. <<>> \in Seq(Values)
    OBVIOUS
  <2>3. batch' \in [Procs -> Seq(Values)] /\ pc' \in [Procs -> {"idle", "ask", "history", "latest", "save", "write", "told"}]
    BY <1>1, <2>2 DEF TypeOK
  <2>4. found' \in [Procs -> BOOLEAN]
    BY <1>1 DEF TypeOK
  <2>5. kept' \in [Procs -> 0..LastDay] /\ told' \in [Procs -> [day : 0..LastDay, from : Sources]]
    BY <1>1, <2>1 DEF TypeOK
  <2> QED
    BY <1>1, <2>3, <2>4, <2>5 DEF TypeOK
<1>3. \A q \in Procs \ {p} : Same(q)
  BY <1>1 DEF Same, TypeOK
<1>4. pc'[p] = "idle" /\ batch'[p] = <<>>
  BY <1>1 DEF TypeOK
<1> QED
  BY <1>1, <1>2, <1>3, <1>4, ForgetInv

LEMMA WriterHttpErrorInv ==
  ASSUME SentimentInv, NEW w \in Writers, WriterHttpError(w)
  PROVE  SentimentInv'
<1>1. /\ w \in Procs /\ TypeOK /\ UNCHANGED <<now, dayAt, faults, rows, found, asked, kept>>
      /\ pc[w] \in {"history", "latest"}
      /\ pc' = [pc EXCEPT ![w] = "told"] /\ batch' = [batch EXCEPT ![w] = <<>>]
      /\ told' = [told EXCEPT ![w] = [day |-> kept[w], from |-> "fallback"]]
  BY DEF WriterHttpError, world, Procs, SentimentInv
<1>2. TypeOK'
  <2>1. [day |-> kept[w], from |-> "fallback"] \in [day : 0..LastDay, from : Sources]
    BY <1>1 DEF Sources, TypeOK
  <2>2. <<>> \in Seq(Values)
    OBVIOUS
  <2> QED
    BY <1>1, <2>1, <2>2 DEF TypeOK
<1>3. \A q \in Procs \ {w} : Same(q)
  BY <1>1 DEF Same, TypeOK
<1>4. /\ pc'[w] = "told" /\ batch'[w] = <<>> /\ asked'[w] = asked[w] /\ kept'[w] = kept[w]
      /\ told'[w] = [day |-> kept[w], from |-> "fallback"] /\ kept[w] \in Nat
  BY <1>1, SentimentAssumption DEF TypeOK
<1>5. BatchInOrder(w)'
  BY <1>4 DEF BatchInOrder
<1>6. CycleSound(w)
  BY <1>1 DEF SentimentInv, ProcSound
<1>7. ToldWell(w)'
  BY <1>4 DEF ToldWell
<1> QED
  BY <1>1, <1>2, <1>3, <1>4, <1>5, <1>6, <1>7, LocalStep DEF ProcSound, CycleSound, Refreshing

LEMMA SelectInv ==
  ASSUME SentimentInv, NEW p \in Procs, Select(p)
  PROVE  SentimentInv'
<1>1. /\ TypeOK /\ UNCHANGED <<now, dayAt, faults, rows, batch, asked, kept, told>>
      /\ pc[p] = "save" /\ batch[p] # <<>>
      /\ pc' = [pc EXCEPT ![p] = "write"]
      /\ \E b \in BOOLEAN : found' = [found EXCEPT ![p] = b]
  BY DEF Select, world, SentimentInv
<1>2. TypeOK'
  BY <1>1 DEF TypeOK
<1>3. \A q \in Procs \ {p} : Same(q)
  BY <1>1 DEF Same, TypeOK
<1>4. /\ pc'[p] = "write" /\ batch'[p] = batch[p] /\ asked'[p] = asked[p] /\ kept'[p] = kept[p]
  BY <1>1 DEF TypeOK
<1>5. Newest' = Newest /\ \A t : Before(t)' = Before(t)
  BY <1>1 DEF Newest, Saved, Before
<1>6. ProcSound(p)
  BY DEF SentimentInv
<1>7. BatchInOrder(p)'
  BY <1>1, <1>5, <1>6 DEF BatchInOrder, ProcSound
<1>8. p \in Writers => CycleSound(p)'
  BY <1>1, <1>4, <1>5, <1>6 DEF CycleSound, ProcSound, Refreshing, AnswerComing
<1> QED
  BY <1>1, <1>2, <1>3, <1>4, <1>7, <1>8, LocalStep DEF ProcSound

LEMMA TellRefreshedInv ==
  ASSUME SentimentInv, NEW w \in Writers, TellRefreshed(w)
  PROVE  SentimentInv'
<1>1. /\ w \in Procs /\ TypeOK /\ UNCHANGED <<now, dayAt, faults, rows, batch, found, asked, kept>>
      /\ pc[w] = "save" /\ batch[w] = <<>>
      /\ pc' = [pc EXCEPT ![w] = "told"]
      /\ told' = [told EXCEPT ![w] = [day |-> Newest, from |-> "provider"]]
  BY DEF TellRefreshed, world, Procs, SentimentInv
<1>2. Newest \in 0..LastDay
  BY <1>1, NewestFacts
<1>3. TypeOK'
  <2>1. [day |-> Newest, from |-> "provider"] \in [day : 0..LastDay, from : Sources]
    BY <1>2 DEF Sources
  <2> QED
    BY <1>1, <2>1 DEF TypeOK
<1>4. \A q \in Procs \ {w} : Same(q)
  BY <1>1 DEF Same, TypeOK
<1>5. /\ pc'[w] = "told" /\ batch'[w] = <<>> /\ asked'[w] = asked[w] /\ kept'[w] = kept[w]
      /\ told'[w] = [day |-> Newest, from |-> "provider"]
  BY <1>1 DEF TypeOK
<1>6. CycleSound(w)
  BY <1>1 DEF SentimentInv, ProcSound
<1>7. Newest >= kept[w] /\ Newest >= Before(asked[w]) /\ asked[w] <= now
  BY <1>1, <1>6 DEF CycleSound, Refreshing, AnswerComing
<1>8. ASSUME asked[w] >= RefreshAfter PROVE Newest >= dayAt[asked[w] - RefreshAfter]
  <2>1. asked[w] \in Times /\ now \in Times
    BY <1>1 DEF TypeOK
  <2>2. /\ asked[w] # 0 /\ asked[w] - 1 \in Times /\ asked[w] - RefreshAfter \in Times
        /\ asked[w] - RefreshAfter <= asked[w] - 1 /\ asked[w] - 1 <= now
    BY <1>7, <1>8, <2>1, SentimentAssumption DEF Times
  <2>3. dayAt[asked[w] - RefreshAfter] <= dayAt[asked[w] - 1]
    BY <2>2 DEF SentimentInv, DaysGrow
  <2>4. dayAt[asked[w] - 1] \in Nat /\ dayAt[asked[w] - RefreshAfter] \in Nat /\ Newest \in Nat
    BY <1>1, <1>2, <2>2, SentimentAssumption DEF TypeOK
  <2> QED
    BY <1>7, <2>2, <2>3, <2>4 DEF Before
<1>9. ToldWell(w)'
  BY <1>1, <1>5, <1>7, <1>8 DEF ToldWell
<1>10. BatchInOrder(w)'
  BY <1>5 DEF BatchInOrder
<1> QED
  BY <1>1, <1>3, <1>4, <1>5, <1>6, <1>9, <1>10, LocalStep DEF ProcSound, CycleSound, Refreshing

\* A value is saved: whoever relied on the rows or on this value still can.
LEMMA WriteInv ==
  ASSUME SentimentInv, NEW p \in Procs, Write(p)
  PROVE  SentimentInv'
<1> DEFINE b == batch[p]
           v == Head(b)
           c == Tail(b)
<1>1. /\ TypeOK /\ UNCHANGED <<now, dayAt, faults, asked, kept, told>>
      /\ pc[p] = "write" /\ pc' = [pc EXCEPT ![p] = "save"]
      /\ rows' = [rows EXCEPT ![v.day] = v.at]
      /\ batch' = [batch EXCEPT ![p] = c] /\ found' = [found EXCEPT ![p] = FALSE]
  BY DEF Write, world, SentimentInv
<1>2. b \in Seq(Values) /\ b # <<>>
  BY <1>1 DEF SentimentInv, ProcSound, TypeOK
<1>3. /\ v \in Values /\ c \in Seq(Values) /\ v = b[1] /\ 1 \in DOMAIN b
      /\ \A k \in DOMAIN c : k \in Nat /\ k >= 1 /\ k + 1 \in DOMAIN b /\ c[k] = b[k + 1]
      /\ \A k \in DOMAIN b : k = 1 \/ (k - 1 \in DOMAIN c /\ c[k - 1] = b[k])
  <2> HIDE DEF b
  <2> QED
    BY <1>2
<1>4. BatchInOrder(p)
  BY DEF SentimentInv, ProcSound
<1> HIDE DEF b, v, c
<1>5. v.day \in Days /\ v.day \in 0..LastDay /\ v.at \in Times /\ v.at \in Nat /\ v.at # NoRow
  BY <1>3, SentimentAssumption DEF Values, Days, Times
<1>6. TypeOK'
  BY <1>1, <1>3, <1>5 DEF TypeOK
<1>7. /\ \A q \in Procs \ {p} : Same(q)
      /\ pc'[p] = "save" /\ batch'[p] = c
      /\ rows'[v.day] = v.at /\ \A d \in Days : d = v.day \/ rows'[d] = rows[d]
  BY <1>1, <1>5 DEF Same, TypeOK
<1>8. Saved' = Saved \cup {v.day}
  BY <1>5, <1>7 DEF Saved
<1>9. /\ Newest <= Newest' /\ Newest \in Nat /\ Newest' \in Nat /\ v.day <= Newest'
  BY <1>8, NewestGrows, SentimentAssumption
<1>10. \A t \in Times : Before(t)' = Before(t) /\ Before(t) \in Nat
  BY <1>1, BeforeType, SentimentAssumption DEF Before
<1>11. Newest' >= Before(v.at) /\ v.at <= now
  <2>1. /\ b[1].at <= now
        /\ \/ Newest >= Before(b[1].at)
           \/ \E j \in 1..1 : b[j].day >= Before(b[1].at)
    BY <1>3, <1>4 DEF BatchInOrder, b
  <2>2. Newest >= Before(v.at) \/ v.day >= Before(v.at)
    BY <1>3, <2>1
  <2> QED
    BY <1>3, <1>5, <1>9, <1>10, <2>1, <2>2, SentimentAssumption
<1>12. RowsTrusted'
  <2> SUFFICES ASSUME NEW d \in Saved' PROVE rows'[d] <= now /\ Newest' >= Before(rows'[d])
    <3>1. \A d \in Saved' : rows'[d] \in Times
      BY <1>6 DEF TypeOK, Saved
    <3> QED
      BY <1>1, <1>10, <3>1 DEF RowsTrusted
  <2>1. CASE d = v.day
    BY <1>7, <1>11, <2>1
  <2>2. CASE d # v.day
    <3>1. d \in Saved /\ rows'[d] = rows[d]
      BY <1>7, <1>8, <2>2 DEF Saved
    <3>2. rows[d] <= now /\ Newest >= Before(rows[d]) /\ rows[d] \in Times
      BY <1>1, <3>1 DEF SentimentInv, RowsTrusted, TypeOK, Saved
    <3> QED
      BY <1>9, <1>10, <3>1, <3>2
  <2> QED
    BY <2>1, <2>2
<1>13. ASSUME NEW q \in Procs, q # p PROVE ProcSound(q)'
  <2>1. ProcSound(q) /\ Same(q) /\ asked[q] \in Times
    BY <1>1, <1>7, <1>13 DEF SentimentInv, TypeOK
  <2>2. kept[q] \in Nat /\ batch[q] \in Seq(Values)
    BY <1>1, SentimentAssumption DEF TypeOK
  <2>3. \A k \in DOMAIN batch[q] : batch[q][k].at \in Times
    BY <2>2, ValueTimes
  <2>4. BatchInOrder(q)'
    <3> SUFFICES ASSUME NEW k \in DOMAIN batch[q]
                 PROVE  /\ batch[q][k].at <= now
                        /\ \/ Newest' >= Before(batch[q][k].at)
                           \/ \E j \in 1..k : batch[q][j].day >= Before(batch[q][k].at)
      BY <1>1, <1>10, <2>1, <2>3 DEF BatchInOrder, Same
    <3> QED
      BY <1>9, <1>10, <2>1, <2>3 DEF ProcSound, BatchInOrder
  <2>5. ASSUME q \in Writers PROVE CycleSound(q)'
    <3>1. CycleSound(q)
      BY <2>1, <2>5 DEF ProcSound
    <3>2. AnswerComing(q) => AnswerComing(q)'
      BY <1>1, <1>9, <1>10, <2>1 DEF AnswerComing, Same
    <3>3. Newest >= kept[q] => Newest' >= kept[q]
      BY <1>9, <2>2
    <3> QED
      BY <1>1, <2>1, <3>1, <3>2, <3>3 DEF CycleSound, Same, ToldWell
  <2> QED
    BY <2>1, <2>4, <2>5 DEF ProcSound, Same
<1>14. BatchInOrder(p)'
  <2> SUFFICES ASSUME NEW k \in DOMAIN c
               PROVE  /\ c[k].at <= now
                      /\ \/ Newest' >= Before(c[k].at)
                         \/ \E j \in 1..k : c[j].day >= Before(c[k].at)
    <3>1. \A k \in DOMAIN c : c[k].at \in Times
      BY <1>3, ValueTimes
    <3> QED
      BY <1>1, <1>7, <1>10, <3>1 DEF BatchInOrder
  <2>1. k \in Nat /\ k >= 1 /\ k + 1 \in DOMAIN b /\ c[k] = b[k + 1] /\ c[k].at \in Times
    BY <1>3, ValueTimes
  <2>2. /\ c[k].at <= now
        /\ \/ Newest >= Before(c[k].at)
           \/ \E j \in 1..(k + 1) : b[j].day >= Before(c[k].at)
    BY <1>4, <2>1 DEF BatchInOrder, b
  <2>3. CASE Newest >= Before(c[k].at)
    BY <1>9, <1>10, <2>1, <2>2, <2>3
  <2>4. ASSUME NEW j \in 1..(k + 1), b[j].day >= Before(c[k].at)
        PROVE  \/ Newest' >= Before(c[k].at)
               \/ \E i \in 1..k : c[i].day >= Before(c[k].at)
    <3>1. CASE j = 1
      BY <1>3, <1>5, <1>9, <1>10, <2>1, <2>4, <3>1, SentimentAssumption
    <3>2. CASE j # 1
      <4>1. j - 1 \in 1..k /\ j \in DOMAIN b
        BY <1>2, <2>1, <3>2 DEF b
      <4>2. c[j - 1] = b[j]
        BY <1>3, <3>2, <4>1
      <4> QED
        BY <2>4, <4>1, <4>2
    <3> QED
      BY <3>1, <3>2
  <2> QED
    BY <2>2, <2>3, <2>4
<1>15. ASSUME p \in Writers PROVE CycleSound(p)'
  <2>1. CycleSound(p) /\ kept[p] \in Nat /\ asked[p] \in Times
    BY <1>1, <1>15, SentimentAssumption DEF SentimentInv, ProcSound, TypeOK
  <2>2. AnswerComing(p) /\ Newest >= kept[p]
    BY <1>1, <2>1 DEF CycleSound, Refreshing
  <2>3. AnswerComing(p)'
    <3>1. CASE Newest >= Before(asked[p])
      BY <1>1, <1>9, <1>10, <2>1, <3>1 DEF AnswerComing
    <3>2. ASSUME NEW k \in DOMAIN b, b[k].day >= Before(asked[p]) PROVE AnswerComing(p)'
      <4>1. CASE k = 1
        <5>1. v.day >= Before(asked[p])
          BY <1>3, <3>2, <4>1
        <5>2. Newest' >= Before(asked[p])
          BY <1>5, <1>9, <1>10, <2>1, <5>1, SentimentAssumption
        <5> QED
          BY <1>1, <1>10, <2>1, <5>2 DEF AnswerComing
      <4>2. CASE k # 1
        BY <1>1, <1>3, <1>7, <1>10, <2>1, <3>2, <4>2 DEF AnswerComing
      <4> QED
        BY <4>1, <4>2
    <3> QED
      BY <2>2, <3>1, <3>2 DEF AnswerComing, b
  <2>4. Newest' >= kept[p]
    BY <1>9, <2>1, <2>2
  <2> QED
    BY <1>1, <1>7, <2>1, <2>3, <2>4 DEF CycleSound, Refreshing
<1>16. DaysGrow'
  BY <1>1 DEF SentimentInv, DaysGrow
<1> QED
  BY <1>6, <1>7, <1>12, <1>13, <1>14, <1>15, <1>16 DEF SentimentInv, ProcSound

-----------------------------------------------------------------------------
(* The surroundings *)

\* What was published before does not change.
LEMMA SurroundingsStep ==
  ASSUME SentimentInv, TypeOK', DaysGrow', now <= now',
         UNCHANGED <<rows, pc, batch, found, asked, kept, told>>,
         \A t \in Times : t < now => dayAt'[t] = dayAt[t]
  PROVE  SentimentInv'
<1>1. TypeOK /\ now \in Nat /\ now' \in Nat
  BY SentimentAssumption DEF SentimentInv, TypeOK, Times
<1>2. Newest' = Newest /\ Saved' = Saved
  BY DEF Newest, Saved
<1>3. \A t \in Times : t <= now => Before(t)' = Before(t)
  <2> SUFFICES ASSUME NEW t \in Times, t <= now PROVE Before(t)' = Before(t)
    OBVIOUS
  <2>1. t # 0 => t - 1 \in Times /\ t - 1 < now
    BY <1>1, SentimentAssumption DEF Times
  <2> QED
    BY <2>1 DEF Before
<1>4. \A t \in Times : t <= now => t <= now'
  BY <1>1, SentimentAssumption DEF Times
<1>5. RowsTrusted'
  <2>1. \A d \in Saved : rows[d] \in Times /\ rows[d] <= now /\ Newest >= Before(rows[d])
    BY <1>1 DEF SentimentInv, RowsTrusted, TypeOK, Saved
  <2>2. \A d \in Saved : rows[d] <= now' /\ Newest >= Before(rows[d])'
    BY <1>3, <1>4, <2>1
  <2> QED
    BY <1>2, <2>2 DEF RowsTrusted
<1>6. ASSUME NEW p \in Procs PROVE ProcSound(p)'
  <2>1. ProcSound(p) /\ batch[p] \in Seq(Values) /\ asked[p] \in Times
    BY <1>1 DEF SentimentInv, TypeOK
  <2>2. \A k \in DOMAIN batch[p] : batch[p][k].at \in Times
    BY <2>1, ValueTimes
  <2>3. BatchInOrder(p)'
    <3> SUFFICES ASSUME NEW k \in DOMAIN batch[p]
                 PROVE  /\ batch[p][k].at <= now'
                        /\ \/ Newest >= Before(batch[p][k].at)'
                           \/ \E j \in 1..k : batch[p][j].day >= Before(batch[p][k].at)'
      BY <1>2 DEF BatchInOrder
    <3>1. /\ batch[p][k].at <= now
          /\ \/ Newest >= Before(batch[p][k].at)
             \/ \E j \in 1..k : batch[p][j].day >= Before(batch[p][k].at)
      BY <2>1 DEF ProcSound, BatchInOrder
    <3>2. Before(batch[p][k].at)' = Before(batch[p][k].at)
      BY <1>3, <2>2, <3>1
    <3> QED
      BY <1>4, <2>2, <3>1, <3>2
  <2>4. ASSUME p \in Writers PROVE CycleSound(p)'
    <3>1. CycleSound(p) /\ asked[p] <= now /\ asked[p] <= now'
      BY <1>4, <2>1, <2>4 DEF ProcSound, CycleSound
    <3>2. AnswerComing(p) => AnswerComing(p)'
      BY <1>2, <1>3, <2>1, <3>1 DEF AnswerComing
    <3>3. ToldWell(p) => ToldWell(p)'
      <4>1. asked[p] >= RefreshAfter =>
              asked[p] - RefreshAfter \in Times /\ asked[p] - RefreshAfter < now
        BY <1>1, <2>1, <3>1, SentimentAssumption DEF Times
      <4>2. asked[p] >= RefreshAfter =>
              dayAt'[asked[p] - RefreshAfter] = dayAt[asked[p] - RefreshAfter]
        BY <4>1
      <4> QED
        BY <4>2 DEF ToldWell
    <3> QED
      BY <1>2, <3>1, <3>2, <3>3 DEF CycleSound
  <2> QED
    BY <2>1, <2>3, <2>4 DEF ProcSound
<1> QED
  BY <1>5, <1>6 DEF SentimentInv

LEMMA PublishInv == ASSUME SentimentInv, Publish PROVE SentimentInv'
<1>1. /\ TypeOK /\ DaysGrow /\ now \in Times /\ now \in Nat
      /\ dayAt[now] < LastDay /\ dayAt[now] \in 1..LastDay
      /\ dayAt' = [dayAt EXCEPT ![now] = @ + 1]
      /\ UNCHANGED <<now, rows, pc, batch, found, asked, kept, told, faults>>
  BY SentimentAssumption DEF Publish, Published, SentimentInv, DaysGrow, TypeOK, Times
<1>2. TypeOK'
  BY <1>1, SentimentAssumption DEF TypeOK
<1>3. /\ dayAt'[now] = dayAt[now] + 1
      /\ \A t \in Times : t # now => dayAt'[t] = dayAt[t]
      /\ \A t \in Times : t \in Nat /\ dayAt[t] \in Nat
  BY <1>1, SentimentAssumption DEF TypeOK, Times
<1>4. DaysGrow'
  <2>1. dayAt'[now'] >= 1
    BY <1>1, <1>3
  <2>2. ASSUME NEW t \in Times, NEW u \in Times, t <= u, u <= now'
        PROVE  dayAt'[t] <= dayAt'[u]
    <3>1. dayAt[t] <= dayAt[u]
      BY <1>1, <2>2 DEF DaysGrow
    <3> QED
      BY <1>1, <1>3, <2>2, <3>1
  <2> QED
    BY <2>1, <2>2 DEF DaysGrow
<1>5. now <= now' /\ \A t \in Times : t < now => dayAt'[t] = dayAt[t]
  BY <1>1, <1>3
<1> QED
  BY <1>1, <1>2, <1>4, <1>5, SurroundingsStep

LEMMA TickInv == ASSUME SentimentInv, Tick PROVE SentimentInv'
<1>1. /\ TypeOK /\ DaysGrow /\ now \in Times /\ now \in Nat /\ now + 1 \in Times
      /\ dayAt[now] \in 1..LastDay
      /\ now' = now + 1 /\ dayAt' = [dayAt EXCEPT ![now + 1] = dayAt[now]]
      /\ UNCHANGED <<rows, pc, batch, found, asked, kept, told, faults>>
  BY SentimentAssumption DEF Tick, Published, SentimentInv, DaysGrow, TypeOK, Times
<1>2. TypeOK'
  BY <1>1, SentimentAssumption DEF TypeOK
<1>3. /\ dayAt'[now + 1] = dayAt[now]
      /\ \A t \in Times : t # now + 1 => dayAt'[t] = dayAt[t]
      /\ \A t \in Times : t \in Nat /\ dayAt[t] \in Nat
  BY <1>1, SentimentAssumption DEF TypeOK, Times
<1>4. DaysGrow'
  <2>1. dayAt'[now'] >= 1
    BY <1>1, <1>3
  <2>2. ASSUME NEW t \in Times, NEW u \in Times, t <= u, u <= now'
        PROVE  dayAt'[t] <= dayAt'[u]
    <3>1. CASE u # now + 1
      <4>1. u <= now /\ t # now + 1
        BY <1>1, <1>3, <2>2, <3>1
      <4>2. dayAt[t] <= dayAt[u]
        BY <1>1, <2>2, <4>1 DEF DaysGrow
      <4> QED
        BY <1>3, <3>1, <4>1, <4>2
    <3>2. CASE u = now + 1 /\ t # now + 1
      <4>1. t <= now /\ now <= now
        BY <1>1, <1>3, <2>2, <3>2
      <4>2. dayAt[t] <= dayAt[now]
        BY <1>1, <4>1 DEF DaysGrow
      <4> QED
        BY <1>3, <3>2, <4>2
    <3>3. CASE u = now + 1 /\ t = now + 1
      BY <1>1, <1>3, <3>3
    <3> QED
      BY <3>1, <3>2, <3>3
  <2> QED
    BY <2>1, <2>2 DEF DaysGrow
<1>5. now <= now' /\ \A t \in Times : t < now => dayAt'[t] = dayAt[t]
  BY <1>1, <1>3
<1> QED
  BY <1>1, <1>2, <1>4, <1>5, SurroundingsStep

LEMMA SentimentInit == Init => SentimentInv
<1> SUFFICES ASSUME Init PROVE SentimentInv
  OBVIOUS
<1>1. now = 0 /\ 0 \in Times /\ 0 \in 0..LastDay /\ 1 \in 0..LastDay /\ 0 \in 0..MaxFaults
  BY SentimentAssumption DEF Init, Times
<1>2. /\ dayAt \in [Times -> 0..LastDay] /\ dayAt[0] = 1
      /\ rows \in [Days -> Times \cup {NoRow}] /\ \A d \in Days : rows[d] = NoRow
  BY <1>1 DEF Init
<1>3. /\ \A p \in Procs : pc[p] = "idle" /\ batch[p] = <<>> /\ asked[p] = 0
      /\ pc \in [Procs -> {"idle", "ask", "history", "latest", "save", "write", "told"}]
      /\ asked \in [Procs -> Times] /\ kept \in [Procs -> 0..LastDay]
  BY <1>1 DEF Init
<1>4. batch \in [Procs -> Seq(Values)]
  <2>1. <<>> \in Seq(Values)
    OBVIOUS
  <2> QED
    BY <2>1 DEF Init
<1>5. found \in [Procs -> BOOLEAN]
  BY DEF Init
<1>6. told \in [Procs -> [day : 0..LastDay, from : Sources]]
  <2>1. Nothing \in [day : 0..LastDay, from : Sources]
    BY <1>1 DEF Nothing, Sources
  <2> QED
    BY <2>1 DEF Init
<1>7. TypeOK
  <2>1. now \in Times /\ faults \in 0..MaxFaults
    BY <1>1 DEF Init
  <2> QED
    BY <1>2, <1>3, <1>4, <1>5, <1>6, <2>1 DEF TypeOK
<1>8. DaysGrow
  <2>1. ASSUME NEW t \in Times, NEW u \in Times, t <= u, u <= now PROVE dayAt[t] <= dayAt[u]
    <3>1. t = 0 /\ u = 0
      BY <1>1, <2>1, SentimentAssumption DEF Times
    <3> QED
      BY <1>2, <3>1
  <2> QED
    BY <1>1, <1>2, <2>1 DEF DaysGrow
<1>9. RowsTrusted
  BY <1>2 DEF RowsTrusted, Saved
<1>10. \A p \in Procs : ProcSound(p)
  BY <1>1, <1>3 DEF ProcSound, BatchInOrder, CycleSound, Refreshing
<1> QED
  BY <1>7, <1>8, <1>9, <1>10 DEF SentimentInv

LEMMA SentimentNext == ASSUME SentimentInv, [Next]_vars PROVE SentimentInv'
<1>1. ASSUME NEW p \in Procs, Refresh(p) PROVE SentimentInv'
  <2>1. CASE InsertConflict(p)
    BY <2>1, AbortInv DEF InsertConflict, SentimentInv, TypeOK
  <2> QED
    BY <1>1, <2>1, FetchHistoryInv, FetchLatestInv, SelectInv, WriteInv DEF Refresh
<1>2. ASSUME NEW w \in Writers, WriterStep(w) PROVE SentimentInv'
  <2>1. w \in Procs
    BY DEF Procs
  <2> QED
    BY <1>1, <1>2, <2>1, TakeSnapshotInv, TellCachedInv, AskProviderInv, WriterHttpErrorInv,
       TellRefreshedInv, DecideInv DEF WriterStep
<1>3. ASSUME NEW s \in Syncs, SyncStep(s) PROVE SentimentInv'
  <2>1. s \in Procs
    BY DEF Procs
  <2>2. CASE SyncHttpError(s)
    BY <2>1, <2>2, AbortInv DEF SyncHttpError, SentimentInv, TypeOK
  <2> QED
    BY <1>1, <1>3, <2>1, <2>2, SyncTurnInv DEF SyncStep
<1>4. ASSUME NEW p \in Procs, Fault(p) PROVE SentimentInv'
  <2>1. faults' \in 0..MaxFaults
    BY <1>4, SentimentAssumption DEF Fault, SentimentInv, TypeOK
  <2> QED
    BY <1>4, <2>1, AbortInv DEF Fault
<1>5. CASE UNCHANGED vars
  <2>1. UNCHANGED <<now, dayAt, rows, pc, batch, found, asked, kept, told, faults>>
    BY <1>5 DEF vars
  <2>2. TypeOK' /\ DaysGrow'
    BY <2>1 DEF SentimentInv, TypeOK, DaysGrow
  <2>3. now <= now'
    BY <2>1, SentimentAssumption DEF SentimentInv, TypeOK, Times
  <2> QED
    BY <2>1, <2>2, <2>3, SurroundingsStep
<1> QED
  BY <1>2, <1>3, <1>4, <1>5, PublishInv, TickInv DEF Next

LEMMA SentimentAlways == Spec => []SentimentInv
  BY SentimentInit, SentimentNext, PTL DEF Spec

-----------------------------------------------------------------------------
(* Theorems *)

\* Rows, batches and what a cycle is told keep their types (sentiment/service.py).
THEOREM TypeCorrect == Spec => []TypeOK
<1>1. SentimentInv => TypeOK
  BY DEF SentimentInv
<1> QED
  BY <1>1, SentimentAlways, PTL

\* However refreshes interleave, fail or are cut short, a fresh row means that
\* what its refresh had seen is cached, so no cycle is told of an older day than
\* it may be (get_fear_greed_context_for_strategy).
THEOREM AlwaysToldRecentDay == Spec => []ToldRecentDay
<1>1. SentimentInv => ToldRecentDay
  <2> SUFFICES ASSUME SentimentInv, NEW w \in Writers, pc[w] = "told" PROVE ToldWell(w)
    BY DEF ToldRecentDay, ToldWell
  <2> QED
    BY DEF SentimentInv, Procs, ProcSound, CycleSound
<1> QED
  BY <1>1, SentimentAlways, PTL
=============================================================================
