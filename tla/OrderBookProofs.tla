-------------------------- MODULE OrderBookProofs --------------------------
(***************************************************************************)
(* Theorems about the local order book, for every set of prices and        *)
(* quantities, every depth of the topic and any number of messages that    *)
(* wait.                                                                   *)
(***************************************************************************)
EXTENDS OrderBook, FiniteSetTheorems, WellFoundedInduction, TLAPS

-----------------------------------------------------------------------------
(* Counting levels *)

\* A set of naturals has a least element.
LEMMA LeastNat ==
  ASSUME NEW S, S \subseteq Nat, S # {}
  PROVE  \E n \in S : \A m \in S : n <= m
<1>1. PICK n \in S : \A m \in S : <<m, n>> \notin OpToRel(<, Nat)
  BY NatLessThanWellFounded, WFMin, Zenon
<1>2. \A m \in S : ~(m < n)
  BY <1>1, Zenon DEF OpToRel
<1> QED
  BY <1>2

\* What is counted is finite.
LEMMA CountType ==
  ASSUME NEW S \in SUBSET Prices
  PROVE  /\ IsFiniteSet(S)
         /\ Cardinality(S) \in Nat
BY BookAssumption, FS_Subset, FS_CardinalityType

\* More levels are not fewer.
LEMMA CountMonotone ==
  ASSUME NEW T \in SUBSET Prices, NEW S \in SUBSET T
  PROVE  Cardinality(S) <= Cardinality(T)
BY CountType, FS_Subset

LEMMA PresentType ==
  ASSUME NEW levels
  PROVE  Present(levels) \in SUBSET Prices
BY DEF Present

LEMMA AheadType ==
  ASSUME NEW side, NEW on \in SUBSET Prices, NEW p
  PROVE  /\ {q \in on : Better(side, q, p)} \in SUBSET Prices
         /\ Ahead(side, on, p) \in Nat
<1>1. {q \in on : Better(side, q, p)} \in SUBSET Prices
  OBVIOUS
<1> QED
  BY <1>1, CountType DEF Ahead

\* With fewer levels there are fewer ahead.
LEMMA AheadMonotone ==
  ASSUME NEW side, NEW on \in SUBSET Prices, NEW part \in SUBSET on, NEW p
  PROVE  Ahead(side, part, p) <= Ahead(side, on, p)
<1>1. {q \in on : Better(side, q, p)} \in SUBSET Prices
  OBVIOUS
<1>2. {q \in part : Better(side, q, p)} \in SUBSET {q \in on : Better(side, q, p)}
  OBVIOUS
<1> QED
  BY <1>1, <1>2, CountMonotone DEF Ahead

\* Prices of a side are in order, the best first.
LEMMA BetterOrder ==
  ASSUME NEW side \in Sides, NEW p \in Prices, NEW q \in Prices, NEW r \in Prices
  PROVE  /\ ~Better(side, p, p)
         /\ Better(side, p, q) /\ Better(side, q, r) => Better(side, p, r)
         /\ p # q => Better(side, p, q) \/ Better(side, q, p)
         /\ Better(side, p, q) => ~Better(side, q, p)
BY BookAssumption DEF Better

\* A better price has fewer ahead.
LEMMA AheadOrder ==
  ASSUME NEW side \in Sides, NEW on \in SUBSET Prices,
         NEW p \in on, NEW q \in Prices, Better(side, p, q)
  PROVE  Ahead(side, on, p) < Ahead(side, on, q)
<1> DEFINE P == {r \in on : Better(side, r, p)}
           Q == {r \in on : Better(side, r, q)}
<1>1. P \in SUBSET Q /\ p \in Q /\ p \notin P /\ Q \in SUBSET Prices
  BY BetterOrder
<1> HIDE DEF P, Q
<1>2. IsFiniteSet(Q) /\ Cardinality(Q) \in Nat /\ Cardinality(P) \in Nat
  BY <1>1, CountType
<1>3. Cardinality(P) <= Cardinality(Q) /\ Cardinality(P) # Cardinality(Q)
  BY <1>1, <1>2, FS_Subset
<1> QED
  BY <1>2, <1>3 DEF Ahead, P, Q

\* Of some levels one is best ...
LEMMA BestOfSome ==
  ASSUME NEW side \in Sides, NEW on \in SUBSET Prices, NEW some \in SUBSET on, some # {}
  PROVE  \E p \in some : \A q \in some : ~Better(side, q, p)
<1> DEFINE counts == {Ahead(side, on, p) : p \in some}
<1>1. counts \subseteq Nat /\ counts # {}
  BY AheadType
<1>2. PICK n \in counts : \A m \in counts : n <= m
  BY <1>1, LeastNat
<1>3. PICK p \in some : n = Ahead(side, on, p)
  BY <1>2
<1>4. ASSUME NEW q \in some, Better(side, q, p) PROVE FALSE
  <2>1. Ahead(side, on, q) < Ahead(side, on, p)
    BY <1>4, AheadOrder
  <2>2. Ahead(side, on, q) \in counts
    OBVIOUS
  <2>3. Ahead(side, on, p) <= Ahead(side, on, q)
    BY <1>2, <1>3, <2>2
  <2> QED
    BY <2>1, <2>3, AheadType
<1> QED
  BY <1>3, <1>4

\* ... and, if they are not too many, one is worst.
LEMMA WorstOfSome ==
  ASSUME NEW side \in Sides, NEW on \in SUBSET Prices, NEW some \in SUBSET on, some # {}
  PROVE  \E p \in some : \A q \in some : ~Better(side, p, q)
<1> DEFINE counts == {Cardinality(on) - Ahead(side, on, p) : p \in some}
<1>1. counts \subseteq Nat /\ counts # {}
  <2>1. ASSUME NEW p \in some PROVE Cardinality(on) - Ahead(side, on, p) \in Nat
    <3>1. {q \in on : Better(side, q, p)} \in SUBSET on
      OBVIOUS
    <3>2. Ahead(side, on, p) <= Cardinality(on)
      BY <3>1, CountMonotone DEF Ahead
    <3> QED
      BY <3>2, AheadType, CountType
  <2> QED
    BY <2>1
<1>2. PICK n \in counts : \A m \in counts : n <= m
  BY <1>1, LeastNat
<1>3. PICK p \in some : n = Cardinality(on) - Ahead(side, on, p)
  BY <1>2
<1>4. ASSUME NEW q \in some, Better(side, p, q) PROVE FALSE
  <2>1. Ahead(side, on, p) < Ahead(side, on, q)
    BY <1>4, AheadOrder
  <2>2. Cardinality(on) - Ahead(side, on, q) \in counts
    OBVIOUS
  <2>3. Cardinality(on) - Ahead(side, on, p) <= Cardinality(on) - Ahead(side, on, q)
    BY <1>2, <1>3, <2>2
  <2> QED
    BY <2>1, <2>3, AheadType, CountType
<1> QED
  BY <1>3, <1>4

\* At most n levels have fewer than n ahead.
LEMMA AtMostBest ==
  ASSUME NEW side \in Sides, NEW on \in SUBSET Prices, NEW n \in Nat
  PROVE  Cardinality({p \in on : Ahead(side, on, p) < n}) <= n
<1> DEFINE top == {p \in on : Ahead(side, on, p) < n}
<1> SUFFICES Cardinality(top) <= n
  OBVIOUS
<1>0. top \in SUBSET on /\ top \in SUBSET Prices /\ Cardinality(top) \in Nat /\ IsFiniteSet(top)
  <2>1. top \in SUBSET on /\ top \in SUBSET Prices
    OBVIOUS
  <2> HIDE DEF top
  <2> QED
    BY <2>1, CountType
<1>1. CASE top = {}
  BY <1>1, FS_EmptySet
<1>2. CASE top # {}
  <2>1. PICK p \in top : \A q \in top : ~Better(side, p, q)
    BY <1>0, <1>2, WorstOfSome
  <2> DEFINE ahead == {q \in on : Better(side, q, p)}
  <2>2. top \ {p} \in SUBSET ahead /\ ahead \in SUBSET Prices
    BY <1>0, <2>1, BetterOrder
  <2>3. Cardinality(top \ {p}) <= Cardinality(ahead) /\ Cardinality(ahead) < n
    <3>1. Cardinality(ahead) < n
      BY <2>1 DEF Ahead
    <3> HIDE DEF ahead
    <3> QED
      BY <2>2, <3>1, CountMonotone
  <2>4. Cardinality(top \ {p}) = Cardinality(top) - 1
    BY <1>0, <2>1, FS_RemoveElement
  <2>5. Cardinality(ahead) \in Nat
    BY <2>2, CountType
  <2> HIDE DEF top, ahead
  <2> QED
    BY <1>0, <2>3, <2>4, <2>5
<1> QED
  BY <1>1, <1>2

\* If n levels are better than p, n of those have fewer than n ahead.
LEMMA AtLeastBest ==
  ASSUME NEW side \in Sides, NEW on \in SUBSET Prices, NEW p \in Prices,
         NEW n \in Nat, Ahead(side, on, p) >= n
  PROVE  Cardinality({q \in on : Better(side, q, p) /\ Ahead(side, on, q) < n}) >= n
<1> DEFINE better == {q \in on : Better(side, q, p)}
           top(k) == {q \in better : Ahead(side, on, q) < k}
           Few == {k \in 0..n : ~(Cardinality(top(k)) >= k)}
<1>0. better \in SUBSET on /\ better \in SUBSET Prices /\ Cardinality(better) >= n
  BY DEF Ahead
<1>1. \A k : top(k) \in SUBSET better /\ top(k) \in SUBSET Prices
  OBVIOUS
<1>2. \A k : Cardinality(top(k)) \in Nat /\ IsFiniteSet(top(k))
  <2> HIDE DEF top
  <2> QED
    BY <1>1, CountType
<1>3. SUFFICES ASSUME Few # {} PROVE FALSE
  <2>1. top(n) = {q \in on : Better(side, q, p) /\ Ahead(side, on, q) < n}
    OBVIOUS
  <2>2. n \notin Few
    BY <1>3
  <2> HIDE DEF top
  <2> QED
    BY <2>1, <2>2
<1>4. PICK k \in Few : \A m \in Few : k <= m
  <2>1. Few \subseteq Nat
    OBVIOUS
  <2> QED
    BY <1>3, <2>1, LeastNat
<1>5. k > 0 /\ k \in Nat /\ k <= n
  <2>1. Cardinality(top(0)) \in Nat
    BY <1>2
  <2> QED
    BY <1>4, <2>1
<1>6. Cardinality(top(k - 1)) >= k - 1
  <2>1. k - 1 \notin Few
    BY <1>4, <1>5
  <2> QED
    BY <1>5, <2>1
<1>7. top(k - 1) \in SUBSET top(k)
  <2>1. ASSUME NEW q \in top(k - 1) PROVE q \in top(k)
    BY <1>5, <2>1, AheadType
  <2> QED
    BY <2>1
<1>8. Cardinality(top(k)) < k
  BY <1>2, <1>4, <1>5
<1>9. Cardinality(top(k - 1)) <= Cardinality(top(k))
  <2> HIDE DEF top
  <2> QED
    BY <1>1, <1>7, CountMonotone
<1>10. Cardinality(top(k - 1)) = k - 1 /\ Cardinality(top(k)) = k - 1
  <2>1. Cardinality(top(k - 1)) \in Nat /\ Cardinality(top(k)) \in Nat
    BY <1>2
  <2> HIDE DEF top
  <2> QED
    BY <1>5, <1>6, <1>8, <1>9, <2>1
<1>11. better \ top(k) # {}
  <2> SUFFICES ASSUME better \subseteq top(k) PROVE FALSE
    OBVIOUS
  <2>1. better = top(k)
    BY <1>1
  <2> HIDE DEF top, better
  <2> QED
    BY <1>0, <1>5, <1>10, <2>1
<1>12. PICK q \in better \ top(k) : \A r \in better \ top(k) : ~Better(side, r, q)
  <2>1. better \ top(k) \in SUBSET on
    BY <1>0
  <2> HIDE DEF top, better
  <2> QED
    BY <1>11, <2>1, BestOfSome
<1>13. {r \in on : Better(side, r, q)} \in SUBSET top(k)
  <2> SUFFICES ASSUME NEW r \in on, Better(side, r, q)
               PROVE  r \in top(k)
    OBVIOUS
  <2>1. r \in better
    BY <1>12, BetterOrder
  <2> QED
    BY <1>12, <2>1
<1>14. Ahead(side, on, q) <= k - 1
  <2> HIDE DEF top
  <2> QED
    BY <1>1, <1>10, <1>13, CountMonotone DEF Ahead
<1>15. q \in top(k)
  BY <1>5, <1>12, <1>14, AheadType
<1> QED
  BY <1>12, <1>15

-----------------------------------------------------------------------------
(* The best levels of a side *)

LEMMA LevelType ==
  ASSUME NEW levels \in Levels, NEW p \in Prices
  PROVE  levels[p] \in Nat
<1>1. Qtys \cup {0} \subseteq Nat
  BY BookAssumption
<1>2. levels[p] \in Qtys \cup {0}
  BY Zenon DEF Levels
<1> QED
  BY <1>1, <1>2, Zenon

LEMMA BestType ==
  ASSUME NEW side \in Sides, NEW levels \in Levels, NEW n \in Nat
  PROVE  /\ Best(side, levels, n) \in Levels
         /\ \A p \in Prices :
              Best(side, levels, n)[p]
                = IF Ahead(side, Present(levels), p) < n THEN levels[p] ELSE 0
         /\ Present(Best(side, levels, n))
              = {p \in Present(levels) : Ahead(side, Present(levels), p) < n}
<1>1. /\ Best(side, levels, n) \in Levels
      /\ \A p \in Prices :
           Best(side, levels, n)[p]
             = IF Ahead(side, Present(levels), p) < n THEN levels[p] ELSE 0
  BY DEF Best, Levels
<1> QED
  BY <1>1 DEF Present

\* A level that is not among the n best has n of those better than it.
LEMMA PushedOut ==
  ASSUME NEW side \in Sides, NEW levels \in Levels, NEW n \in Nat,
         NEW p \in Prices, levels[p] > 0, Best(side, levels, n)[p] = 0
  PROVE  Cardinality({q \in Present(Best(side, levels, n)) : Better(side, q, p)}) >= n
<1> DEFINE on == Present(levels)
<1>1. on \in SUBSET Prices /\ Ahead(side, on, p) \in Nat
  BY PresentType, AheadType
<1>2. Ahead(side, on, p) >= n
  BY <1>1, BestType
<1>3. Cardinality({q \in on : Better(side, q, p) /\ Ahead(side, on, q) < n}) >= n
  BY <1>1, <1>2, AtLeastBest
<1>4. {q \in Present(Best(side, levels, n)) : Better(side, q, p)}
        = {q \in on : Better(side, q, p) /\ Ahead(side, on, q) < n}
  BY BestType
<1> QED
  BY <1>3, <1>4

LEMMA WindowType ==
  ASSUME NEW m \in [Sides -> Levels]
  PROVE  /\ Window(m) \in [Sides -> Levels]
         /\ \A s \in Sides : /\ Window(m)[s] = Best(s, m[s], StreamDepth)
                             /\ Cardinality(Present(Window(m)[s])) <= StreamDepth
<1>1. \A s \in Sides : Window(m)[s] = Best(s, m[s], StreamDepth)
  BY DEF Window
<1>2. ASSUME NEW s \in Sides
      PROVE  /\ Best(s, m[s], StreamDepth) \in Levels
             /\ Cardinality(Present(Best(s, m[s], StreamDepth))) <= StreamDepth
  <2>1. StreamDepth \in Nat /\ m[s] \in Levels
    BY BookAssumption
  <2>2. Present(m[s]) \in SUBSET Prices
    BY PresentType
  <2> QED
    BY <2>1, <2>2, BestType, AtMostBest
<1> QED
  BY <1>1, <1>2 DEF Window

-----------------------------------------------------------------------------
(* What the local book knows *)

\* Every level shown is one of the topic's, and no more of the topic's levels
\* are missing than the book is shallower than the topic.
Knows(levels, window) ==
  /\ \A p \in Prices : levels[p] \in {0, window[p]}
  /\ Cardinality(Present(window) \ Present(levels)) <= StreamDepth - Depth

\* Trimming cuts the levels that were pushed out of the window, and otherwise
\* leaves a book that is full.
LEMMA TrimKnows ==
  ASSUME Depth <= StreamDepth,
         NEW s \in Sides, NEW n \in Levels, NEW w, w = Best(s, n, StreamDepth),
         NEW x \in Levels,
         \A p \in Prices : x[p] \in {0, w[p]} \/ (w[p] = 0 /\ n[p] > 0),
         Cardinality(Present(w) \ Present(x)) <= StreamDepth - Depth
  PROVE  /\ Trim(s, x) \in Levels
         /\ Knows(Trim(s, x), w)
<1> DEFINE t == Best(s, x, Depth)
<1>0. /\ Depth \in Nat /\ StreamDepth \in Nat
      /\ Present(w) \in SUBSET Prices /\ Present(x) \in SUBSET Prices
      /\ Present(t) \in SUBSET Prices /\ w \in Levels /\ t \in Levels
  BY BookAssumption, PresentType, BestType
<1>1. \A p \in Prices : t[p] = IF Ahead(s, Present(x), p) < Depth THEN x[p] ELSE 0
  BY <1>0, BestType
<1>2. ASSUME NEW p \in Prices, x[p] \notin {0, w[p]}
      PROVE  t[p] = 0
  <2>1. n[p] > 0 /\ w[p] = 0
    BY <1>2
  <2> DEFINE ahead == {q \in Present(w) : Better(s, q, p)}
             known == {q \in Present(x) : Better(s, q, p)}
  <2>2. Cardinality(ahead) >= StreamDepth
    BY <1>0, <2>1, PushedOut
  <2>3. ahead \ (Present(w) \ Present(x)) \in SUBSET known
    OBVIOUS
  <2>4. /\ ahead \in SUBSET Prices /\ known \in SUBSET Prices
        /\ (Present(w) \ Present(x)) \in SUBSET Prices
        /\ (ahead \cap (Present(w) \ Present(x))) \in SUBSET (Present(w) \ Present(x))
    BY <1>0
  <2> DEFINE unknown == Present(w) \ Present(x)
  <2> HIDE DEF ahead, known, unknown
  <2>5. Cardinality(ahead \ unknown) = Cardinality(ahead) - Cardinality(ahead \cap unknown)
    BY <2>4, CountType, FS_Difference
  <2>6. Cardinality(ahead \cap unknown) <= StreamDepth - Depth
    <3>1. unknown \in SUBSET Prices /\ (ahead \cap unknown) \in SUBSET unknown
          /\ (ahead \cap unknown) \in SUBSET Prices
      BY <2>4 DEF unknown
    <3>2. Cardinality(ahead \cap unknown) <= Cardinality(unknown)
      BY <3>1, CountMonotone
    <3>3. Cardinality(unknown) <= StreamDepth - Depth
      BY DEF unknown
    <3> QED
      BY <1>0, <3>1, <3>2, <3>3, CountType
  <2>7. Cardinality(ahead \ unknown) <= Cardinality(known)
    BY <2>3, <2>4, CountMonotone DEF unknown
  <2>8. /\ Cardinality(ahead) \in Nat /\ Cardinality(known) \in Nat
        /\ Cardinality(ahead \cap unknown) \in Nat
    <3>1. (ahead \cap unknown) \in SUBSET Prices
      BY <2>4
    <3> QED
      BY <2>4, <3>1, CountType
  <2>9. Cardinality(known) >= Depth
    BY <1>0, <2>2, <2>5, <2>6, <2>7, <2>8
  <2>10. Ahead(s, Present(x), p) >= Depth
    BY <2>9 DEF Ahead, known
  <2>11. Ahead(s, Present(x), p) \in Nat
    BY <1>0, AheadType
  <2>12. ~(Ahead(s, Present(x), p) < Depth)
    BY <1>0, <2>10, <2>11
  <2> QED
    BY <1>1, <2>12
<1>3. \A p \in Prices : t[p] \in {0, w[p]}
  BY <1>1, <1>2
<1>4. Cardinality(Present(w) \ Present(t)) <= StreamDepth - Depth
  <2>1. CASE \A p \in Present(x) : t[p] > 0
    <3>1. (Present(w) \ Present(t)) \in SUBSET (Present(w) \ Present(x))
      BY <1>0, <2>1 DEF Present
    <3>2. /\ (Present(w) \ Present(t)) \in SUBSET Prices
          /\ (Present(w) \ Present(x)) \in SUBSET Prices
      BY <1>0
    <3>3. Cardinality(Present(w) \ Present(t)) <= Cardinality(Present(w) \ Present(x))
      BY <3>1, <3>2, CountMonotone
    <3> QED
      BY <1>0, <3>2, <3>3, CountType
  <2>2. CASE \E p \in Present(x) : ~(t[p] > 0)
    <3>0. PICK p \in Prices : x[p] > 0 /\ ~(t[p] > 0)
      BY <2>2 DEF Present
    <3>1. x[p] > 0 /\ t[p] = 0
      <4>1. t[p] \in {0, x[p]}
        BY <1>1
      <4> QED
        BY <3>0, <4>1
    <3> DEFINE best == {q \in Present(t) : Better(s, q, p)}
    <3>2. Cardinality(best) >= Depth
      BY <1>0, <3>1, PushedOut
    <3>3. Present(t) \in SUBSET Present(w)
      BY <1>3 DEF Present
    <3>4. best \in SUBSET Present(t)
      OBVIOUS
    <3> HIDE DEF best, t
    <3>5. Cardinality(Present(t)) >= Depth
      <4>1. Cardinality(best) <= Cardinality(Present(t))
        BY <1>0, <3>4, CountMonotone
      <4>2. best \in SUBSET Prices
        BY <1>0, <3>4
      <4> QED
        BY <1>0, <3>2, <4>1, <4>2, CountType
    <3>6. Cardinality(Present(w) \ Present(t))
            = Cardinality(Present(w)) - Cardinality(Present(w) \cap Present(t))
      BY <1>0, CountType, FS_Difference
    <3>7. Present(w) \cap Present(t) = Present(t)
      BY <3>3
    <3>8. Cardinality(Present(w)) <= StreamDepth
      <4>1. Present(n) \in SUBSET Prices
        BY PresentType
      <4> QED
        BY <1>0, <4>1, BestType, AtMostBest
    <3>9. Cardinality(Present(w)) \in Nat /\ Cardinality(Present(t)) \in Nat
      BY <1>0, CountType
    <3>10. Depth \in Nat /\ StreamDepth \in Nat
      BY <1>0
    <3> QED
      BY <3>5, <3>6, <3>7, <3>8, <3>9, <3>10
  <2> QED
    BY <2>1, <2>2
<1> QED
  BY <1>0, <1>3, <1>4 DEF Trim, Knows

-----------------------------------------------------------------------------
(* Messages *)

\* A local book and whether it is ready.
Shown == [book : [Sides -> Levels], ready : BOOLEAN]

LEMMA MergeType ==
  ASSUME NEW levels \in Levels, NEW changes \in Changes
  PROVE  Merge(levels, changes) \in Levels
<1>1. PICK on \in SUBSET Prices : changes \in [on -> Qtys \cup {0}]
  BY DEF Changes
<1> QED
  BY <1>1 DEF Merge, Levels

LEMMA EmptyType == NoLevels \in Levels /\ Empty \in [Sides -> Levels]
BY DEF NoLevels, Empty, Levels

\* Whatever a message says, a book stays one.
LEMMA AppliedType ==
  ASSUME NEW m \in Message, NEW b \in Shown
  PROVE  Applied(m, b) \in Shown
<1> DEFINE base == IF IsReset(m) THEN Empty ELSE b.book
           new == [s \in Sides |-> Trim(s, Merge(base[s], m.levels[s]))]
<1>1. base \in [Sides -> Levels] /\ b.book \in [Sides -> Levels] /\ b.ready \in BOOLEAN
  BY EmptyType DEF Shown
<1>2. ASSUME NEW s \in Sides PROVE Trim(s, Merge(base[s], m.levels[s])) \in Levels
  <2>1. m.levels[s] \in Changes /\ base[s] \in Levels
    BY <1>1 DEF Message
  <2> HIDE DEF base
  <2>2. Merge(base[s], m.levels[s]) \in Levels
    BY <2>1, MergeType
  <2> QED
    BY <2>2, BestType, BookAssumption DEF Trim
<1>3. new \in [Sides -> Levels]
  BY <1>2
<1>4. Applied(m, b) = IF IsReset(m) THEN [book |-> new, ready |-> new # Empty]
                      ELSE IF b.ready THEN [b EXCEPT !.book = new]
                      ELSE b
  BY DEF Applied
<1> HIDE DEF new
<1> QED
  BY <1>3, <1>4 DEF Shown

LEMMA SnapshotType ==
  ASSUME NEW m \in Markets
  PROVE  /\ Snapshot(m) \in [Sides -> Changes]
         /\ \A s \in Sides : Merge(NoLevels, Snapshot(m)[s]) = Window(m)[s]
<1>1. m \in [Sides -> Levels] /\ Window(m) \in [Sides -> Levels]
  BY WindowType DEF Markets
<1>2. ASSUME NEW s \in Sides
      PROVE  /\ Snapshot(m)[s] = [p \in Present(Window(m)[s]) |-> Window(m)[s][p]]
             /\ Snapshot(m)[s] \in Changes
             /\ Merge(NoLevels, Snapshot(m)[s]) = Window(m)[s]
  <2> DEFINE w == Window(m)[s]
  <2>1. w \in Levels /\ Present(w) \in SUBSET Prices
    BY <1>1, PresentType
  <2>2. Snapshot(m)[s] = [p \in Present(w) |-> w[p]]
    BY DEF Snapshot
  <2> HIDE DEF w
  <2>3. [p \in Present(w) |-> w[p]] \in [Present(w) -> Qtys \cup {0}]
    BY <2>1 DEF Levels
  <2>4. Snapshot(m)[s] \in Changes
    BY <2>1, <2>2, <2>3 DEF Changes
  <2>5. ASSUME NEW p \in Prices
        PROVE  (IF p \in Present(w) THEN w[p] ELSE 0) = w[p]
    <3>1. w[p] \in Nat
      BY <2>1, LevelType
    <3> QED
      BY <3>1 DEF Present
  <2>6. Merge(NoLevels, Snapshot(m)[s]) = [p \in Prices |-> IF p \in Present(w) THEN w[p] ELSE 0]
    BY <2>1, <2>2 DEF Merge, NoLevels
  <2>7. w = [p \in Prices |-> w[p]]
    BY <2>1 DEF Levels
  <2>8. Merge(NoLevels, Snapshot(m)[s]) = w
    BY <2>5, <2>6, <2>7
  <2> QED
    BY <2>2, <2>4, <2>8 DEF w
<1>3. Snapshot(m) = [s \in Sides |-> Snapshot(m)[s]]
  BY DEF Snapshot
<1> QED
  BY <1>2, <1>3

\* The changes of a side whose window was v and is w, out of the levels it has:
\* every change but for levels that others pushed out.
Tells(changes, v, w, levels) ==
  \E told \in SUBSET Moved(v, w) :
    /\ changes = [p \in told |-> w[p]]
    /\ \A p \in Moved(v, w) \ told : w[p] = 0 /\ levels[p] > 0

LEMMA DeltaType ==
  ASSUME NEW m \in Markets, NEW n \in Markets, NEW mute \in SUBSET Prices
  PROVE  /\ Delta(m, n, mute) \in [Sides -> Changes]
         /\ \A s \in Sides :
              Tells(Delta(m, n, mute)[s], Window(m)[s], Window(n)[s], n[s])
<1>1. n \in [Sides -> Levels] /\ Window(n) \in [Sides -> Levels]
  BY WindowType DEF Markets
<1> DEFINE pushed(s) == {p \in mute : Window(n)[s][p] = 0 /\ n[s][p] > 0}
           told(s) == Moved(Window(m)[s], Window(n)[s]) \ pushed(s)
<1>2. Delta(m, n, mute) = [s \in Sides |-> [p \in told(s) |-> Window(n)[s][p]]]
  BY DEF Delta
<1>3. \A s \in Sides : told(s) \in SUBSET Prices /\ Window(n)[s] \in Levels
  BY <1>1 DEF Moved
<1>4. \A s \in Sides : [p \in told(s) |-> Window(n)[s][p]] \in [told(s) -> Qtys \cup {0}]
  <2> HIDE DEF told
  <2> QED
    BY <1>3 DEF Levels
<1>5. \A s \in Sides : [p \in told(s) |-> Window(n)[s][p]] \in Changes
  <2> HIDE DEF told
  <2> QED
    BY <1>3, <1>4 DEF Changes
<1>6. Delta(m, n, mute) \in [Sides -> Changes]
  <2> HIDE DEF told
  <2> QED
    BY <1>2, <1>5
<1>7. ASSUME NEW s \in Sides
      PROVE  /\ told(s) \in SUBSET Moved(Window(m)[s], Window(n)[s])
             /\ Delta(m, n, mute)[s] = [p \in told(s) |-> Window(n)[s][p]]
             /\ \A p \in Moved(Window(m)[s], Window(n)[s]) \ told(s) :
                  Window(n)[s][p] = 0 /\ n[s][p] > 0
  <2>1. Delta(m, n, mute)[s] = [p \in told(s) |-> Window(n)[s][p]]
    <3> HIDE DEF told
    <3> QED
      BY <1>2
  <2> QED
    BY <2>1
<1> HIDE DEF told
<1> QED
  BY <1>6, <1>7 DEF Tells

\* A local book is sound for a market if it is empty and not ready, or knows
\* its window.
Sound(b, m) ==
  /\ b \in Shown
  /\ ~b.ready => b.book = Empty
  /\ b.ready => \A s \in Sides : Knows(b.book[s], Window(m)[s])

\* A snapshot makes the book sound, whatever it was.
LEMMA ResetSound ==
  ASSUME Depth <= StreamDepth,
         NEW m \in Markets, NEW b \in Shown,
         NEW msg \in Message, IsReset(msg), msg.levels = Snapshot(m)
  PROVE  Sound(Applied(msg, b), m)
<1> DEFINE new == [s \in Sides |-> Trim(s, Merge(Empty[s], msg.levels[s]))]
<1>1. Applied(msg, b) = [book |-> new, ready |-> new # Empty]
  BY DEF Applied
<1>2. \A s \in Sides : new[s] = Trim(s, Window(m)[s])
  <2>1. \A s \in Sides : Empty[s] = NoLevels
    BY DEF Empty
  <2> QED
    BY <2>1, SnapshotType
<1>3. ASSUME NEW s \in Sides PROVE Knows(new[s], Window(m)[s])
  <2> DEFINE w == Window(m)[s]
  <2>1. w \in Levels /\ w = Best(s, m[s], StreamDepth) /\ m[s] \in Levels
    BY WindowType DEF Markets
  <2>2. Present(w) \ Present(w) = {}
    OBVIOUS
  <2>3. Cardinality(Present(w) \ Present(w)) <= StreamDepth - Depth
    <3>1. Cardinality(Present(w) \ Present(w)) = 0
      BY <2>2, FS_EmptySet
    <3> QED
      BY <3>1, BookAssumption
  <2>4. \A p \in Prices : w[p] \in {0, w[p]}
    OBVIOUS
  <2> HIDE DEF w
  <2>5. Knows(Trim(s, w), w)
    BY <2>1, <2>3, <2>4, TrimKnows
  <2> QED
    BY <1>2, <2>5 DEF w
<1>4. Applied(msg, b) \in Shown
  BY AppliedType
<1> HIDE DEF new
<1>5. Applied(msg, b).book = new /\ Applied(msg, b).ready = (new # Empty)
  BY <1>1
<1>6. ~(new # Empty) => new = Empty
  OBVIOUS
<1> QED
  BY <1>3, <1>4, <1>5, <1>6 DEF Sound

\* The message about what moved keeps it sound, for the market as it is then.
LEMMA DeltaSound ==
  ASSUME Depth <= StreamDepth,
         NEW m \in Markets, NEW n \in Markets, NEW mute \in SUBSET Prices,
         NEW b, Sound(b, m),
         NEW msg \in Message, ~IsReset(msg), msg.levels = Delta(m, n, mute)
  PROVE  Sound(Applied(msg, b), n)
<1>0. b \in Shown /\ Applied(msg, b) \in Shown
  BY AppliedType DEF Sound
<1>1. CASE ~b.ready
  <2>1. Applied(msg, b) = b
    BY <1>1 DEF Applied
  <2> QED
    BY <1>1, <2>1 DEF Sound
<1>2. CASE b.ready
  <2> DEFINE new == [s \in Sides |-> Trim(s, Merge(b.book[s], msg.levels[s]))]
  <2>1. Applied(msg, b) = [b EXCEPT !.book = new]
    BY <1>2 DEF Applied
  <2>2. ASSUME NEW s \in Sides PROVE Knows(new[s], Window(n)[s])
    <3> DEFINE v == Window(m)[s]
               w == Window(n)[s]
               l == b.book[s]
               x == Merge(l, msg.levels[s])
    <3>1. /\ v \in Levels /\ w \in Levels /\ l \in Levels /\ n[s] \in Levels
          /\ w = Best(s, n[s], StreamDepth)
      BY <1>0, WindowType DEF Markets, Shown
    <3>2. PICK told \in SUBSET Moved(v, w) :
            /\ msg.levels[s] = [p \in told |-> w[p]]
            /\ \A p \in Moved(v, w) \ told : w[p] = 0 /\ n[s][p] > 0
      <4>1. Tells(msg.levels[s], v, w, n[s])
        BY DeltaType
      <4> QED
        BY <4>1 DEF Tells
    <3>3. x \in Levels
      <4>1. msg.levels[s] \in Changes
        BY DEF Message
      <4> QED
        BY <3>1, <4>1, MergeType
    <3>4. \A p \in Prices : x[p] = IF p \in told THEN w[p] ELSE l[p]
      BY <3>2 DEF Merge
    <3>5. Knows(l, v)
      BY <1>2 DEF Sound
    <3>6. new[s] = Trim(s, x)
      OBVIOUS
    <3>7. \A p \in Prices : p \notin Moved(v, w) => v[p] = w[p]
      BY DEF Moved
    <3> HIDE DEF v, w, l, x, new
    <3>8. \A p \in Prices : x[p] \in {0, w[p]} \/ (w[p] = 0 /\ n[s][p] > 0)
      BY <3>2, <3>4, <3>5, <3>7 DEF Knows
    <3>9. (Present(w) \ Present(x)) \in SUBSET (Present(v) \ Present(l))
      <4> SUFFICES ASSUME NEW p \in Prices, w[p] > 0, ~(x[p] > 0)
                   PROVE  v[p] > 0 /\ ~(l[p] > 0)
        BY DEF Present
      <4>1. p \notin told
        BY <3>4
      <4>2. p \notin Moved(v, w)
        BY <3>2, <4>1
      <4> QED
        BY <3>4, <3>7, <4>1, <4>2
    <3>10. Cardinality(Present(w) \ Present(x)) <= StreamDepth - Depth
      <4>1. /\ (Present(v) \ Present(l)) \in SUBSET Prices
            /\ (Present(w) \ Present(x)) \in SUBSET Prices
        BY PresentType
      <4>2. Cardinality(Present(w) \ Present(x)) <= Cardinality(Present(v) \ Present(l))
        BY <3>9, <4>1, CountMonotone
      <4>3. Cardinality(Present(v) \ Present(l)) <= StreamDepth - Depth
        BY <3>5 DEF Knows
      <4> QED
        BY <4>1, <4>2, <4>3, CountType, BookAssumption
    <3>11. Knows(Trim(s, x), w)
      BY <3>1, <3>3, <3>8, <3>10, TrimKnows
    <3> QED
      BY <3>6, <3>11 DEF w
  <2>3. Applied(msg, b).ready /\ Applied(msg, b).book = new
    <3> HIDE DEF new
    <3> QED
      BY <1>0, <1>2, <2>1 DEF Shown
  <2> HIDE DEF new
  <2> QED
    BY <1>0, <2>2, <2>3 DEF Sound
<1> QED
  BY <1>1, <1>2

-----------------------------------------------------------------------------
(* Types *)

\* What is left of an exchange's book is one.
LEMMA KeptType ==
  ASSUME NEW m \in Markets, NEW kept \in SUBSET Prices
  PROVE  [s \in Sides |-> [p \in Prices |-> IF p \in kept THEN m[s][p] ELSE 0]] \in Markets
<1> DEFINE left == [s \in Sides |-> [p \in Prices |-> IF p \in kept THEN m[s][p] ELSE 0]]
<1>1. m \in [Sides -> Levels] /\ ~Crossed(m)
  BY DEF Markets
<1>2. left \in [Sides -> Levels]
  BY <1>1 DEF Levels
<1>3. \A s \in Sides : Present(left[s]) \subseteq Present(m[s])
  BY DEF Present
<1> HIDE DEF left
<1>4. ~Crossed(left)
  BY <1>1, <1>3 DEF Crossed, Sides
<1> QED
  BY <1>2, <1>4 DEF Markets, left

LEMMA SentType ==
  ASSUME TypeOK, NEW m \in Message, Send(m)
  PROVE  pending' \in Seq(Message)
BY DEF TypeOK, Send

LEMMA TypeInit == Init => TypeOK
<1> SUFFICES ASSUME Init PROVE TypeOK
  OBVIOUS
<1>1. <<>> \in Seq(Message)
  OBVIOUS
<1> QED
  BY <1>1, EmptyType DEF Init, TypeOK

LEMMA TypeStep == TypeOK /\ [Next]_vars => TypeOK'
<1> SUFFICES ASSUME TypeOK, [Next]_vars
             PROVE  TypeOK'
  OBVIOUS
<1>1. CASE Connect
  <2>1. [type |-> "snapshot", first |-> FALSE, levels |-> Snapshot(market)] \in Message
    BY SnapshotType DEF Message, TypeOK
  <2>2. pending' \in Seq(Message)
    BY <1>1, <2>1, SentType DEF Connect
  <2> QED
    BY <1>1, <2>2 DEF Connect, TypeOK
<1>2. CASE Trade
  <2>1. market' \in Markets /\ UNCHANGED <<online, book, ready>>
    BY <1>2 DEF Trade
  <2>2. ASSUME NEW mute \in SUBSET Prices,
               Send([type |-> "delta", first |-> FALSE, levels |-> Delta(market, market', mute)])
        PROVE  pending' \in Seq(Message)
    <3>2. [type |-> "delta", first |-> FALSE, levels |-> Delta(market, market', mute)] \in Message
      BY <2>1, DeltaType DEF Message, TypeOK
    <3> QED
      BY <2>2, <3>2, SentType
  <2>3. pending' \in Seq(Message)
    BY <1>2, <2>2 DEF Trade, TypeOK
  <2> QED
    BY <2>1, <2>3 DEF TypeOK
<1>3. CASE Recount
  <2>1. PICK kept \in SUBSET Prices :
          market' = [s \in Sides |-> [p \in Prices |-> IF p \in kept THEN market[s][p] ELSE 0]]
    BY <1>3 DEF Recount
  <2>2. market' \in Markets
    BY <2>1, KeptType DEF TypeOK
  <2>3. PICK type \in {"snapshot", "delta"} :
          Send([type |-> type, first |-> TRUE, levels |-> Snapshot(market')])
    BY <1>3 DEF Recount
  <2>4. [type |-> type, first |-> TRUE, levels |-> Snapshot(market')] \in Message
    BY <2>2, SnapshotType DEF Message
  <2>5. pending' \in Seq(Message)
    BY <2>3, <2>4, SentType
  <2> QED
    BY <1>3, <2>2, <2>5 DEF Recount, TypeOK
<1>4. CASE Handle
  <2> DEFINE b == [book |-> book, ready |-> ready]
  <2>1. b \in Shown
    BY DEF TypeOK, Shown
  <2>2. Head(pending) \in Message /\ Tail(pending) \in Seq(Message)
    BY <1>4 DEF Handle, TypeOK
  <2>3. book' = Applied(Head(pending), b).book /\ ready' = Applied(Head(pending), b).ready
    BY <1>4 DEF Handle
  <2> HIDE DEF b
  <2>4. book' \in [Sides -> Levels] /\ ready' \in BOOLEAN
    BY <2>1, <2>2, <2>3, AppliedType DEF Shown
  <2> QED
    BY <1>4, <2>2, <2>4 DEF Handle, TypeOK
<1>5. CASE Restart
  <2>1. <<>> \in Seq(Message)
    OBVIOUS
  <2> QED
    BY <1>5, <2>1, EmptyType DEF Restart, TypeOK
<1>6. CASE UNCHANGED vars
  BY <1>6 DEF vars, TypeOK
<1> QED
  BY <1>1, <1>2, <1>3, <1>4, <1>5, <1>6 DEF Next

\* The exchange's book is never crossed, every message names prices with their
\* quantities, and the local book has one level per price (LocalOrderBook).
THEOREM TypeCorrect == Spec => []TypeOK
<1> QED
  BY TypeInit, TypeStep, PTL DEF Spec

-----------------------------------------------------------------------------
(* The mirror *)

\* What is shown after each message that waits, and the market each of them told.
Follows(shown, told) ==
  /\ shown[0] = [book |-> book, ready |-> ready]
  /\ \A i \in 1..Len(pending) : shown[i] = Applied(pending[i], shown[i - 1])
  /\ \A i \in 0..Len(pending) : told[i] \in Markets /\ Sound(shown[i], told[i])
  /\ told[Len(pending)] = market

Mirror == \E shown, told : Follows(shown, told)

\* Without a connection nothing is shown.
Quiet == ~online => pending = <<>> /\ book = Empty /\ ready = FALSE

BookInv == TypeOK /\ Quiet /\ Mirror

\* One more message that waits: it makes the last of what is shown sound.
LEMMA SentKeepsMirror ==
  ASSUME TypeOK, market' \in Markets, NEW msg \in Message, Send(msg),
         UNCHANGED <<book, ready>>,
         NEW shown, NEW told, Follows(shown, told),
         Sound(Applied(msg, shown[Len(pending)]), market')
  PROVE  Mirror'
<1> DEFINE n == Len(pending)
           shownNow == [i \in 0..n + 1 |-> IF i = n + 1 THEN Applied(msg, shown[n]) ELSE shown[i]]
           toldNow == [i \in 0..n + 1 |-> IF i = n + 1 THEN market' ELSE told[i]]
<1>1. /\ n \in Nat /\ Len(pending') = n + 1 /\ pending'[n + 1] = msg
      /\ \A i \in 1..n : pending'[i] = pending[i]
  BY DEF Send, TypeOK
<1>2. shownNow[0] = [book |-> book', ready |-> ready']
  BY <1>1 DEF Follows
<1>3. \A i \in 1..n + 1 : shownNow[i] = Applied(pending'[i], shownNow[i - 1])
  <2>1. \A i \in 1..n : shownNow[i] = shown[i] /\ shownNow[i - 1] = shown[i - 1]
    BY <1>1
  <2>2. shownNow[n + 1] = Applied(msg, shown[n]) /\ shownNow[n] = shown[n]
    BY <1>1
  <2>3. \A i \in 1..n + 1 : i \in 1..n \/ i = n + 1
    BY <1>1
  <2> HIDE DEF shownNow
  <2> QED
    BY <1>1, <2>1, <2>2, <2>3 DEF Follows
<1>4. \A i \in 0..n + 1 : toldNow[i] \in Markets /\ Sound(shownNow[i], toldNow[i])
  <2>1. \A i \in 0..n : shownNow[i] = shown[i] /\ toldNow[i] = told[i]
    BY <1>1
  <2>2. shownNow[n + 1] = Applied(msg, shown[n]) /\ toldNow[n + 1] = market'
    BY <1>1
  <2>3. \A i \in 0..n + 1 : i \in 0..n \/ i = n + 1
    BY <1>1
  <2> HIDE DEF shownNow, toldNow
  <2> QED
    BY <1>1, <2>1, <2>2, <2>3 DEF Follows
<1>5. toldNow[n + 1] = market'
  BY <1>1
<1> HIDE DEF shownNow, toldNow
<1> QED
  BY <1>1, <1>2, <1>3, <1>4, <1>5 DEF Mirror, Follows

\* The market moves and nothing is sent: the window is the same, or there is
\* nobody to tell.
LEMMA SilenceKeepsMirror ==
  ASSUME TypeOK, Quiet, market' \in Markets, UNCHANGED <<online, pending, book, ready>>,
         online => Window(market') = Window(market),
         Mirror
  PROVE  Mirror'
<1> DEFINE n == Len(pending)
<1>1. PICK shown, told : Follows(shown, told)
  BY DEF Mirror
<1> DEFINE toldNow == [i \in 0..n |-> IF i = n THEN market' ELSE told[i]]
<1>2. n \in Nat
  BY DEF TypeOK
<1>3. Sound(shown[n], market')
  <2>1. Sound(shown[n], market)
    BY <1>1, <1>2 DEF Follows
  <2>2. CASE online
    BY <2>1, <2>2 DEF Sound
  <2>3. CASE ~online
    <3>1. n = 0 /\ shown[n].ready = FALSE
      BY <1>1, <2>3 DEF Quiet, Follows
    <3> QED
      BY <2>1, <3>1 DEF Sound
  <2> QED
    BY <2>2, <2>3
<1>4. \A i \in 0..n : toldNow[i] \in Markets /\ Sound(shown[i], toldNow[i])
  <2>1. \A i \in 0..n : i # n => toldNow[i] = told[i]
    OBVIOUS
  <2>2. toldNow[n] = market'
    BY <1>2
  <2> HIDE DEF toldNow
  <2> QED
    BY <1>1, <1>3, <2>1, <2>2 DEF Follows
<1>5. toldNow[n] = market'
  BY <1>2
<1> HIDE DEF toldNow
<1>6. /\ shown[0] = [book |-> book', ready |-> ready']
      /\ \A i \in 1..n : shown[i] = Applied(pending'[i], shown[i - 1])
  BY <1>1 DEF Follows
<1>7. pending' = pending
  OBVIOUS
<1> QED
  BY <1>4, <1>5, <1>6, <1>7 DEF Mirror, Follows

\* The first message is handled: what was to be shown next is.
LEMMA HandleKeepsMirror ==
  ASSUME TypeOK, Handle, Mirror
  PROVE  Mirror'
<1> DEFINE n == Len(pending)
<1>1. PICK shown, told : Follows(shown, told)
  BY DEF Mirror
<1> DEFINE shownNow == [i \in 0..n - 1 |-> shown[i + 1]]
           toldNow == [i \in 0..n - 1 |-> told[i + 1]]
<1>2. /\ n \in Nat \ {0} /\ Len(pending') = n - 1 /\ Head(pending) = pending[1]
      /\ \A i \in 1..n - 1 : pending'[i] = pending[i + 1]
      /\ market' = market
  BY DEF Handle, TypeOK
<1>3. [book |-> book', ready |-> ready'] = shown[1]
  <2> DEFINE b == [book |-> book, ready |-> ready]
             after == Applied(pending[1], b)
  <2>1. book' = after.book /\ ready' = after.ready
    BY <1>2 DEF Handle
  <2>2. shown[1] = after
    BY <1>1, <1>2 DEF Follows
  <2>3. shown[1] \in Shown
    BY <1>1, <1>2 DEF Follows, Sound
  <2> HIDE DEF after
  <2> QED
    BY <2>1, <2>2, <2>3 DEF Shown
<1>4. shownNow[0] = [book |-> book', ready |-> ready']
  BY <1>2, <1>3
<1>5. \A i \in 1..n - 1 : shownNow[i] = Applied(pending'[i], shownNow[i - 1])
  <2> SUFFICES ASSUME NEW i \in 1..n - 1
               PROVE  shownNow[i] = Applied(pending'[i], shownNow[i - 1])
    OBVIOUS
  <2>1. i \in 0..n - 1 /\ i - 1 \in 0..n - 1 /\ i + 1 \in 1..n /\ (i + 1) - 1 = i /\ (i - 1) + 1 = i
    BY <1>2
  <2>2. shownNow[i] = shown[i + 1] /\ shownNow[i - 1] = shown[i]
    BY <2>1
  <2>3. shown[i + 1] = Applied(pending[i + 1], shown[i])
    BY <1>1, <2>1 DEF Follows
  <2> HIDE DEF shownNow
  <2> QED
    BY <1>2, <2>2, <2>3
<1>6. \A i \in 0..n - 1 : toldNow[i] \in Markets /\ Sound(shownNow[i], toldNow[i])
  <2> SUFFICES ASSUME NEW i \in 0..n - 1
               PROVE  toldNow[i] \in Markets /\ Sound(shownNow[i], toldNow[i])
    OBVIOUS
  <2>1. i + 1 \in 0..n
    BY <1>2
  <2>2. shownNow[i] = shown[i + 1] /\ toldNow[i] = told[i + 1]
    OBVIOUS
  <2> HIDE DEF shownNow, toldNow
  <2> QED
    BY <1>1, <2>1, <2>2 DEF Follows
<1>7. toldNow[n - 1] = market'
  BY <1>1, <1>2 DEF Follows
<1> HIDE DEF shownNow, toldNow
<1> QED
  BY <1>2, <1>4, <1>5, <1>6, <1>7 DEF Mirror, Follows

\* Nothing waits and nothing is shown.
LEMMA NothingShown ==
  ASSUME NEW m \in Markets
  PROVE  \E shown, told :
           /\ shown[0] = [book |-> Empty, ready |-> FALSE]
           /\ told[0] = m
           /\ \A i \in 0..0 : told[i] \in Markets /\ Sound(shown[i], told[i])
<1> DEFINE b == [book |-> Empty, ready |-> FALSE]
           shown == [i \in {0} |-> b]
           told == [i \in {0} |-> m]
<1>1. Sound(b, m)
  BY EmptyType DEF Sound, Shown
<1>2. shown[0] = b /\ told[0] = m
  OBVIOUS
<1>3. 0..0 = {0}
  OBVIOUS
<1> HIDE DEF shown, told
<1> QED
  BY <1>1, <1>2, <1>3

LEMMA BookInit == Init => BookInv
<1> SUFFICES ASSUME Init PROVE BookInv
  OBVIOUS
<1>1. Len(pending) = 0 /\ 1..0 = {}
  BY DEF Init
<1>2. Mirror
  <2>1. PICK shown, told :
          /\ shown[0] = [book |-> Empty, ready |-> FALSE]
          /\ told[0] = market
          /\ \A i \in 0..0 : told[i] \in Markets /\ Sound(shown[i], told[i])
    BY NothingShown DEF Init
  <2>2. Follows(shown, told)
    BY <1>1, <2>1 DEF Init, Follows
  <2> QED
    BY <2>2 DEF Mirror
<1> QED
  BY <1>2, TypeInit DEF Init, BookInv, Quiet

LEMMA BookStep ==
  ASSUME Depth <= StreamDepth
  PROVE  BookInv /\ [Next]_vars => BookInv'
<1> SUFFICES ASSUME BookInv, [Next]_vars
             PROVE  BookInv'
  OBVIOUS
<1>0. TypeOK /\ TypeOK' /\ Quiet /\ Mirror /\ market \in Markets /\ market' \in Markets
  BY TypeStep DEF BookInv, TypeOK
<1>1. CASE Connect
  <2> DEFINE msg == [type |-> "snapshot", first |-> FALSE, levels |-> Snapshot(market)]
  <2>1. msg \in Message /\ IsReset(msg) /\ msg.levels = Snapshot(market)
    BY <1>0, SnapshotType DEF Message, IsReset
  <2>2. PICK shown, told : Follows(shown, told)
    BY <1>0 DEF Mirror
  <2>3. shown[Len(pending)] \in Shown
    BY <1>0, <2>2 DEF Follows, Sound, TypeOK
  <2>4. Send(msg) /\ UNCHANGED <<market, book, ready>> /\ online'
    BY <1>1 DEF Connect
  <2> HIDE DEF msg
  <2>5. Sound(Applied(msg, shown[Len(pending)]), market')
    BY <1>0, <2>1, <2>3, <2>4, ResetSound
  <2>6. Mirror'
    BY <1>0, <2>1, <2>2, <2>4, <2>5, SentKeepsMirror
  <2> QED
    BY <1>0, <2>4, <2>6 DEF BookInv, Quiet
<1>2. CASE Trade
  <2>0. UNCHANGED <<online, book, ready>>
    BY <1>2 DEF Trade
  <2>1. CASE online /\ Window(market') # Window(market)
    <3>1. PICK mute \in SUBSET Prices :
            Send([type |-> "delta", first |-> FALSE, levels |-> Delta(market, market', mute)])
      BY <1>2, <2>1 DEF Trade
    <3> DEFINE msg == [type |-> "delta", first |-> FALSE, levels |-> Delta(market, market', mute)]
    <3>3. msg \in Message /\ ~IsReset(msg) /\ msg.levels = Delta(market, market', mute)
      BY <1>0, DeltaType DEF Message, IsReset
    <3>4. PICK shown, told : Follows(shown, told)
      BY <1>0 DEF Mirror
    <3>5. Sound(shown[Len(pending)], market)
      BY <1>0, <3>4 DEF Follows, TypeOK
    <3>6. Send(msg)
      BY <3>1
    <3> HIDE DEF msg
    <3>7. Sound(Applied(msg, shown[Len(pending)]), market')
      BY <1>0, <3>3, <3>5, DeltaSound
    <3>8. Mirror'
      BY <1>0, <2>0, <3>3, <3>4, <3>6, <3>7, SentKeepsMirror
    <3> QED
      BY <1>0, <2>0, <2>1, <3>8 DEF BookInv, Quiet
  <2>2. CASE ~(online /\ Window(market') # Window(market))
    <3>1. UNCHANGED pending
      BY <1>2, <2>2 DEF Trade
    <3>2. Mirror'
      BY <1>0, <2>0, <2>2, <3>1, SilenceKeepsMirror
    <3> QED
      BY <1>0, <2>0, <3>1, <3>2 DEF BookInv, Quiet
  <2> QED
    BY <2>1, <2>2
<1>3. CASE Recount
  <2>1. PICK type \in {"snapshot", "delta"} :
          Send([type |-> type, first |-> TRUE, levels |-> Snapshot(market')])
    BY <1>3 DEF Recount
  <2> DEFINE msg == [type |-> type, first |-> TRUE, levels |-> Snapshot(market')]
  <2>2. msg \in Message /\ IsReset(msg) /\ msg.levels = Snapshot(market')
    BY <1>0, SnapshotType DEF Message, IsReset
  <2>3. PICK shown, told : Follows(shown, told)
    BY <1>0 DEF Mirror
  <2>4. shown[Len(pending)] \in Shown
    BY <1>0, <2>3 DEF Follows, Sound, TypeOK
  <2>5. Send(msg) /\ UNCHANGED <<online, book, ready>> /\ online
    BY <1>3, <2>1 DEF Recount
  <2> HIDE DEF msg
  <2>6. Sound(Applied(msg, shown[Len(pending)]), market')
    BY <1>0, <2>2, <2>4, ResetSound
  <2>7. Mirror'
    BY <1>0, <2>2, <2>3, <2>5, <2>6, SentKeepsMirror
  <2> QED
    BY <1>0, <2>5, <2>7 DEF BookInv, Quiet
<1>4. CASE Handle
  <2>1. online /\ online'
    BY <1>0, <1>4 DEF Handle, Quiet
  <2> QED
    BY <1>0, <1>4, <2>1, HandleKeepsMirror DEF BookInv, Quiet
<1>5. CASE Restart
  <2>1. market' \in Markets /\ pending' = <<>> /\ book' = Empty /\ ready' = FALSE
    BY <1>0, <1>5 DEF Restart
  <2>2. Len(pending') = 0 /\ 1..0 = {}
    BY <2>1
  <2>3. Mirror'
    <3>1. PICK shown, told :
            /\ shown[0] = [book |-> Empty, ready |-> FALSE]
            /\ told[0] = market'
            /\ \A i \in 0..0 : told[i] \in Markets /\ Sound(shown[i], told[i])
      BY <2>1, NothingShown
    <3>2. /\ shown[0] = [book |-> book', ready |-> ready']
          /\ \A i \in 1..Len(pending') : shown[i] = Applied(pending'[i], shown[i - 1])
          /\ \A i \in 0..Len(pending') : told[i] \in Markets /\ Sound(shown[i], told[i])
          /\ told[Len(pending')] = market'
      BY <2>1, <2>2, <3>1
    <3> QED
      BY <3>2 DEF Mirror, Follows
  <2> QED
    BY <1>0, <2>1, <2>3 DEF BookInv, Quiet
<1>6. CASE UNCHANGED vars
  <2>1. UNCHANGED <<market, online, pending, book, ready>>
    BY <1>6 DEF vars
  <2>2. Mirror'
    BY <1>0, <2>1 DEF Mirror, Follows
  <2> QED
    BY <1>0, <2>1, <2>2 DEF BookInv, Quiet
<1> QED
  BY <1>1, <1>2, <1>3, <1>4, <1>5, <1>6 DEF Next

LEMMA BookAlways ==
  ASSUME Depth <= StreamDepth
  PROVE  Spec => []BookInv
<1>1. BookInv /\ [Next]_vars => BookInv'
  BY BookStep
<1> QED
  BY <1>1, BookInit, PTL DEF Spec

-----------------------------------------------------------------------------
(* The theorems *)

\* The function that CaughtUp takes its value from, if there is one.
LEMMA CaughtUpIsLast ==
  ASSUME TypeOK, NEW shown, NEW told, Follows(shown, told)
  PROVE  CaughtUp = shown[Len(pending)]
<1> DEFINE n == Len(pending)
           b == [book |-> book, ready |-> ready]
           Runs(f) == f = [i \in 0..n |-> IF i = 0 THEN b ELSE Applied(pending[i], f[i - 1])]
           run == CHOOSE f : Runs(f)
           start == [i \in 0..n |-> shown[i]]
<1>1. n \in Nat
  BY DEF TypeOK
<1>2. Runs(start)
  <2>1. ASSUME NEW i \in 0..n
        PROVE  start[i] = IF i = 0 THEN b ELSE Applied(pending[i], start[i - 1])
    <3>1. CASE i = 0
      BY <1>1, <3>1 DEF Follows
    <3>2. CASE i # 0
      <4>1. i \in 1..n /\ i - 1 \in 0..n
        BY <1>1, <3>2
      <4>2. start[i] = shown[i] /\ start[i - 1] = shown[i - 1]
        BY <4>1
      <4> HIDE DEF start
      <4> QED
        BY <3>2, <4>1, <4>2 DEF Follows
    <3> QED
      BY <3>1, <3>2
  <2> QED
    BY <2>1
<1>3. Runs(run)
  <2> HIDE DEF Runs
  <2> QED
    BY <1>2
<1> HIDE DEF run
<1>4. \A i \in 0..n : run[i] = IF i = 0 THEN b ELSE Applied(pending[i], run[i - 1])
  BY <1>3
<1> DEFINE Wrong == {i \in 0..n : run[i] # shown[i]}
<1>5. Wrong = {}
  <2> SUFFICES ASSUME Wrong # {} PROVE FALSE
    OBVIOUS
  <2>1. Wrong \subseteq Nat
    OBVIOUS
  <2>2. PICK i \in Wrong : \A j \in Wrong : i <= j
    BY <2>1, LeastNat
  <2>3. i # 0
    BY <1>1, <1>4 DEF Follows
  <2>4. i \in 1..n /\ i - 1 \in 0..n /\ i - 1 \notin Wrong
    BY <1>1, <2>2, <2>3
  <2>5. run[i - 1] = shown[i - 1]
    BY <2>4
  <2>6. run[i] = shown[i]
    BY <1>4, <2>3, <2>4, <2>5 DEF Follows
  <2> QED
    BY <2>6
<1>6. CaughtUp = run[n]
  BY DEF CaughtUp, run
<1>7. n \in 0..n
  BY <1>1
<1> HIDE DEF n
<1> QED
  BY <1>5, <1>6, <1>7 DEF n

\* What is shown once everything sent is handled knows the exchange's window.
LEMMA CaughtUpSound == BookInv => Sound(CaughtUp, market)
<1> SUFFICES ASSUME BookInv PROVE Sound(CaughtUp, market)
  OBVIOUS
<1>1. PICK shown, told : Follows(shown, told)
  BY DEF BookInv, Mirror
<1>2. CaughtUp = shown[Len(pending)]
  BY <1>1, CaughtUpIsLast DEF BookInv
<1>3. Len(pending) \in Nat
  BY DEF BookInv, TypeOK
<1> QED
  BY <1>1, <1>2, <1>3 DEF Follows

LEMMA SoundMirrors ==
  ASSUME Depth = StreamDepth
  PROVE  BookInv => MirrorsStream
<1> SUFFICES ASSUME BookInv, CaughtUp.ready, NEW s \in Sides
             PROVE  CaughtUp.book[s] = Best(s, market[s], Depth)
  BY DEF MirrorsStream
<1> DEFINE l == CaughtUp.book[s]
           w == Window(market)[s]
<1>1. l \in Levels /\ Knows(l, w)
  BY CaughtUpSound DEF Sound, Shown
<1>2. w \in Levels /\ w = Best(s, market[s], Depth)
  BY WindowType DEF BookInv, TypeOK, Markets
<1> HIDE DEF l, w
<1>3. Present(w) \ Present(l) = {}
  <2>1. (Present(w) \ Present(l)) \in SUBSET Prices
    BY PresentType
  <2>2. Cardinality(Present(w) \ Present(l)) = 0
    BY <1>1, <2>1, CountType, BookAssumption DEF Knows
  <2> QED
    BY <2>1, <2>2, CountType, FS_EmptySet
<1>4. ASSUME NEW p \in Prices PROVE l[p] = w[p]
  <2>1. l[p] \in {0, w[p]} /\ l[p] \in Nat /\ w[p] \in Nat
    BY <1>1, <1>2, LevelType DEF Knows
  <2>2. w[p] > 0 => l[p] > 0
    BY <1>3 DEF Present
  <2> QED
    BY <2>1, <2>2
<1>5. l = w
  BY <1>1, <1>2, <1>4 DEF Levels
<1> QED
  BY <1>2, <1>5 DEF l

\* A book that is ready and has been told everything is the exchange's: no
\* level lost, left over or of another size, however often levels are pushed
\* out of the topic's window and come back, and whether or not the exchange says
\* so, provided that the book is as deep as its topic (LocalOrderBook,
\* apply_message, _trim_depth).
THEOREM MirrorExact ==
  ASSUME Depth = StreamDepth
  PROVE  Spec => []MirrorsStream
<1>1. Depth <= StreamDepth
  BY BookAssumption
<1>2. Spec => []BookInv
  BY <1>1, BookAlways
<1>3. BookInv => MirrorsStream
  BY SoundMirrors
<1> QED
  BY <1>2, <1>3, PTL

\* What a book shallower than its topic (a replay's, of a deeper recording) still
\* promises: it shows the topic's levels only, each in its size, and of the
\* topic's levels no more are missing than it is shallower.
ShallowTruth ==
  CaughtUp.ready =>
    \A s \in Sides :
      /\ \A p \in Prices : CaughtUp.book[s][p] \in {0, Window(market)[s][p]}
      /\ Cardinality(Present(Window(market)[s]) \ Present(CaughtUp.book[s]))
           <= StreamDepth - Depth

\* A replay's book of 50 levels is never wrong in what it shows of a deeper
\* recording, whatever it lacks (_trim_depth after every delta).
THEOREM ShallowBookTrue ==
  ASSUME Depth <= StreamDepth
  PROVE  Spec => []ShallowTruth
<1>1. BookInv => ShallowTruth
  BY CaughtUpSound DEF Sound, Knows, ShallowTruth
<1>2. Spec => []BookInv
  BY BookAlways
<1> QED
  BY <1>1, <1>2, PTL

LEMMA SoundNotCrossed ==
  ASSUME NEW b, NEW m \in Markets, Sound(b, m)
  PROVE  ~Crossed(b.book)
<1>0. m \in [Sides -> Levels] /\ ~Crossed(m) /\ "BUY" \in Sides /\ "SELL" \in Sides
  BY DEF Markets, Sides
<1>1. CASE ~b.ready
  <2>1. b.book = Empty
    BY <1>1 DEF Sound
  <2>2. Present(Empty["BUY"]) = {}
    BY <1>0 DEF Present, Empty, NoLevels
  <2> QED
    BY <2>1, <2>2 DEF Crossed
<1>2. CASE b.ready
  <2>1. ASSUME NEW s \in Sides PROVE Present(b.book[s]) \subseteq Present(m[s])
    <3> SUFFICES ASSUME NEW p \in Prices, b.book[s][p] > 0
                 PROVE  m[s][p] > 0
      BY DEF Present
    <3>1. b.book[s][p] \in {0, Window(m)[s][p]}
      BY <1>2 DEF Sound, Knows
    <3>2. Window(m)[s] = Best(s, m[s], StreamDepth) /\ m[s] \in Levels
      BY <1>0, WindowType
    <3>3. Window(m)[s][p] \in {0, m[s][p]}
      BY <3>2, BestType, BookAssumption
    <3> QED
      BY <3>1, <3>3
  <2> QED
    BY <1>0, <2>1 DEF Crossed
<1> QED
  BY <1>1, <1>2

\* The strategy never sees a crossed book, whatever still waits, provided that
\* the book is not deeper than its topic (LocalOrderBook.apply_message).
THEOREM NeverCrossed ==
  ASSUME Depth <= StreamDepth
  PROVE  Spec => []NotCrossed
<1>1. BookInv => NotCrossed
  <2> SUFFICES ASSUME BookInv PROVE NotCrossed
    OBVIOUS
  <2>1. PICK shown, told : Follows(shown, told)
    BY DEF BookInv, Mirror
  <2>2. Len(pending) \in Nat
    BY DEF BookInv, TypeOK
  <2>3. /\ shown[0] = [book |-> book, ready |-> ready]
        /\ told[0] \in Markets /\ Sound(shown[0], told[0])
    BY <2>1, <2>2 DEF Follows
  <2>4. ~Crossed(shown[0].book)
    BY <2>3, SoundNotCrossed
  <2> QED
    BY <2>3, <2>4 DEF NotCrossed
<1>2. Spec => []BookInv
  BY BookAlways
<1> QED
  BY <1>1, <1>2, PTL
=============================================================================
