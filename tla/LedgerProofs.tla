---------------------------- MODULE LedgerProofs ----------------------------
(***************************************************************************)
(* Theorems about the ledger, for every set of processes, every bound and  *)
(* every choice of quantities.                                             *)
(***************************************************************************)
EXTENDS Ledger, SequenceTheorems, FiniteSetTheorems, WellFoundedInduction, TLAPS

\* Rounding down to the step yields a quantity.
LEMMA FloorType ==
  ASSUME NEW q \in Nat
  PROVE  FloorToStep(q) \in Nat
<1>1. QtyStep \in Nat \ {0}
  BY SizingAssumption
<1>2. q \div QtyStep \in Nat
  BY <1>1
<1> QED
  BY <1>1, <1>2 DEF FloorToStep

\* Every order a buy draft may become has a quantity.
LEMMA BuyQtysType == BuyQtys \subseteq Nat
<1> SUFFICES ASSUME NEW w \in WantedQtys
             PROVE  FloorToStep(Lower(w, QtyCap)) \in Nat
  BY DEF BuyQtys
<1>1. Lower(w, QtyCap) \in Nat
  BY SizingAssumption DEF Lower
<1> QED
  BY <1>1, FloorType

\* So has every exit.
LEMMA ExitQtyType ==
  ASSUME NEW q \in Nat
  PROVE  ExitQty(q) \in Nat
  BY FloorType DEF ExitQty

\* Rounding down to the step does not round up.
LEMMA FloorWithin ==
  ASSUME NEW q \in Nat
  PROVE  FloorToStep(q) <= q
<1>1. QtyStep \in Nat /\ QtyStep > 0
  BY SizingAssumption
<1>2. q = QtyStep * (q \div QtyStep) + (q % QtyStep) /\ q % QtyStep >= 0
  BY <1>1
<1> QED
  BY <1>1, <1>2 DEF FloorToStep

\* A buy is a positive quantity within the cap.
LEMMA BuyQtysCapped == \A q \in BuyQtys : q > 0 /\ q <= QtyCap
<1> SUFFICES ASSUME NEW w \in WantedQtys, FloorToStep(Lower(w, QtyCap)) # 0
             PROVE  /\ FloorToStep(Lower(w, QtyCap)) > 0
                    /\ FloorToStep(Lower(w, QtyCap)) <= QtyCap
  BY DEF BuyQtys
<1>1. /\ Lower(w, QtyCap) \in Nat /\ Lower(w, QtyCap) <= QtyCap
      /\ QtyCap \in Nat
  BY SizingAssumption DEF Lower
<1>2. FloorToStep(Lower(w, QtyCap)) \in Nat /\ FloorToStep(Lower(w, QtyCap)) <= Lower(w, QtyCap)
  BY <1>1, FloorType, FloorWithin
<1> QED
  BY <1>1, <1>2

\* An exit from a position sells some of it and not more than there is.
LEMMA ExitQtyWithin ==
  ASSUME NEW q \in Nat, q > 0
  PROVE  ExitQty(q) > 0 /\ ExitQty(q) <= q
  BY FloorType, FloorWithin DEF ExitQty

-----------------------------------------------------------------------------
(* The operators *)

\* A query for the newest row returns a row it ranges over, or none.
LEMMA NewestType ==
  ASSUME NEW S
  PROVE  Newest(S) \in S \cup {0}
  BY DEF Newest

\* If there is one row, it is the newest.
LEMMA NewestOfOne ==
  ASSUME NEW i \in Nat, NEW S, S \subseteq {i}
  PROVE  S \subseteq {Newest(S)}
<1>1. CASE S = {}
  BY <1>1
<1>2. CASE S = {i}
  <2>1. IsNewest(i, S)
    BY <1>2 DEF IsNewest
  <2>2. Newest(S) = CHOOSE j \in S : IsNewest(j, S)
    BY <2>1, <1>2 DEF Newest
  <2>3. Newest(S) \in S
    BY <2>1, <2>2, <1>2
  <2> QED
    BY <2>3, <1>2
<1> QED
  BY <1>1, <1>2

\* Every decision is well formed.
LEMMA DecisionsType ==
  ASSUME NEW held \in Nat, NEW buy \in Nat, NEW sell \in Nat, nextId \in Nat
  PROVE  Decisions(held, buy, sell) \subseteq Plan
<1>1. Hold \in Plan
  BY DEF Hold, Plan, Actions, Sides
<1>2. \A old \in Nat : Cancel(old) \in Plan
  BY DEF Cancel, Plan, Actions, Sides
<1>3. \A s \in Sides, q \in Nat : Create(s, q) \in Plan
  BY DEF Create, Plan, Actions
<1>4. \A old \in Nat, s \in Sides, q \in Nat : Reprice(old, s, q) \in Plan
  BY DEF Reprice, Plan, Actions
<1>5. BuySide(buy) \subseteq Plan
  BY <1>1, <1>2, <1>3, <1>4, BuyQtysType DEF BuySide, Sides
<1>6. SellSide(held, sell) \subseteq Plan
  BY <1>1, <1>3, <1>4, ExitQtyType DEF SellSide, Sides
<1> QED
  BY <1>2, <1>5, <1>6 DEF Decisions

-----------------------------------------------------------------------------
(* Type correctness *)

\* The rows of the tables are well formed in the first state.
LEMMA InitType == Init => TypeOK
<1> SUFFICES ASSUME Init PROVE TypeOK
  OBVIOUS
<1>1. intents \in [Ids -> IntentRow] /\ filled \in [Ids -> Nat]
  BY DEF Init, NoRow, IntentRow, Statuses, Sides
<1>2. positions \in Seq(PositionRow)
  BY DEF Init
<1>3. nextId \in 1..(MaxIntents + 1)
  BY LedgerAssumption DEF Init
<1>4. pc \in [Procs -> PCs] /\ todo \in [Procs -> SUBSET [id : Ids, qty : Nat]]
  BY DEF Init, PCs
<1>5. txn \in [Procs -> Txn]
  BY DEF Init, NoTxn, Txn, Statuses
<1>6. view \in [Procs -> View] /\ plan \in [Procs -> Plan]
  BY DEF Init, NoView, View, Hold, Plan, Actions, Sides
<1> QED
  BY <1>1, <1>2, <1>3, <1>4, <1>5, <1>6 DEF TypeOK

\* The newest open position is a row, and holds a quantity.
LEMMA NewestPosition ==
  ASSUME positions \in Seq(PositionRow)
  PROVE  /\ Newest(OpenPositions) \in Nat
         /\ HeldAt(Newest(OpenPositions)) \in Nat
<1>1. DOMAIN positions = 1..Len(positions) /\ Len(positions) \in Nat
  BY LenProperties
<1>2. Newest(OpenPositions) \in OpenPositions \cup {0}
  BY NewestType
<1>3. \A i \in DOMAIN positions : positions[i] \in PositionRow
  BY ElementOfSeq, <1>1
<1>4. \A i \in DOMAIN positions : positions[i].qty \in Nat
  BY <1>3 DEF PositionRow
<1> QED
  BY <1>1, <1>2, <1>4 DEF OpenPositions, HeldAt

\* A position row with another quantity is a position row.
LEMMA PositionRowUpdate ==
  ASSUME NEW r \in PositionRow, NEW n \in Nat
  PROVE  /\ [r EXCEPT !.qty = n] \in PositionRow
         /\ [r EXCEPT !.qty = n, !.open = @ /\ n > 0] \in PositionRow
  BY DEF PositionRow

\* A fill leaves a table of positions.
LEMMA FilledPositionsType ==
  ASSUME positions \in Seq(PositionRow), NEW t \in Txn, NEW q \in Nat
  PROVE  FilledPositions(t, q) \in Seq(PositionRow)
<1> DEFINE row == positions[t.at]
           left == t.held - Lower(q, t.held)
           bought == [row EXCEPT !.qty = t.held + q]
           sold == [row EXCEPT !.qty = left, !.open = @ /\ left > 0]
<1>1. t.held \in Nat /\ t.at \in Nat
  BY DEF Txn
<1>2. Append(positions, [qty |-> q, open |-> TRUE]) \in Seq(PositionRow)
  BY AppendProperties DEF PositionRow
<1>3. left \in Nat
  BY <1>1 DEF Lower
<1>4. DOMAIN positions = 1..Len(positions)
  BY LenProperties
<1>5. CASE t.at \in DOMAIN positions
  <2>1. row \in PositionRow
    BY <1>4, <1>5, ElementOfSeq
  <2>2. t.held + q \in Nat
    BY <1>1
  <2>3. bought \in PositionRow
    BY ONLY <2>1, <2>2, PositionRowUpdate
  <2>4. sold \in PositionRow
    <3> HIDE DEF row, left
    <3> QED
      BY ONLY <2>1, <1>3, PositionRowUpdate DEF sold
  <2>5. /\ [positions EXCEPT ![t.at] = bought] \in Seq(PositionRow)
        /\ [positions EXCEPT ![t.at] = sold] \in Seq(PositionRow)
    BY <1>4, <1>5, <2>3, <2>4, ExceptSeq
  <2> QED
    BY <1>2, <2>5 DEF FilledPositions
<1>6. CASE t.at \notin DOMAIN positions
  <2>1. \A x : [positions EXCEPT ![t.at] = x] = positions
    BY <1>4, <1>6
  <2> QED
    BY <1>2, <2>1 DEF FilledPositions
<1> QED
  BY <1>5, <1>6

\* A fill leaves an intent row.
LEMMA FilledRowType ==
  ASSUME NEW t \in Txn, intents[t.id] \in IntentRow
  PROVE  FilledRow(t) \in IntentRow
<1> DEFINE row == intents[t.id]
<1>1. t.qty \in Nat /\ t.ask \in Nat
  BY DEF Txn
<1>2. Applied(t) \in Nat
  BY <1>1 DEF Applied, Lower
<1>3. \A r \in IntentRow : [r EXCEPT !.status = "FILLED"] \in IntentRow
  BY DEF IntentRow, Statuses
<1>4. \A r \in IntentRow, n \in Nat : [r EXCEPT !.qty = n] \in IntentRow
  BY DEF IntentRow
<1>5. Applied(t) < t.qty => t.qty - Applied(t) \in Nat
  BY <1>1, <1>2
<1> QED
  BY <1>3, <1>4, <1>5 DEF FilledRow

\* Every step keeps the rows of the tables and the state of the processes well
\* formed.
LEMMA NextType == TypeOK /\ [Next]_vars => TypeOK'
<1> SUFFICES ASSUME TypeOK, [Next]_vars
             PROVE  TypeOK'
  OBVIOUS
<1>1. ASSUME NEW w \in Writers, BeginCycle(w)
      PROVE  TypeOK'
  BY <1>1 DEF TypeOK, BeginCycle, Goto, Rows, ActiveIds, PCs, Procs, IntentRow
<1>2. ASSUME NEW w \in Writers, Expire(w)
      PROVE  TypeOK'
  <2>1. \A r \in IntentRow : [r EXCEPT !.status = "EXPIRED"] \in IntentRow
    BY DEF IntentRow, Statuses
  <2>2. intents' \in [Ids -> IntentRow]
    BY <1>2, <2>1 DEF TypeOK, Expire
  <2>3. pc' \in [Procs -> PCs] /\ todo' \in [Procs -> SUBSET [id : Ids, qty : Nat]]
    BY <1>2 DEF TypeOK, Expire, Goto, PCs
  <2> QED
    BY <1>2, <2>2, <2>3 DEF TypeOK, Expire
<1>3. ASSUME NEW p \in Procs, ListActive(p)
      PROVE  TypeOK'
  BY <1>3 DEF TypeOK, ListActive, Goto, Rows, ActiveIds, PCs, IntentRow
<1>4. ASSUME NEW p \in Procs, NEW id \in Ids, NEW ask \in Nat, NEW paper \in BOOLEAN,
             OpenTxn(p, id, ask, paper)
      PROVE  txn' \in [Procs -> Txn]
  <2> DEFINE t == [id |-> id, ask |-> ask, paper |-> paper,
                   status |-> intents[id].status, qty |-> intents[id].qty,
                   at |-> 0, held |-> 0]
  <2>1. intents[id] \in IntentRow
    BY DEF TypeOK
  <2>2. t \in Txn
    BY <2>1 DEF Txn, IntentRow, Ids
  <2>3. txn' = [txn EXCEPT ![p] = t]
    BY <1>4 DEF OpenTxn
  <2> HIDE DEF t
  <2> QED
    BY <2>2, <2>3 DEF TypeOK
<1>5. ASSUME NEW p \in Procs, StartFill(p)
      PROVE  TypeOK'
  <2>1. PICK r \in todo[p] : \E ask \in FillAsks(r.qty) :
          /\ OpenTxn(p, r.id, ask, TRUE)
          /\ todo' = [todo EXCEPT ![p] = {x \in @ : x.id < r.id}]
    BY <1>5 DEF StartFill
  <2>2. r.id \in Ids /\ r.qty \in Nat
    BY DEF TypeOK
  <2>3. FillAsks(r.qty) \subseteq Nat
    BY <2>2 DEF FillAsks
  <2>4. txn' \in [Procs -> Txn]
    BY <2>1, <2>2, <2>3, <1>4
  <2>5. todo' \in [Procs -> SUBSET [id : Ids, qty : Nat]]
    BY <2>1 DEF TypeOK
  <2>6. pc' \in [Procs -> PCs]
    BY <1>5 DEF TypeOK, StartFill, Goto, PCs
  <2> QED
    BY <1>5, <2>4, <2>5, <2>6 DEF TypeOK, StartFill
<1>6. ASSUME NEW p \in Procs, EndFills(p)
      PROVE  TypeOK'
  BY <1>6 DEF TypeOK, EndFills, Goto, PCs
<1>7. ASSUME NEW o \in Operators, MarkFilled(o)
      PROVE  TypeOK'
  <2>1. txn' \in [Procs -> Txn]
    BY <1>7, <1>4, LedgerAssumption DEF MarkFilled, Procs
  <2>2. pc' \in [Procs -> PCs]
    BY <1>7 DEF TypeOK, MarkFilled, Goto, PCs
  <2> QED
    BY <1>7, <2>1, <2>2 DEF TypeOK, MarkFilled
<1>8. ASSUME NEW p \in Procs, ReadPosition(p)
      PROVE  TypeOK'
  <2> DEFINE at == Newest(OpenPositions)
  <2>1. at \in Nat /\ HeldAt(at) \in Nat
    BY NewestPosition DEF TypeOK
  <2>2. txn' = [txn EXCEPT ![p].at = at, ![p].held = HeldAt(at)]
    BY <1>8 DEF ReadPosition
  <2> HIDE DEF at
  <2>3. txn' \in [Procs -> Txn]
    BY <2>1, <2>2 DEF TypeOK, Txn
  <2>4. pc' \in [Procs -> PCs]
    BY <1>8 DEF TypeOK, ReadPosition, Goto, PCs
  <2> QED
    BY <1>8, <2>3, <2>4 DEF TypeOK, ReadPosition
<1>9. ASSUME NEW p \in Procs, CommitFill(p)
      PROVE  TypeOK'
  <2> DEFINE t == txn[p]
  <2>1. t \in Txn
    BY DEF TypeOK
  <2>2. Applied(t) \in Nat
    BY <2>1 DEF Applied, Lower, Txn
  <2>3. intents' \in [Ids -> IntentRow]
    <3>1. intents' = [intents EXCEPT ![t.id] = FilledRow(t)]
      BY <1>9 DEF CommitFill
    <3>2. t.id \in Ids => FilledRow(t) \in IntentRow
      BY <2>1, FilledRowType DEF TypeOK
    <3> QED
      BY <3>1, <3>2 DEF TypeOK
  <2>4. filled' \in [Ids -> Nat]
    <3>1. filled' = [filled EXCEPT ![t.id] = filled[t.id] + Applied(t)]
      BY <1>9 DEF CommitFill
    <3>2. t.id \in Ids => filled[t.id] + Applied(t) \in Nat
      BY <2>2 DEF TypeOK
    <3> QED
      BY <3>1, <3>2 DEF TypeOK
  <2>5. positions' \in Seq(PositionRow)
    BY <1>9, <2>1, <2>2, FilledPositionsType DEF TypeOK, CommitFill
  <2>6. pc' \in [Procs -> PCs] /\ txn' \in [Procs -> Txn]
    BY <1>9 DEF TypeOK, CommitFill, Goto, PCs, NoTxn, Txn, Statuses
  <2> QED
    BY <1>9, <2>3, <2>4, <2>5, <2>6 DEF TypeOK, CommitFill
<1>10. ASSUME NEW w \in Writers, ReadHeld(w)
       PROVE  TypeOK'
  <2>1. HeldAt(Newest(OpenPositions)) \in Nat
    BY NewestPosition DEF TypeOK
  <2>2. view' \in [Procs -> View]
    BY <1>10, <2>1 DEF TypeOK, ReadHeld, View
  <2>3. pc' \in [Procs -> PCs]
    BY <1>10 DEF TypeOK, ReadHeld, Goto, PCs
  <2> QED
    BY <1>10, <2>2, <2>3 DEF TypeOK, ReadHeld
<1>11. \A side : Newest(ActiveOf(side)) \in Nat
  <2>1. \A side : ActiveOf(side) \subseteq Nat
    BY DEF ActiveOf, ActiveIds, Ids
  <2> QED
    BY <2>1, NewestType
<1>12. ASSUME NEW w \in Writers, ReadActiveBuy(w)
       PROVE  TypeOK'
  <2>1. view' \in [Procs -> View]
    BY <1>12, <1>11 DEF TypeOK, ReadActiveBuy, View
  <2>2. pc' \in [Procs -> PCs]
    BY <1>12 DEF TypeOK, ReadActiveBuy, Goto, PCs
  <2> QED
    BY <1>12, <2>1, <2>2 DEF TypeOK, ReadActiveBuy
<1>13. ASSUME NEW w \in Writers, Evaluate(w)
       PROVE  TypeOK'
  <2>1. w \in Procs
    BY DEF Procs
  <2>2. view[w].held \in Nat /\ view[w].buy \in Nat /\ nextId \in Nat
    BY <2>1, LedgerAssumption DEF TypeOK, View
  <2>3. PICK d \in Decisions(view[w].held, view[w].buy, Newest(ActiveOf("SELL"))) :
          /\ d.new # 0 => nextId \in Ids
          /\ nextId' = IF d.new # 0 THEN nextId + 1 ELSE nextId
          /\ plan' = [plan EXCEPT ![w] = d]
          /\ pc' = [pc EXCEPT ![w] = IF d.action = "HOLD" THEN "idle" ELSE "apply"]
    BY <1>13 DEF Evaluate
  <2>4. d \in Plan
    BY <2>2, <2>3, <1>11, DecisionsType
  <2>5. nextId' \in 1..(MaxIntents + 1)
    BY <2>3, LedgerAssumption DEF TypeOK, Ids
  <2>6. plan' \in [Procs -> Plan] /\ pc' \in [Procs -> PCs]
    BY <2>3, <2>4 DEF TypeOK, PCs
  <2>7. view' \in [Procs -> View]
    BY <1>13 DEF TypeOK, Evaluate, NoView, View
  <2> QED
    BY <1>13, <2>5, <2>6, <2>7 DEF TypeOK, Evaluate
<1>14. ASSUME NEW w \in Writers, Apply(w)
       PROVE  TypeOK'
  <2>1. plan[w] \in Plan
    BY DEF TypeOK, Procs
  <2>2. NewRow(plan[w]) \in IntentRow
    BY <2>1 DEF NewRow, Plan, IntentRow, Statuses
  <2>3. \A r \in IntentRow, n \in Nat :
           /\ [r EXCEPT !.status = "REPLACED", !.by = n] \in IntentRow
           /\ [r EXCEPT !.status = "CANCEL_REQUESTED"] \in IntentRow
    BY DEF IntentRow, Statuses
  <2>4. plan[w].new \in Nat
    BY <2>1 DEF Plan
  <2>5. intents' \in [Ids -> IntentRow]
    BY <1>14, <2>2, <2>3, <2>4 DEF TypeOK, Apply
  <2>6. pc' \in [Procs -> PCs] /\ plan' \in [Procs -> Plan]
    BY <1>14 DEF TypeOK, Apply, Goto, PCs, Hold, Plan, Actions, Sides
  <2> QED
    BY <1>14, <2>5, <2>6 DEF TypeOK, Apply
<1>15. ASSUME NEW p \in Procs, Abort(p)
       PROVE  TypeOK'
  <2>1. pc' \in [Procs -> PCs] /\ todo' \in [Procs -> SUBSET [id : Ids, qty : Nat]]
    BY <1>15 DEF TypeOK, Abort, PCs
  <2>2. txn' \in [Procs -> Txn]
    BY <1>15 DEF TypeOK, Abort, NoTxn, Txn, Statuses
  <2>3. view' \in [Procs -> View] /\ plan' \in [Procs -> Plan]
    BY <1>15 DEF TypeOK, Abort, NoView, View, Hold, Plan, Actions, Sides
  <2> QED
    BY <1>15, <2>1, <2>2, <2>3 DEF TypeOK, Abort
<1>16. ASSUME NEW id \in Ids, TtlPasses(id)
       PROVE  TypeOK'
  <2>1. intents' \in [Ids -> IntentRow]
    BY <1>16 DEF TypeOK, TtlPasses, IntentRow
  <2> QED
    BY <1>16, <2>1 DEF TypeOK, TtlPasses
<1>17. CASE UNCHANGED vars
  BY <1>17 DEF TypeOK, vars
<1> QED
  BY <1>1, <1>2, <1>3, <1>5, <1>6, <1>7, <1>8, <1>9, <1>10, <1>12, <1>13, <1>14,
     <1>15, <1>16, <1>17
  DEF Next, WriterStep, FillerStep, OperatorStep, Procs

\* The tables hold well-formed rows, whoever writes them: no quantity of an
\* intent, a fill or a position is ever negative.
THEOREM TypeCorrect == Spec => []TypeOK
<1>1. Spec => []TypeOK
  BY InitType, NextType, PTL DEF Spec
<1> QED
  BY <1>1

-----------------------------------------------------------------------------
(* One active intent *)

\* What a writer knows between its reads and its write, as long as no other
\* writer creates intents: the active buys are the one it read, and a decision
\* that creates an intent leaves no other active.
WriterKnows(w) ==
  /\ pc[w] = "sell" => ActiveOf("BUY") \subseteq {view[w].buy}
  /\ pc[w] = "apply" /\ plan[w].new # 0 => ActiveIds \subseteq {plan[w].old}
  /\ pc[w] = "apply" /\ plan[w].new # 0 /\ plan[w].old # 0 => plan[w].action = "REPRICE"

OneActiveInv ==
  /\ TypeOK
  /\ AtMostOneActive
  /\ \A w \in Writers : WriterKnows(w)

\* A step that activates no intent and lets no writer past its reads or its
\* decision keeps the invariant.
LEMMA NothingActivated ==
  ASSUME OneActiveInv, TypeOK',
         ActiveIds' \subseteq ActiveIds,
         \A id \in Ids : intents'[id].side = intents[id].side,
         \A w \in Writers : pc'[w] \in {"sell", "apply"} =>
           pc'[w] = pc[w] /\ view'[w] = view[w] /\ plan'[w] = plan[w]
  PROVE  OneActiveInv'
<1>1. AtMostOneActive'
  BY DEF OneActiveInv, AtMostOneActive
<1>2. ActiveOf("BUY")' \subseteq ActiveOf("BUY")
  BY DEF ActiveOf, ActiveIds
<1>3. ASSUME NEW w \in Writers
      PROVE  WriterKnows(w)'
  BY <1>2 DEF OneActiveInv, WriterKnows
<1> QED
  BY <1>1, <1>3 DEF OneActiveInv

\* The decision to create an intent is taken only when no intent is active but
\* the one it replaces.
LEMMA DecisionLeavesOne ==
  ASSUME NEW held, NEW buy \in Nat, NEW sell \in Nat,
         NEW B \in SUBSET Ids, NEW S \in SUBSET Ids,
         B \subseteq {buy}, S \subseteq {sell},
         NEW d \in Decisions(held, buy, sell), d.new # 0
  PROVE  /\ B \cup S \subseteq {d.old}
         /\ d.old # 0 => d.action = "REPRICE"
<1>0. 0 \notin B /\ 0 \notin S
  BY DEF Ids
<1>1. Hold.new = 0 /\ \A old : Cancel(old).new = 0
  BY DEF Hold, Cancel
<1>2. \A s, q : Create(s, q).old = 0
  BY DEF Create
<1>3. \A old, s, q : Reprice(old, s, q).old = old /\ Reprice(old, s, q).action = "REPRICE"
  BY DEF Reprice
<1>4. CASE held > 0
  <2>1. buy = 0 /\ d \in SellSide(held, sell)
    BY <1>1, <1>4 DEF Decisions
  <2>2. IF sell = 0 THEN d = Create("SELL", ExitQty(held))
                    ELSE d = Reprice(sell, "SELL", ExitQty(held))
    BY <2>1, <1>1 DEF SellSide
  <2> QED
    BY <2>1, <2>2, <1>0, <1>2, <1>3
<1>5. CASE ~(held > 0)
  <2>1. sell = 0 /\ d \in BuySide(buy)
    BY <1>1, <1>5 DEF Decisions
  <2>2. IF buy = 0 THEN \E q \in BuyQtys : d = Create("BUY", q)
                   ELSE \E q \in BuyQtys : d = Reprice(buy, "BUY", q)
    BY <2>1, <1>1 DEF BuySide
  <2> QED
    BY <2>1, <2>2, <1>0, <1>2, <1>3
<1> QED
  BY <1>4, <1>5

\* At most one writer at a time is within its cycle.
TakesTurns == \A v, w \in Writers : pc[v] # "idle" /\ pc[w] # "idle" => v = w

\* At most one is past the expiry that begins a cycle.
Working(w) == pc[w] \notin {"idle", "expire"}
WorksAlone == \A v, w \in Writers : Working(v) /\ Working(w) => v = w

\* As long as one writer works at a time, every step keeps the invariant.
LEMMA NextOneActive ==
  ASSUME WorksAlone, OneActiveInv, [Next]_vars
  PROVE  OneActiveInv'
<1>0. TypeOK /\ TypeOK'
  BY NextType DEF OneActiveInv
<1>1. ASSUME NEW w \in Writers, BeginCycle(w)
      PROVE  OneActiveInv'
  BY <1>0, <1>1, NothingActivated DEF BeginCycle, Goto, TypeOK, Procs, ActiveIds, Active
<1>2. ASSUME NEW w \in Writers, Expire(w)
      PROVE  OneActiveInv'
  <2>1. /\ \A id \in Ids : intents'[id].side = intents[id].side
        /\ \A id \in Ids : intents'[id].status \in {intents[id].status, "EXPIRED"}
    BY <1>0, <1>2 DEF Expire, TypeOK, IntentRow
  <2>2. ActiveIds' \subseteq ActiveIds
    BY <2>1 DEF ActiveIds, Active
  <2>3. \A v \in Writers : pc'[v] \notin {"sell", "apply"} \/ pc'[v] = pc[v]
    BY <1>0, <1>2 DEF Expire, Goto, TypeOK, Procs
  <2> QED
    BY <1>0, <1>2, <2>1, <2>2, <2>3, NothingActivated DEF Expire
<1>3. ASSUME NEW p \in Procs, ListActive(p)
      PROVE  OneActiveInv'
  BY <1>0, <1>3, NothingActivated DEF ListActive, Goto, TypeOK, Procs, ActiveIds, Active
<1>4. ASSUME NEW p \in Procs, StartFill(p)
      PROVE  OneActiveInv'
  BY <1>0, <1>4, NothingActivated DEF StartFill, Goto, TypeOK, Procs, ActiveIds, Active
<1>5. ASSUME NEW p \in Procs, EndFills(p)
      PROVE  OneActiveInv'
  BY <1>0, <1>5, NothingActivated DEF EndFills, Goto, TypeOK, Procs, ActiveIds, Active
<1>6. ASSUME NEW o \in Operators, MarkFilled(o)
      PROVE  OneActiveInv'
  BY <1>0, <1>6, NothingActivated DEF MarkFilled, Goto, TypeOK, Procs, ActiveIds, Active
<1>7. ASSUME NEW p \in Procs, ReadPosition(p)
      PROVE  OneActiveInv'
  BY <1>0, <1>7, NothingActivated DEF ReadPosition, Goto, TypeOK, Procs, ActiveIds, Active
<1>8. ASSUME NEW p \in Procs, CommitFill(p)
      PROVE  OneActiveInv'
  <2> DEFINE t == txn[p]
  <2>1. \A n : \A r \in IntentRow :
          /\ [r EXCEPT !.qty = n].side = r.side
          /\ [r EXCEPT !.qty = n].status = r.status
          /\ [r EXCEPT !.status = "FILLED"].side = r.side
          /\ [r EXCEPT !.status = "FILLED"].status = "FILLED"
    BY DEF IntentRow
  <2>2. intents' = [intents EXCEPT ![t.id] = FilledRow(t)]
    BY <1>8 DEF CommitFill
  <2>3. t.id \in Ids => /\ FilledRow(t).side = intents[t.id].side
                        /\ FilledRow(t).status \in {intents[t.id].status, "FILLED"}
    BY <1>0, <2>1 DEF FilledRow, TypeOK
  <2>4. /\ \A id \in Ids : intents'[id].side = intents[id].side
        /\ \A id \in Ids : intents'[id].status \in {intents[id].status, "FILLED"}
    BY <1>0, <2>2, <2>3 DEF TypeOK
  <2>5. ActiveIds' \subseteq ActiveIds
    BY <2>4 DEF ActiveIds, Active
  <2>6. \A v \in Writers : pc'[v] \notin {"sell", "apply"} \/ pc'[v] = pc[v]
    BY <1>0, <1>8 DEF CommitFill, Goto, TypeOK, Procs
  <2> QED
    BY <1>0, <1>8, <2>4, <2>5, <2>6, NothingActivated DEF CommitFill
<1>9. ASSUME NEW w \in Writers, ReadHeld(w)
      PROVE  OneActiveInv'
  BY <1>0, <1>9, NothingActivated DEF ReadHeld, Goto, TypeOK, Procs, ActiveIds, Active
<1>10. ASSUME NEW side
       PROVE  ActiveOf(side) \subseteq {Newest(ActiveOf(side))}
  <2>1. \A i \in ActiveOf(side) : i \in Nat /\ ActiveOf(side) \subseteq {i}
    BY DEF OneActiveInv, AtMostOneActive, ActiveOf, ActiveIds, Ids
  <2> QED
    BY <2>1, NewestOfOne
\* Those whose turn it is not know nothing.
<1>11. ASSUME NEW w \in Writers, Working(w),
             \A v \in Writers : v # w => pc'[v] = pc[v]
      PROVE  \A v \in Writers : v # w => WriterKnows(v)'
  BY <1>11 DEF WorksAlone, Working, WriterKnows
<1>12. ASSUME NEW w \in Writers, ReadActiveBuy(w)
       PROVE  OneActiveInv'
  <2>1. pc' = [pc EXCEPT ![w] = "sell"] /\ UNCHANGED <<intents, plan>>
    BY <1>12 DEF ReadActiveBuy, Goto
  <2>2. view'[w].buy = Newest(ActiveOf("BUY"))
    BY <1>0, <1>12 DEF ReadActiveBuy, TypeOK, Procs, View
  <2>3. AtMostOneActive'
    BY <2>1 DEF OneActiveInv, AtMostOneActive, ActiveIds, Active
  <2>4. pc'[w] = "sell"
    BY <1>0, <2>1 DEF TypeOK, Procs
  <2>5. ActiveOf("BUY")' = ActiveOf("BUY")
    BY <2>1 DEF ActiveOf, ActiveIds, Active
  <2>6. WriterKnows(w)'
    BY <2>2, <2>4, <2>5, <1>10 DEF WriterKnows
  <2>7. Working(w) /\ \A v \in Writers : v # w => pc'[v] = pc[v]
    BY <1>0, <1>12 DEF ReadActiveBuy, Goto, TypeOK, Procs, Working
  <2> QED
    BY <1>0, <1>11, <2>3, <2>6, <2>7 DEF OneActiveInv
<1>13. ASSUME NEW w \in Writers, Evaluate(w)
       PROVE  OneActiveInv'
  <2> DEFINE buy == view[w].buy
             sell == Newest(ActiveOf("SELL"))
  <2>1. PICK d \in Decisions(view[w].held, buy, sell) :
          /\ plan' = [plan EXCEPT ![w] = d]
          /\ pc' = [pc EXCEPT ![w] = IF d.action = "HOLD" THEN "idle" ELSE "apply"]
    BY <1>13 DEF Evaluate
  <2>2. w \in Procs
    BY DEF Procs
  <2>3. buy \in Nat /\ sell \in Nat
    <3>1. ActiveOf("SELL") \subseteq Nat
      BY DEF ActiveOf, ActiveIds, Ids
    <3>2. sell \in Nat
      BY <3>1, NewestType
    <3> QED
      BY <1>0, <2>2, <3>2 DEF TypeOK, View
  <2>4. ActiveOf("BUY") \subseteq {buy} /\ ActiveOf("SELL") \subseteq {sell}
    BY <1>10, <1>13 DEF Evaluate, OneActiveInv, WriterKnows
  <2>5. ActiveIds = ActiveOf("BUY") \cup ActiveOf("SELL")
    BY <1>0 DEF ActiveOf, ActiveIds, TypeOK, IntentRow, Sides
  <2>6. ActiveOf("BUY") \in SUBSET Ids /\ ActiveOf("SELL") \in SUBSET Ids
    BY DEF ActiveOf, ActiveIds
  <2>7. d.new # 0 => ActiveIds \subseteq {d.old} /\ (d.old # 0 => d.action = "REPRICE")
    <3> HIDE DEF buy, sell
    <3> QED
      BY <2>1, <2>3, <2>4, <2>5, <2>6, DecisionLeavesOne
  <2>8. plan'[w] = d /\ pc'[w] \in {"idle", "apply"}
    BY <1>0, <2>1, <2>2 DEF TypeOK
  <2>9. ActiveIds' = ActiveIds /\ AtMostOneActive'
    BY <1>13 DEF Evaluate, OneActiveInv, AtMostOneActive, ActiveIds, Active
  <2>10. WriterKnows(w)'
    BY <2>7, <2>8, <2>9 DEF WriterKnows
  <2>11. Working(w) /\ \A v \in Writers : v # w => pc'[v] = pc[v]
    BY <1>0, <1>13, <2>1 DEF Evaluate, TypeOK, Procs, Working
  <2> QED
    BY <1>0, <1>11, <2>9, <2>10, <2>11 DEF OneActiveInv
<1>14. ASSUME NEW w \in Writers, Apply(w)
       PROVE  OneActiveInv'
  <2> DEFINE d == plan[w]
  <2>0. w \in Procs
    BY DEF Procs
  <2>1. d \in Plan /\ pc[w] = "apply" /\ pc' = [pc EXCEPT ![w] = "idle"]
    BY <1>0, <1>14, <2>0 DEF TypeOK, Apply, Goto
  <2>2. \A id \in Ids :
          id # d.new => intents'[id] = intents[id] \/ intents'[id].status # "ACTIVE"
    <3>1. \A n : \A r \in IntentRow :
             /\ [r EXCEPT !.status = "REPLACED", !.by = n].status # "ACTIVE"
             /\ [r EXCEPT !.status = "CANCEL_REQUESTED"].status # "ACTIVE"
      BY DEF IntentRow
    <3> QED
      BY <1>0, <1>14, <3>1 DEF Apply, TypeOK
  <2>3. d.new # 0 /\ d.old \in Ids /\ d.old # d.new => intents'[d.old].status # "ACTIVE"
    <3> SUFFICES ASSUME d.new # 0, d.old \in Ids, d.old # d.new
                 PROVE  intents'[d.old].status # "ACTIVE"
      OBVIOUS
    <3>1. d.action = "REPRICE"
      BY <2>1 DEF OneActiveInv, WriterKnows, Ids
    <3>2. intents'[d.old] = [intents[d.old] EXCEPT !.status = "REPLACED", !.by = d.new]
      BY <1>14, <3>1 DEF Apply
    <3> QED
      BY <1>0, <3>2 DEF TypeOK, IntentRow
  <2>4. AtMostOneActive'
    <3>1. CASE d.new = 0
      BY <2>2, <3>1 DEF OneActiveInv, AtMostOneActive, ActiveIds, Active, Ids
    <3>2. CASE d.new # 0
      <4>1. ActiveIds \subseteq {d.old}
        BY <2>1, <3>2 DEF OneActiveInv, WriterKnows
      <4>2. ActiveIds' \subseteq {d.new}
        BY <4>1, <2>2, <2>3, <3>2 DEF ActiveIds, Active
      <4> QED
        BY <4>2 DEF AtMostOneActive
    <3> QED
      BY <3>1, <3>2
  <2>5. pc'[w] = "idle"
    BY <1>0, <2>0, <2>1 DEF TypeOK
  <2>6. WriterKnows(w)'
    BY <2>5 DEF WriterKnows
  <2>7. Working(w) /\ \A v \in Writers : v # w => pc'[v] = pc[v]
    BY <1>0, <2>1 DEF TypeOK, Procs, Working
  <2> QED
    BY <1>0, <1>11, <2>4, <2>6, <2>7 DEF OneActiveInv
<1>15. ASSUME NEW p \in Procs, Abort(p)
       PROVE  OneActiveInv'
  <2>1. ActiveIds' = ActiveIds
    BY <1>15 DEF Abort, ActiveIds, Active
  <2>2. \A v \in Writers : pc'[v] \in {"sell", "apply"} =>
          pc'[v] = pc[v] /\ view'[v] = view[v] /\ plan'[v] = plan[v]
    BY <1>0, <1>15 DEF Abort, TypeOK, Procs
  <2> QED
    BY <1>0, <1>15, <2>1, <2>2, NothingActivated DEF Abort
<1>16. ASSUME NEW id \in Ids, TtlPasses(id)
       PROVE  OneActiveInv'
  <2>1. \A i \in Ids : /\ intents'[i].side = intents[i].side
                       /\ intents'[i].status = intents[i].status
    BY <1>0, <1>16 DEF TtlPasses, TypeOK, IntentRow
  <2>2. ActiveIds' = ActiveIds
    BY <2>1 DEF ActiveIds, Active
  <2> QED
    BY <1>0, <1>16, <2>1, <2>2, NothingActivated DEF TtlPasses
<1>17. CASE UNCHANGED vars
  <2>1. ActiveIds' = ActiveIds
    BY <1>17 DEF vars, ActiveIds, Active
  <2> QED
    BY <1>0, <1>17, <2>1, NothingActivated DEF vars
<1> QED
  BY <1>1, <1>2, <1>3, <1>4, <1>5, <1>6, <1>7, <1>8, <1>9, <1>12, <1>13, <1>14, <1>15,
     <1>16, <1>17
  DEF Next, WriterStep, FillerStep, OperatorStep, Procs

LEMMA InitOneActive == Init => OneActiveInv
<1>1. Init => ActiveIds = {}
  BY DEF Init, ActiveIds, Active, NoRow
<1>2. Init => \A w \in Writers : pc[w] = "idle"
  BY DEF Init, Procs
<1> QED
  BY <1>1, <1>2, InitType DEF OneActiveInv, AtMostOneActive, WriterKnows

\* A symbol written by one process never has two active intents, however many
\* paper-runners and operators fill its intents and whatever fails in between.
THEOREM SingleWriterOneActive ==
  ASSUME \A v, w \in Writers : v = w
  PROVE  Spec => []AtMostOneActive
<1>1. WorksAlone
  BY DEF WorksAlone
<1>2. OneActiveInv /\ [Next]_vars => OneActiveInv'
  BY <1>1, NextOneActive
<1>3. OneActiveInv => AtMostOneActive
  BY DEF OneActiveInv
<1> QED
  BY <1>2, <1>3, InitOneActive, PTL DEF Spec

-----------------------------------------------------------------------------
(* Fills within the order *)

\* A row and the sum q of its fills: an active row still asks for what it was
\* created with less what was filled.
RowFilled(row, q) ==
  /\ q <= row.original
  /\ row.status = "ACTIVE" => q + row.qty = row.original

\* What a lone process p has listed or read is still so, up to its commit, and
\* the intent that its decision creates has no fills.
ListedIsCurrent(p) ==
  /\ pc[p] \in {"fill", "fillpos", "fillcommit"} =>
       \A r \in todo[p] : Active(r.id) /\ intents[r.id].qty = r.qty
  /\ pc[p] \in {"fillpos", "fillcommit"} =>
       LET t == txn[p] IN
       /\ t.id \in Ids
       /\ Active(t.id) /\ intents[t.id].qty = t.qty
       /\ t.paper /\ t.ask \in 1..t.qty /\ t.status = "ACTIVE"
       /\ \A r \in todo[p] : r.id < t.id
  /\ pc[p] = "apply" /\ plan[p].new \in Ids =>
       plan[p].new < nextId /\ filled[plan[p].new] = 0

FillInv ==
  /\ TypeOK
  /\ \A id \in Ids : RowFilled(intents[id], filled[id])
  /\ \A id \in Ids : id >= nextId => ~Active(id) /\ filled[id] = 0
  /\ \A p \in Procs : ListedIsCurrent(p)

\* A row that stops working keeps what was filled of it.
LEMMA RowStops ==
  ASSUME NEW r \in IntentRow
  PROVE  /\ [r EXCEPT !.status = "EXPIRED"].original = r.original
         /\ [r EXCEPT !.status = "EXPIRED"].status # "ACTIVE"
         /\ [r EXCEPT !.status = "CANCEL_REQUESTED"].original = r.original
         /\ [r EXCEPT !.status = "CANCEL_REQUESTED"].status # "ACTIVE"
         /\ \A n : [r EXCEPT !.status = "REPLACED", !.by = n].original = r.original
         /\ \A n : [r EXCEPT !.status = "REPLACED", !.by = n].status # "ACTIVE"
  BY DEF IntentRow

\* A lone fill of an active row, in part or in full, takes from what it asks.
LEMMA RowIsFilled ==
  ASSUME NEW t \in Txn, NEW q \in Nat, t.id \in Ids, intents[t.id] \in IntentRow,
         RowFilled(intents[t.id], q), Active(t.id), intents[t.id].qty = t.qty,
         t.paper, t.ask \in 1..t.qty, t.status = "ACTIVE"
  PROVE  RowFilled(FilledRow(t), q + Applied(t))
<1> DEFINE row == intents[t.id]
<1>1. t.qty \in Nat /\ t.ask \in Nat /\ Applied(t) = t.ask
  BY DEF Txn, Applied, Lower
<1>2. q + row.qty = row.original /\ row.original \in Nat /\ row.status = "ACTIVE"
  BY DEF RowFilled, Active, IntentRow
<1>3. CASE t.ask < t.qty
  <2> DEFINE new == [row EXCEPT !.qty = t.qty - t.ask]
  <2>1. FilledRow(t) = new
    BY <1>1, <1>3 DEF FilledRow
  <2>2. new.qty = t.qty - t.ask /\ new.original = row.original /\ new.status = "ACTIVE"
    BY <1>2 DEF IntentRow
  <2> HIDE DEF new
  <2> QED
    BY <1>1, <1>2, <1>3, <2>1, <2>2 DEF RowFilled
<1>4. CASE t.ask = t.qty
  <2> DEFINE new == [row EXCEPT !.status = "FILLED"]
  <2>1. FilledRow(t) = new
    BY <1>1, <1>4 DEF FilledRow
  <2>2. new.original = row.original /\ new.status = "FILLED"
    BY DEF IntentRow
  <2> HIDE DEF new
  <2> QED
    BY <1>1, <1>2, <1>4, <2>1, <2>2 DEF RowFilled
<1> QED
  BY <1>1, <1>3, <1>4

\* The decision names an intent that is not there yet.
LEMMA DecisionNamesNext ==
  ASSUME NEW held, NEW buy, NEW sell, NEW d \in Decisions(held, buy, sell)
  PROVE  d.new \in {0, nextId}
  BY DEF Decisions, BuySide, SellSide, Hold, Create, Reprice, Cancel

LEMMA InitFill == Init => FillInv
<1> SUFFICES ASSUME Init PROVE FillInv
  OBVIOUS
<1>1. \A id \in Ids : RowFilled(intents[id], filled[id]) /\ ~Active(id) /\ filled[id] = 0
  BY DEF Init, NoRow, RowFilled, Active
<1>2. \A p \in Procs : ListedIsCurrent(p)
  BY DEF Init, ListedIsCurrent
<1> QED
  BY <1>1, <1>2, InitType DEF FillInv

\* A step that changes no row and no fill keeps the invariant if it keeps what
\* its own process has listed.
LEMMA RowsKept ==
  ASSUME FillInv, TypeOK', UNCHANGED <<intents, filled>>, nextId' >= nextId,
         \A p \in Procs : ListedIsCurrent(p)'
  PROVE  FillInv'
<1>1. \A id \in Ids : id >= nextId' => id >= nextId
  BY LedgerAssumption DEF Ids, FillInv, TypeOK
<1> QED
  BY <1>1 DEF FillInv, Active

\* A writer's step changes nothing of what another process remembers.
LEMMA OthersKept ==
  ASSUME TypeOK, NEW w \in Procs, WriterStep(w) \/ Abort(w)
  PROVE  \A p \in Procs : p # w =>
           /\ pc'[p] = pc[p] /\ todo'[p] = todo[p] /\ txn'[p] = txn[p]
           /\ view'[p] = view[p] /\ plan'[p] = plan[p]
<1>1. CASE BeginCycle(w) \/ Expire(w) \/ ListActive(w) \/ EndFills(w)
  BY <1>1 DEF TypeOK, BeginCycle, Expire, ListActive, EndFills, Goto
<1>2. CASE StartFill(w)
  BY <1>2 DEF TypeOK, StartFill, OpenTxn, Goto
<1>3. CASE ReadPosition(w) \/ CommitFill(w)
  BY <1>3 DEF TypeOK, ReadPosition, CommitFill, Goto
<1>4. CASE ReadHeld(w) \/ ReadActiveBuy(w)
  BY <1>4 DEF TypeOK, ReadHeld, ReadActiveBuy, Goto
<1>5. CASE Evaluate(w)
  BY <1>5 DEF TypeOK, Evaluate
<1>6. CASE Apply(w) \/ Abort(w)
  BY <1>6 DEF TypeOK, Apply, Abort, Goto
<1> QED
  BY <1>1, <1>2, <1>3, <1>4, <1>5, <1>6 DEF WriterStep

\* So, if writers take turns, what is listed elsewhere is still so.
LEMMA OthersCurrent ==
  ASSUME TakesTurns, FillInv, Procs = Writers, NEW w \in Writers,
         WriterStep(w) \/ Abort(w), pc[w] # "idle" \/ UNCHANGED <<intents, filled, nextId>>
  PROVE  \A p \in Procs : p # w => ListedIsCurrent(p)'
<1> SUFFICES ASSUME NEW p \in Procs, p # w PROVE ListedIsCurrent(p)'
  OBVIOUS
<1>1. pc'[p] = pc[p] /\ todo'[p] = todo[p] /\ txn'[p] = txn[p] /\ plan'[p] = plan[p]
  BY OthersKept DEF FillInv
<1>2. CASE pc[w] # "idle"
  BY <1>1, <1>2 DEF TakesTurns, ListedIsCurrent
<1>3. CASE UNCHANGED <<intents, filled, nextId>>
  BY <1>1, <1>3 DEF FillInv, ListedIsCurrent, Active
<1> QED
  BY <1>2, <1>3

\* If writers take turns and nobody else works on the ledger, every step keeps
\* the invariant.
LEMMA NextFill ==
  ASSUME TakesTurns, Fillers = {}, Operators = {}, FillInv, [Next]_vars
  PROVE  FillInv'
<1>0. TypeOK /\ TypeOK' /\ Procs = Writers /\ nextId \in Nat
  BY NextType, LedgerAssumption DEF FillInv, Procs, TypeOK
<1>1. ASSUME NEW w \in Writers,
             BeginCycle(w) \/ ListActive(w) \/ StartFill(w) \/ ReadPosition(w) \/ EndFills(w)
               \/ ReadHeld(w) \/ ReadActiveBuy(w) \/ Evaluate(w) \/ Abort(w)
      PROVE  FillInv'
  <2>0. ListedIsCurrent(w)
    BY <1>0 DEF FillInv
  <2>1. UNCHANGED <<intents, filled>>
    BY <1>1 DEF BeginCycle, ListActive, StartFill, ReadPosition, EndFills, ReadHeld,
               ReadActiveBuy, Evaluate, Abort
  <2>2. nextId' >= nextId
    <3>1. nextId' = nextId \/ Evaluate(w)
      BY <1>1 DEF BeginCycle, ListActive, StartFill, ReadPosition, EndFills, ReadHeld,
                 ReadActiveBuy, Abort
    <3>2. Evaluate(w) => nextId' \in {nextId, nextId + 1}
      BY DEF Evaluate
    <3> QED
      BY <1>0, <3>1, <3>2
  <2>3. ListedIsCurrent(w)'
    <3>1. CASE BeginCycle(w) \/ EndFills(w) \/ ReadHeld(w) \/ ReadActiveBuy(w) \/ Abort(w)
      BY <1>0, <2>0, <3>1 DEF BeginCycle, EndFills, ReadHeld, ReadActiveBuy, Abort, Goto, TypeOK,
                        ListedIsCurrent
    <3>2. CASE ListActive(w)
      <4>1. pc'[w] = "fill" /\ todo'[w] = Rows(ActiveIds)
        BY <1>0, <3>2 DEF ListActive, Goto, TypeOK
      <4>2. \A r \in Rows(ActiveIds) : Active(r.id) /\ intents[r.id].qty = r.qty
        BY DEF Rows, ActiveIds
      <4> QED
        BY <2>1, <4>1, <4>2 DEF ListedIsCurrent, Active
    <3>3. CASE StartFill(w)
      <4>1. PICK r \in todo[w] : \E ask \in FillAsks(r.qty) :
              /\ OpenTxn(w, r.id, ask, TRUE)
              /\ todo' = [todo EXCEPT ![w] = {x \in todo[w] : x.id < r.id}]
        BY <3>3 DEF StartFill
      <4> PICK ask \in FillAsks(r.qty) :
            /\ OpenTxn(w, r.id, ask, TRUE)
            /\ todo' = [todo EXCEPT ![w] = {x \in todo[w] : x.id < r.id}]
        BY <4>1
      <4>2. pc[w] = "fill" /\ pc'[w] = "fillpos"
        BY <1>0, <3>3 DEF StartFill, Goto, TypeOK
      <4>3. r.id \in Ids /\ r.qty \in Nat /\ Active(r.id) /\ intents[r.id].qty = r.qty
        BY <1>0, <2>0, <4>2 DEF ListedIsCurrent, TypeOK
      <4>4. ask \in 1..r.qty
        BY <4>3 DEF FillAsks
      <4>5. /\ txn'[w].id = r.id /\ txn'[w].ask = ask /\ txn'[w].paper = TRUE
            /\ txn'[w].status = intents[r.id].status /\ txn'[w].qty = intents[r.id].qty
        BY <1>0 DEF OpenTxn, TypeOK
      <4>6. todo'[w] = {x \in todo[w] : x.id < r.id}
        BY <1>0 DEF TypeOK
      <4>7. \A x \in todo'[w] : Active(x.id) /\ intents[x.id].qty = x.qty /\ x.id < r.id
        BY <1>0, <2>0, <4>2, <4>6 DEF ListedIsCurrent
      <4> QED
        BY <2>1, <4>2, <4>3, <4>4, <4>5, <4>7 DEF ListedIsCurrent, Active
    <3>4. CASE ReadPosition(w)
      <4>1. pc[w] = "fillpos" /\ pc'[w] = "fillcommit" /\ todo'[w] = todo[w]
        BY <1>0, <3>4 DEF ReadPosition, Goto, TypeOK
      <4>2. /\ txn'[w].id = txn[w].id /\ txn'[w].ask = txn[w].ask
            /\ txn'[w].paper = txn[w].paper /\ txn'[w].status = txn[w].status
            /\ txn'[w].qty = txn[w].qty
        BY <1>0, <3>4 DEF ReadPosition, TypeOK, Txn
      <4> QED
        BY <1>0, <2>0, <2>1, <4>1, <4>2 DEF ListedIsCurrent, Active
    <3>5. CASE Evaluate(w)
      <4>1. PICK d \in Decisions(view[w].held, view[w].buy, Newest(ActiveOf("SELL"))) :
              /\ nextId' = IF d.new # 0 THEN nextId + 1 ELSE nextId
              /\ plan' = [plan EXCEPT ![w] = d]
              /\ pc' = [pc EXCEPT ![w] = IF d.action = "HOLD" THEN "idle" ELSE "apply"]
        BY <3>5 DEF Evaluate
      <4>2. d.new \in {0, nextId}
        BY <4>1, DecisionNamesNext
      <4>3. plan'[w] = d /\ pc'[w] \in {"idle", "apply"}
        BY <1>0, <4>1 DEF TypeOK
      <4>4. d.new \in Ids => d.new < nextId' /\ filled'[d.new] = 0
        BY <1>0, <2>1, <4>1, <4>2 DEF FillInv, Ids
      <4> QED
        BY <2>1, <4>3, <4>4 DEF ListedIsCurrent
    <3> QED
      BY <1>1, <3>1, <3>2, <3>3, <3>4, <3>5
  <2>4. \A p \in Procs : p # w => ListedIsCurrent(p)'
    <3>1. WriterStep(w) \/ Abort(w)
      BY <1>1 DEF WriterStep
    <3>2. pc[w] # "idle" \/ BeginCycle(w)
      BY <1>1 DEF ListActive, StartFill, ReadPosition, EndFills, ReadHeld, ReadActiveBuy,
                  Evaluate, Abort, Goto
    <3>3. BeginCycle(w) => UNCHANGED <<intents, filled, nextId>>
      BY DEF BeginCycle
    <3> QED
      BY <1>0, <3>1, <3>2, <3>3, OthersCurrent
  <2> QED
    BY <1>0, <2>1, <2>2, <2>3, <2>4, RowsKept
<1>2. ASSUME NEW w \in Writers, Expire(w)
      PROVE  FillInv'
  <2>0. /\ ListedIsCurrent(w)
        /\ \A p \in Procs : p # w => ListedIsCurrent(p)'
    BY <1>0, <1>2, OthersCurrent DEF FillInv, Expire, Goto, WriterStep
  <2>1. \A id \in Ids : intents'[id] \in {intents[id], [intents[id] EXCEPT !.status = "EXPIRED"]}
    BY <1>2 DEF Expire
  <2>2. \A id \in Ids :
          \/ intents'[id] = intents[id]
          \/ intents'[id].original = intents[id].original /\ intents'[id].status # "ACTIVE"
    <3> SUFFICES ASSUME NEW id \in Ids, intents'[id] # intents[id]
                 PROVE  intents'[id].original = intents[id].original /\ intents'[id].status # "ACTIVE"
      OBVIOUS
    <3>1. intents[id] \in IntentRow
      BY <1>0 DEF TypeOK
    <3>2. intents'[id] = [intents[id] EXCEPT !.status = "EXPIRED"]
      BY <2>1
    <3> QED
      BY <3>1, <3>2, RowStops
  <2>3. filled' = filled /\ nextId' = nextId
    BY <1>2 DEF Expire
  <2>4. \A id \in Ids : RowFilled(intents'[id], filled'[id])
    BY <2>2, <2>3 DEF FillInv, RowFilled
  <2>5. \A id \in Ids : Active(id)' => Active(id)
    BY <2>2 DEF Active
  <2>6. pc'[w] \in {"idle", "list", "position"}
    BY <1>0, <1>2 DEF Expire, Goto, TypeOK
  <2>7. ListedIsCurrent(w)'
    BY <2>6 DEF ListedIsCurrent
  <2> QED
    BY <1>0, <2>0, <2>3, <2>4, <2>5, <2>7 DEF FillInv
<1>3. ASSUME NEW w \in Writers, CommitFill(w)
      PROVE  FillInv'
  <2>0. /\ ListedIsCurrent(w)
        /\ \A p \in Procs : p # w => ListedIsCurrent(p)'
    BY <1>0, <1>3, OthersCurrent DEF FillInv, CommitFill, Goto, WriterStep
  <2> DEFINE t == txn[w]
  <2>1. pc[w] = "fillcommit" /\ pc'[w] = "fill" /\ todo'[w] = todo[w]
    BY <1>0, <1>3 DEF CommitFill, Goto, TypeOK
  <2>2. /\ t \in Txn /\ t.id \in Ids /\ Active(t.id) /\ intents[t.id].qty = t.qty
        /\ t.paper /\ t.ask \in 1..t.qty /\ t.status = "ACTIVE"
        /\ \A r \in todo[w] : r.id < t.id
    BY <1>0, <2>0, <2>1 DEF ListedIsCurrent, TypeOK
  <2>3. /\ intents' = [intents EXCEPT ![t.id] = FilledRow(t)]
        /\ filled' = [filled EXCEPT ![t.id] = filled[t.id] + Applied(t)]
        /\ nextId' = nextId
    BY <1>3 DEF CommitFill
  <2> HIDE DEF t
  <2>4. RowFilled(FilledRow(t), filled[t.id] + Applied(t))
    BY <1>0, <2>2, RowIsFilled DEF TypeOK, FillInv
  <2>5. \A id \in Ids : RowFilled(intents'[id], filled'[id])
    BY <1>0, <2>2, <2>3, <2>4 DEF TypeOK, FillInv
  <2>6. \A id \in Ids : id # t.id => intents'[id] = intents[id] /\ filled'[id] = filled[id]
    BY <1>0, <2>3 DEF TypeOK
  <2>7. t.id < nextId
    BY <1>0, <2>2 DEF FillInv, Ids
  <2>8. \A id \in Ids : id >= nextId' => ~Active(id)' /\ filled'[id] = 0
    BY <1>0, <2>3, <2>6, <2>7 DEF FillInv, Active, Ids
  <2>9. \A r \in todo'[w] : Active(r.id)' /\ intents'[r.id].qty = r.qty
    <3>1. \A r \in todo[w] : r.id \in Ids /\ r.id # t.id /\ Active(r.id)
                             /\ intents[r.id].qty = r.qty
      BY <1>0, <2>0, <2>1, <2>2 DEF ListedIsCurrent, TypeOK, Ids
    <3> QED
      BY <2>1, <2>6, <3>1 DEF Active
  <2>10. ListedIsCurrent(w)'
    BY <2>1, <2>9 DEF ListedIsCurrent
  <2> QED
    BY <1>0, <2>0, <2>5, <2>8, <2>10 DEF FillInv
<1>4. ASSUME NEW w \in Writers, Apply(w)
      PROVE  FillInv'
  <2>0. /\ ListedIsCurrent(w)
        /\ \A p \in Procs : p # w => ListedIsCurrent(p)'
    BY <1>0, <1>4, OthersCurrent DEF FillInv, Apply, Goto, WriterStep
  <2> DEFINE d == plan[w]
  <2>1. pc[w] = "apply" /\ pc'[w] = "idle" /\ filled' = filled /\ nextId' = nextId
    BY <1>0, <1>4 DEF Apply, Goto, TypeOK
  <2>2. d \in Plan /\ (d.new \in Ids => d.new < nextId /\ filled[d.new] = 0)
    BY <1>0, <2>0, <2>1 DEF ListedIsCurrent, TypeOK
  <2>3. ASSUME NEW id \in Ids
        PROVE  \/ id = d.new /\ intents'[id] = NewRow(d)
               \/ intents'[id] = intents[id]
               \/ intents'[id].original = intents[id].original /\ intents'[id].status # "ACTIVE"
    <3> DEFINE row == intents[id]
    <3>1. row \in IntentRow
      BY <1>0 DEF TypeOK
    <3>2. intents'[id] =
            CASE id = d.new -> NewRow(d)
              [] id = d.old /\ d.action = "REPRICE" ->
                   [row EXCEPT !.status = "REPLACED", !.by = d.new]
              [] id = d.old /\ d.action = "CANCEL" ->
                   [row EXCEPT !.status = "CANCEL_REQUESTED"]
              [] OTHER -> row
      BY <1>4 DEF Apply
    <3> DEFINE replaced == [row EXCEPT !.status = "REPLACED", !.by = d.new]
               cancelled == [row EXCEPT !.status = "CANCEL_REQUESTED"]
    <3>3. /\ replaced.original = row.original /\ replaced.status # "ACTIVE"
          /\ cancelled.original = row.original /\ cancelled.status # "ACTIVE"
      BY <3>1, RowStops
    <3>4. \/ id = d.new /\ intents'[id] = NewRow(d)
          \/ intents'[id] \in {row, replaced, cancelled}
      BY <3>2
    <3> HIDE DEF replaced, cancelled
    <3> QED
      BY <3>3, <3>4
  <2> HIDE DEF d
  <2>5. RowFilled(NewRow(d), 0)
    BY <2>2 DEF RowFilled, NewRow, Plan
  <2>6. \A id \in Ids : RowFilled(intents'[id], filled'[id])
    <3>1. \A id \in Ids : RowFilled(intents[id], filled[id])
      BY DEF FillInv
    <3> QED
      BY <2>1, <2>2, <2>3, <2>5, <3>1 DEF RowFilled
  <2>7. \A id \in Ids : id # d.new /\ Active(id)' => Active(id)
    BY <2>3 DEF Active
  <2>8. \A id \in Ids : id >= nextId' => ~Active(id)' /\ filled'[id] = 0
    BY <1>0, <2>1, <2>2, <2>7 DEF FillInv, Ids
  <2>9. ListedIsCurrent(w)'
    BY <2>1 DEF ListedIsCurrent
  <2> QED
    BY <1>0, <2>0, <2>6, <2>8, <2>9 DEF FillInv
<1>5. ASSUME NEW id \in Ids, TtlPasses(id)
      PROVE  FillInv'
  <2>1. /\ UNCHANGED <<filled, nextId, pc, todo, txn, plan>>
        /\ intents' = [intents EXCEPT ![id].due = TRUE]
    BY <1>5 DEF TtlPasses
  <2>2. \A i \in Ids : /\ intents'[i].status = intents[i].status
                       /\ intents'[i].qty = intents[i].qty
                       /\ intents'[i].original = intents[i].original
    BY <1>0, <2>1 DEF TypeOK, IntentRow
  <2>3. \A i \in Ids : RowFilled(intents'[i], filled'[i])
    BY <2>1, <2>2 DEF RowFilled, FillInv
  <2>4. \A i \in Ids : Active(i)' <=> Active(i)
    BY <2>2 DEF Active
  <2>5. ASSUME NEW p \in Procs
        PROVE  ListedIsCurrent(p)'
    <3>1. todo[p] \subseteq [id : Ids, qty : Nat] /\ ListedIsCurrent(p)
      BY <1>0 DEF TypeOK, FillInv
    <3> QED
      BY <2>1, <2>2, <2>4, <3>1 DEF ListedIsCurrent
  <2> QED
    BY <1>0, <2>1, <2>3, <2>4, <2>5 DEF FillInv
<1>6. CASE UNCHANGED vars
  <2>1. \A p \in Procs : ListedIsCurrent(p)'
    BY <1>6 DEF vars, FillInv, ListedIsCurrent, Active
  <2> QED
    BY <1>0, <1>6, <2>1, RowsKept DEF vars
<1> QED
  BY <1>0, <1>1, <1>2, <1>3, <1>4, <1>5, <1>6 DEF Next, WriterStep

\* A writer that runs alone, paper fills and all, never fills an order beyond
\* its size, in however many parts and whatever fails between two of its calls.
THEOREM LoneWriterFillsWithinOrder ==
  ASSUME \A v, w \in Writers : v = w, Fillers = {}, Operators = {}
  PROVE  Spec => []FilledWithinOrder
<1>1. FillInv /\ [Next]_vars => FillInv'
  BY NextFill DEF TakesTurns
<1>2. FillInv => FilledWithinOrder
  BY DEF FillInv, RowFilled, FilledWithinOrder
<1> QED
  BY <1>1, <1>2, InitFill, PTL DEF Spec

-----------------------------------------------------------------------------
(* Sums *)

\* Of some subsets of a finite set, one has no smaller one among them.
LEMMA SmallestSet ==
  ASSUME NEW S, IsFiniteSet(S), NEW B, B \subseteq SUBSET S, B # {}
  PROVE  \E T \in B : \A U \in B : U \subseteq T => U = T
<1>1. IsWellFoundedOn(StrictSubsetOrdering(S), SUBSET S)
  BY FS_StrictSubsetOrderingWellFounded, FS_FiniteSubsetsOfFinite
<1>2. PICK T \in B : \A U \in B : <<U, T>> \notin StrictSubsetOrdering(S)
  BY <1>1, WFMin, Zenon
<1>3. ASSUME NEW U \in B, U \subseteq T, U # T
      PROVE  FALSE
  <2>1. <<U, T>> \in (SUBSET S) \X (SUBSET S)
    BY <1>3
  <2> QED
    BY <1>2, <1>3, <2>1 DEF StrictSubsetOrdering
<1> QED
  BY <1>3

\* A set of naturals has a least element.
LEMMA LeastNat ==
  ASSUME NEW S, S \subseteq Nat, S # {}
  PROVE  \E n \in S : \A m \in S : n <= m
<1>1. PICK n \in S : \A m \in S : <<m, n>> \notin OpToRel(<, Nat)
  BY NatLessThanWellFounded, WFMin, Zenon
<1>2. \A m \in S : ~(m < n)
  BY <1>1, Zenon DEF OpToRel
<1> QED
  BY <1>2

\* The equation of SumOver, on a set D of sets.
SumsOn(D, f, g) ==
  g = [T \in D |-> IF T = {} THEN 0
                   ELSE LET x == CHOOSE x \in T : TRUE IN f[x] + g[T \ {x}]]

\* It has a solution on the sets of at most n elements, for every n ...
UpTo(S, n) == {T \in SUBSET S : Cardinality(T) <= n}

LEMMA SumsUpTo ==
  ASSUME NEW S, IsFiniteSet(S), NEW f, NEW n \in Nat
  PROVE  \E g : SumsOn(UpTo(S, n), f, g)
<1> DEFINE bad == {k \in Nat : ~ \E g : SumsOn(UpTo(S, k), f, g)}
<1>1. SUFFICES ASSUME bad # {} PROVE FALSE
  OBVIOUS
<1>2. PICK k \in bad : \A m \in bad : k <= m
  <2>1. bad \subseteq Nat
    OBVIOUS
  <2> HIDE DEF bad
  <2> QED
    BY <1>1, <2>1, LeastNat
<1>3. \A T \in SUBSET S : IsFiniteSet(T) /\ Cardinality(T) \in Nat
  BY FS_Subset, FS_CardinalityType
<1>4. k # 0
  <2> SUFFICES ASSUME k = 0 PROVE \E g : SumsOn(UpTo(S, k), f, g)
    BY <1>2
  <2> DEFINE g == [T \in UpTo(S, k) |-> 0]
  <2>1. \A T \in UpTo(S, k) : T = {}
    BY <1>3, FS_EmptySet DEF UpTo
  <2>2. SumsOn(UpTo(S, k), f, g)
    BY <2>1 DEF SumsOn
  <2> QED
    BY <2>2
<1>5. k - 1 \in Nat /\ k - 1 \notin bad
  BY <1>2, <1>4
<1>6. PICK g : SumsOn(UpTo(S, k - 1), f, g)
  BY <1>5
<1> DEFINE h == [T \in UpTo(S, k) |-> IF T = {} THEN 0
                   ELSE LET x == CHOOSE x \in T : TRUE IN f[x] + g[T \ {x}]]
<1>7. ASSUME NEW T \in UpTo(S, k), T # {}
      PROVE  LET x == CHOOSE x \in T : TRUE IN h[T \ {x}] = g[T \ {x}]
  <2> DEFINE x == CHOOSE x \in T : TRUE
  <2>1. x \in T /\ T \in SUBSET S
    BY <1>7 DEF UpTo
  <2> HIDE DEF x
  <2>2. Cardinality(T \ {x}) = Cardinality(T) - 1
    BY <1>3, <2>1, FS_RemoveElement
  <2>3. T \ {x} \in UpTo(S, k - 1) /\ T \ {x} \in UpTo(S, k)
    BY <1>3, <1>7, <2>1, <2>2 DEF UpTo
  <2> DEFINE U == T \ {x}
  <2>4. g[U] = IF U = {} THEN 0 ELSE LET y == CHOOSE y \in U : TRUE IN f[y] + g[U \ {y}]
    BY <1>6, <2>3 DEF SumsOn
  <2>5. h[T \ {x}] = g[T \ {x}]
    BY <2>3, <2>4
  <2> QED
    BY <2>5 DEF x
<1>8. SumsOn(UpTo(S, k), f, h)
  <2> DEFINE First(T) == CHOOSE x \in T : TRUE
  <2>1. \A T \in UpTo(S, k) : h[T] = IF T = {} THEN 0 ELSE f[First(T)] + g[T \ {First(T)}]
    OBVIOUS
  <2>2. \A T \in UpTo(S, k) : T # {} => h[T \ {First(T)}] = g[T \ {First(T)}]
    BY <1>7
  <2>3. h = [T \in UpTo(S, k) |-> h[T]]
    OBVIOUS
  <2> HIDE DEF h, First
  <2>4. \A T \in UpTo(S, k) : h[T] = IF T = {} THEN 0 ELSE f[First(T)] + h[T \ {First(T)}]
    BY <2>1, <2>2
  <2>5. h = [T \in UpTo(S, k) |-> IF T = {} THEN 0 ELSE f[First(T)] + h[T \ {First(T)}]]
    BY <2>3, <2>4
  <2> QED
    BY <2>5 DEF SumsOn, First
<1> QED
  BY <1>2, <1>8

\* ... so it has one on all subsets of a finite set.
LEMMA SumsThere ==
  ASSUME NEW S, IsFiniteSet(S), NEW f
  PROVE  \E g : SumsOn(SUBSET S, f, g) /\ SumOver(S, f) = g[S]
<1> DEFINE n == Cardinality(S)
           sum == CHOOSE g : SumsOn(SUBSET S, f, g)
<1>1. n \in Nat
  BY FS_CardinalityType
<1>2. UpTo(S, n) = SUBSET S
  BY FS_Subset DEF UpTo
<1>3. SumsOn(SUBSET S, f, sum)
  <2>1. PICK g : SumsOn(UpTo(S, n), f, g)
    BY <1>1, SumsUpTo
  <2>2. SumsOn(SUBSET S, f, g)
    BY <1>2, <2>1
  <2> QED
    BY <2>2, Zenon
<1>4. SumOver(S, f) = sum[S]
  BY DEF SumOver, SumsOn
<1> QED
  BY <1>3, <1>4

Summands(S, f) == \A x \in S : f[x] \in Int
Alike(S, f, h) == \A x \in S : f[x] = h[x]
TakesAny(T, f, g) == g[T] \in Int /\ \A a \in T : g[T] = f[a] + g[T \ {a}]

\* Whatever element a sum takes first, it is the same sum.
LEMMA SumsAnyOrder ==
  ASSUME NEW S, IsFiniteSet(S), NEW f, Summands(S, f),
         NEW g, SumsOn(SUBSET S, f, g)
  PROVE  \A T \in SUBSET S : TakesAny(T, f, g)
<1> DEFINE Right(U) == TakesAny(U, f, g)
           bad == {U \in SUBSET S : ~Right(U)}
<1>1. SUFFICES ASSUME bad # {} PROVE FALSE
  OBVIOUS
<1>2. PICK U \in bad : \A V \in bad : V \subseteq U => V = U
  <2>1. bad \subseteq SUBSET S
    OBVIOUS
  <2> HIDE DEF bad
  <2> QED
    BY <1>1, <2>1, SmallestSet
<1>3. \A V \in SUBSET S : V \subseteq U /\ V # U => Right(V)
  BY <1>2
<1>4. U # {}
  <2>1. U = {} => g[U] = 0
    BY DEF SumsOn
  <2> QED
    BY <1>2, <2>1 DEF TakesAny
<1> DEFINE x == CHOOSE x \in U : TRUE
<1>5. x \in U /\ U \in SUBSET S /\ f[x] \in Int
  BY <1>4 DEF Summands
<1>6. g[U] = f[x] + g[U \ {x}]
  BY <1>4 DEF SumsOn
<1> HIDE DEF x
<1>7. g[U \ {x}] \in Int
  BY <1>3, <1>5 DEF TakesAny
<1>8. ASSUME NEW a \in U
      PROVE  g[U] = f[a] + g[U \ {a}]
  <2>1. CASE a = x
    BY <1>6, <2>1
  <2>2. CASE a # x
    <3>1. U \ {x} \in SUBSET S /\ U \ {a} \in SUBSET S /\ a \in U \ {x} /\ x \in U \ {a}
      BY <1>5, <2>2
    <3>2. Right(U \ {x}) /\ Right(U \ {a})
      BY <1>3, <1>5, <3>1
    <3>3. /\ g[U \ {x}] = f[a] + g[(U \ {x}) \ {a}]
          /\ g[U \ {a}] = f[x] + g[(U \ {a}) \ {x}]
      BY <3>1, <3>2 DEF TakesAny
    <3>4. (U \ {x}) \ {a} = (U \ {a}) \ {x}
      OBVIOUS
    <3>5. (U \ {a}) \ {x} \in SUBSET S /\ (U \ {a}) \ {x} # U
      BY <1>5
    <3>6. g[(U \ {a}) \ {x}] \in Int /\ f[a] \in Int
      BY <1>3, <1>5, <3>5 DEF TakesAny, Summands
    <3> DEFINE rest == g[(U \ {a}) \ {x}]
    <3>7. g[U \ {x}] = f[a] + rest /\ g[U \ {a}] = f[x] + rest /\ rest \in Int
      BY <3>3, <3>4, <3>6
    <3> HIDE DEF rest
    <3> QED
      BY <1>5, <1>6, <3>6, <3>7
  <2> QED
    BY <2>1, <2>2
<1>9. Right(U)
  <2>1. g[U] \in Int
    BY <1>5, <1>6, <1>7
  <2> QED
    BY <1>8, <2>1 DEF TakesAny
<1> QED
  BY <1>2, <1>9

\* Sums of the same summands are the same.
LEMMA SumsAgree ==
  ASSUME NEW S, IsFiniteSet(S), NEW R, S \subseteq R, NEW f, NEW h, Alike(S, f, h),
         NEW g, SumsOn(SUBSET S, f, g), NEW e, SumsOn(SUBSET R, h, e)
  PROVE  Alike(SUBSET S, g, e)
<1> DEFINE bad == {U \in SUBSET S : g[U] # e[U]}
<1>1. SUFFICES ASSUME bad # {} PROVE FALSE
  BY DEF Alike
<1>2. PICK U \in bad : \A V \in bad : V \subseteq U => V = U
  <2>1. bad \subseteq SUBSET S
    OBVIOUS
  <2> HIDE DEF bad
  <2> QED
    BY <1>1, <2>1, SmallestSet
<1>3. U \in SUBSET S /\ U \in SUBSET R
  OBVIOUS
<1>4. /\ g[U] = IF U = {} THEN 0 ELSE LET x == CHOOSE x \in U : TRUE IN f[x] + g[U \ {x}]
      /\ e[U] = IF U = {} THEN 0 ELSE LET x == CHOOSE x \in U : TRUE IN h[x] + e[U \ {x}]
  BY <1>3 DEF SumsOn
<1> DEFINE x == CHOOSE x \in U : TRUE
<1>5. U # {} => x \in U /\ g[U] = f[x] + g[U \ {x}] /\ e[U] = h[x] + e[U \ {x}]
  BY <1>4
<1> HIDE DEF x
<1>6. U # {} => U \ {x} \in SUBSET S /\ U \ {x} # U
  BY <1>3, <1>5
<1>7. U # {} => g[U \ {x}] = e[U \ {x}] /\ f[x] = h[x]
  BY <1>2, <1>3, <1>5, <1>6 DEF Alike
<1> QED
  BY <1>2, <1>4, <1>5, <1>7

\* A sum of integers is one; it is the summand of any element and the sum of
\* the others; an empty sum is zero.
LEMMA SumTakes ==
  ASSUME NEW S, IsFiniteSet(S), NEW f, \A x \in S : f[x] \in Int
  PROVE  /\ SumOver(S, f) \in Int
         /\ \A a \in S : SumOver(S, f) = f[a] + SumOver(S \ {a}, f)
<1>1. PICK g : SumsOn(SUBSET S, f, g) /\ SumOver(S, f) = g[S]
  BY SumsThere
<1>2. SumOver(S, f) \in Int /\ \A a \in S : g[S] = f[a] + g[S \ {a}]
  <2>1. Summands(S, f) /\ S \in SUBSET S
    BY DEF Summands
  <2>2. TakesAny(S, f, g)
    BY <1>1, <2>1, SumsAnyOrder
  <2> QED
    BY <1>1, <2>2 DEF TakesAny
<1>3. ASSUME NEW a \in S
      PROVE  SumOver(S, f) = f[a] + SumOver(S \ {a}, f)
  <2>1. IsFiniteSet(S \ {a}) /\ S \ {a} \subseteq S
    BY FS_Subset
  <2>2. PICK e : SumsOn(SUBSET (S \ {a}), f, e) /\ SumOver(S \ {a}, f) = e[S \ {a}]
    BY <2>1, SumsThere
  <2>3. \A T \in SUBSET (S \ {a}) : e[T] = g[T]
    <3> DEFINE R == S \ {a}
    <3>1. SumsOn(SUBSET R, f, e) /\ Alike(R, f, f)
      BY <2>2 DEF Alike
    <3> HIDE DEF R
    <3>2. R \subseteq S /\ IsFiniteSet(R)
      BY <2>1 DEF R
    <3>3. Alike(SUBSET R, e, g)
      BY <1>1, <3>1, <3>2, SumsAgree
    <3> QED
      BY <3>3 DEF Alike, R
  <2> QED
    BY <1>1, <1>2, <2>2, <2>3
<1> QED
  BY <1>2, <1>3

LEMMA SumOfNone ==
  ASSUME NEW f
  PROVE  SumOver({}, f) = 0
<1>1. PICK g : SumsOn(SUBSET {}, f, g) /\ SumOver({}, f) = g[{}]
  BY SumsThere, FS_EmptySet
<1> QED
  BY <1>1 DEF SumsOn

\* Only the summands count.
LEMMA SumSame ==
  ASSUME NEW S, IsFiniteSet(S), NEW f, NEW h, \A x \in S : f[x] = h[x]
  PROVE  SumOver(S, f) = SumOver(S, h)
<1>1. PICK g : SumsOn(SUBSET S, f, g) /\ SumOver(S, f) = g[S]
  BY SumsThere
<1>2. PICK e : SumsOn(SUBSET S, h, e) /\ SumOver(S, h) = e[S]
  BY SumsThere
<1>3. Alike(SUBSET S, g, e)
  <2>1. S \subseteq S /\ Alike(S, f, h)
    BY DEF Alike
  <2> QED
    BY <1>1, <1>2, <2>1, SumsAgree
<1> QED
  BY <1>1, <1>2, <1>3 DEF Alike

\* A summand that is zero may be there or not.
LEMMA SumSkips ==
  ASSUME NEW S, IsFiniteSet(S), NEW f, \A x \in S : f[x] \in Int,
         NEW a, a \in S => f[a] = 0
  PROVE  SumOver(S, f) = SumOver(S \ {a}, f)
<1>1. CASE a \in S
  <2> DEFINE rest == SumOver(S \ {a}, f)
  <2>1. IsFiniteSet(S \ {a}) /\ \A x \in S \ {a} : f[x] \in Int
    BY FS_Subset
  <2>2. rest \in Int
    BY <2>1, SumTakes
  <2>3. SumOver(S, f) = f[a] + rest
    BY <1>1, SumTakes
  <2> HIDE DEF rest
  <2>4. SumOver(S, f) = rest
    BY <1>1, <2>2, <2>3
  <2> QED
    BY <2>4 DEF rest
<1>2. CASE a \notin S
  <2>1. S \ {a} = S
    BY <1>2
  <2> QED
    BY <2>1
<1> QED
  BY <1>1, <1>2

Grown(S, f, a, q, h) == \A x \in S : h[x] = IF x = a THEN f[a] + q ELSE f[x]

\* A sum grows with one of its summands.
LEMMA SumGrows ==
  ASSUME NEW S, IsFiniteSet(S), NEW f, Summands(S, f),
         NEW a, NEW q \in Int, NEW h, Grown(S, f, a, q, h)
  PROVE  SumOver(S, h) = IF a \in S THEN SumOver(S, f) + q ELSE SumOver(S, f)
<1>1. CASE a \in S
  <2> DEFINE R == S \ {a}
  <2>1. IsFiniteSet(R) /\ \A x \in R : f[x] \in Int /\ f[x] = h[x]
    BY FS_Subset DEF Summands, Grown
  <2>2. SumOver(R, f) \in Int /\ SumOver(R, h) = SumOver(R, f)
    BY <2>1, SumTakes, SumSame
  <2>3. \A x \in S : f[x] \in Int /\ h[x] \in Int
    BY DEF Summands, Grown
  <2>4. SumOver(S, f) = f[a] + SumOver(R, f) /\ SumOver(S, h) = h[a] + SumOver(R, h)
    BY <1>1, <2>3, SumTakes
  <2>5. f[a] \in Int /\ h[a] = f[a] + q
    BY <1>1 DEF Summands, Grown
  <2> HIDE DEF R
  <2> QED
    BY <1>1, <2>2, <2>4, <2>5
<1>2. CASE a \notin S
  <2>1. \A x \in S : f[x] = h[x]
    BY <1>2 DEF Grown
  <2> QED
    BY <1>2, <2>1, SumSame
<1> QED
  BY <1>1, <1>2

\* A sum over at most one element is that element's summand.
LEMMA SumOfOne ==
  ASSUME NEW S, NEW f, NEW a, S \subseteq {a}, a \in S => f[a] \in Int
  PROVE  SumOver(S, f) = IF S = {} THEN 0 ELSE f[a]
<1>1. CASE S = {}
  BY <1>1, SumOfNone
<1>2. CASE S # {}
  <2>1. S = {a} /\ S \ {a} = {} /\ f[a] \in Int
    BY <1>2
  <2>2. IsFiniteSet(S)
    BY <2>1, FS_Singleton
  <2>3. SumOver(S, f) = f[a] + SumOver({}, f)
    BY <2>1, <2>2, SumTakes
  <2> QED
    BY <2>1, <2>3, SumOfNone
<1> QED
  BY <1>1, <1>2

-----------------------------------------------------------------------------
(* The ledger implements the book *)

\* What the newest open position holds.
Held == HeldAt(Newest(OpenPositions))

OneOpen == \A i, j \in OpenPositions : i = j

\* A buy of this quantity stays within the cap, a sell within what is held.
Backed(s, q) == q > 0 /\ IF s = "BUY" THEN Held + q <= QtyCap ELSE q <= Held

\* A decision to be applied is still right.
PlanFits(d) ==
  /\ d.action \in {"INTENT", "REPRICE", "CANCEL"}
  /\ d.action = "INTENT" => d.old = 0 /\ ActiveIds = {}
  /\ d.action = "REPRICE" => ActiveIds = {d.old} /\ intents[d.old].side = d.side
  /\ d.action = "CANCEL" => d.old \in ActiveIds /\ d.new = 0
  /\ d.action # "CANCEL" =>
       /\ d.new \in Ids /\ d.new < nextId /\ intents[d.new].status = "NONE"
       /\ Backed(d.side, d.qty)
       /\ d.side = "BUY" => Held = 0

\* What a writer has read is still so.
SeesTables(w) ==
  /\ pc[w] = "expire" => \A r \in todo[w] : Active(r.id)
  /\ pc[w] = "fillcommit" => txn[w].at = Newest(OpenPositions) /\ txn[w].held = Held
  /\ pc[w] \in {"buy", "sell"} => view[w].held = Held
  /\ pc[w] = "sell" => view[w].buy = Newest(ActiveOf("BUY"))
  /\ pc[w] = "apply" => PlanFits(plan[w])

Sound ==
  /\ OneOpen
  /\ Held <= QtyCap
  /\ \A id \in Ids : id >= nextId => intents[id].status = "NONE"
  /\ \A id \in ActiveIds : Backed(intents[id].side, intents[id].qty)
  /\ \A w \in Writers : SeesTables(w)

BookInv == OneActiveInv /\ FillInv /\ Sound

\* What all open positions hold is what the newest one holds.
LEMMA InventoryIsHeld ==
  ASSUME TypeOK, OneOpen
  PROVE  Inventory = Held /\ Held \in Nat
<1> DEFINE at == Newest(OpenPositions)
           qtys == [i \in DOMAIN positions |-> positions[i].qty]
<1>1. at \in Nat /\ Held \in Nat
  BY NewestPosition DEF TypeOK, Held
<1>2. DOMAIN positions = 1..Len(positions) /\ Len(positions) \in Nat
  BY LenProperties DEF TypeOK
<1>3. CASE OpenPositions = {}
  <2>1. at = 0
    BY <1>3, NewestType
  <2>2. Held = 0
    BY <2>1 DEF Held, HeldAt
  <2>3. Inventory = 0
    BY <1>3, SumOfOne DEF Inventory
  <2> QED
    BY <2>2, <2>3
<1>4. ASSUME NEW i \in OpenPositions
      PROVE  Inventory = Held
  <2>1. OpenPositions \subseteq {i} /\ i \in DOMAIN positions /\ i # 0 /\ i \in Nat
    BY <1>2 DEF OneOpen, OpenPositions
  <2>2. at = i
    BY <2>1, NewestOfOne, NewestType
  <2>3. Held = positions[i].qty /\ qtys[i] = positions[i].qty
    BY <2>1, <2>2 DEF Held, HeldAt
  <2>4. SumOver(OpenPositions, qtys) = qtys[i]
    <3> HIDE DEF qtys
    <3> QED
      BY <1>1, <2>1, <2>3, SumOfOne
  <2> QED
    BY <2>3, <2>4 DEF Inventory
<1> QED
  BY <1>1, <1>3, <1>4

\* A fill within what is held moves what is held by as much.
LEMMA FilledHeld ==
  ASSUME TypeOK, OneOpen, NEW t \in Txn, t.at = Newest(OpenPositions), t.held = Held,
         NEW q \in Nat \ {0}, intents[t.id].side # "BUY" => q <= Held,
         positions' = FilledPositions(t, q), TypeOK'
  PROVE  /\ OneOpen'
         /\ Held' = IF intents[t.id].side = "BUY" THEN Held + q ELSE Held - q
<1> DEFINE at == Newest(OpenPositions)
           new == IF intents[t.id].side = "BUY" THEN Held + q ELSE Held - q
<1>1. DOMAIN positions = 1..Len(positions) /\ Len(positions) \in Nat
  BY LenProperties DEF TypeOK
<1>2. \A i \in DOMAIN positions : positions[i] \in PositionRow
  BY <1>1, ElementOfSeq DEF TypeOK
<1>3. Held \in Nat /\ new \in Nat
  BY InventoryIsHeld
<1>4. OpenPositions \subseteq {at} /\ at \in OpenPositions \cup {0}
  <2>1. \A i \in OpenPositions : i \in Nat /\ OpenPositions \subseteq {i}
    BY <1>1 DEF OneOpen, OpenPositions
  <2> QED
    BY <2>1, NewestOfOne, NewestType
\* What is held is that of the one open position, if there is one.
<1>5. ASSUME NEW i, i \in Nat, OpenPositions' = {i}, positions'[i].qty = new, i # 0
      PROVE  OneOpen' /\ Held' = new
  <2>1. Newest(OpenPositions)' = i
    BY <1>5, NewestOfOne, NewestType
  <2> QED
    BY <1>5, <2>1 DEF OneOpen, Held, HeldAt
<1>6. CASE at = 0
  <2>1. OpenPositions = {} /\ Held = 0
    <3>1. 0 \notin OpenPositions
      BY <1>1 DEF OpenPositions
    <3> QED
      BY <1>4, <1>6, <3>1 DEF Held, HeldAt
  <2>2. intents[t.id].side = "BUY"
    BY <2>1
  <2> DEFINE row == [qty |-> q, open |-> TRUE]
             n == Len(positions) + 1
  <2>3. positions' = Append(positions, row)
    BY <1>6, <2>2 DEF FilledPositions
  <2>4. /\ DOMAIN positions' = 1..n /\ positions'[n] = row
        /\ \A i \in 1..Len(positions) : positions'[i] = positions[i]
    <3>1. positions \in Seq(PositionRow) /\ row \in PositionRow
      BY DEF TypeOK, PositionRow
    <3> HIDE DEF row
    <3> QED
      BY <1>1, <2>3, <3>1, AppendProperties, LenProperties
  <2>5. OpenPositions' = {n}
    BY <1>1, <2>1, <2>4 DEF OpenPositions
  <2>6. positions'[n].qty = new
    BY <2>1, <2>2, <2>4
  <2> QED
    BY <1>5, <1>1, <2>5, <2>6
<1>7. CASE at # 0
  <2> DEFINE row == positions[at]
             bought == [row EXCEPT !.qty = new]
             sold == [row EXCEPT !.qty = new, !.open = @ /\ new > 0]
  <2>1. OpenPositions = {at} /\ at \in DOMAIN positions /\ row.open /\ row \in PositionRow
        /\ at \in Nat
    BY <1>1, <1>2, <1>4, <1>7 DEF OpenPositions
  <2>2. CASE intents[t.id].side = "BUY"
    <3>1. positions' = [positions EXCEPT ![at] = bought]
      BY <1>7, <2>2 DEF FilledPositions
    <3>2. bought.qty = new /\ bought.open
      BY <1>3, <2>1 DEF PositionRow
    <3>3. OpenPositions' = {at} /\ positions'[at].qty = new
      <4> HIDE DEF bought, new, row
      <4> QED
        BY <2>1, <3>1, <3>2 DEF OpenPositions
    <3> QED
      BY <1>5, <1>7, <2>1, <3>3
  <2>3. CASE intents[t.id].side # "BUY"
    <3>1. positions' = [positions EXCEPT ![at] = sold]
      <4>1. t.held - Lower(q, t.held) = new
        BY <1>3, <2>3 DEF Lower
      <4> QED
        BY <1>7, <2>3, <4>1 DEF FilledPositions
    <3>2. sold.qty = new /\ (sold.open <=> new > 0)
      <4> HIDE DEF new
      <4> QED
        BY <1>3, <2>1 DEF PositionRow
    <3>3. /\ positions'[at] = sold /\ DOMAIN positions' = DOMAIN positions
          /\ \A i \in DOMAIN positions : i # at => positions'[i] = positions[i]
      <4> HIDE DEF sold
      <4> QED
        BY <2>1, <3>1
    <3>4. OpenPositions' = IF new > 0 THEN {at} ELSE {}
      <4> HIDE DEF sold, new
      <4> QED
        BY <2>1, <3>2, <3>3 DEF OpenPositions
    <3>5. CASE new > 0
      BY <1>5, <1>7, <2>1, <3>2, <3>3, <3>4, <3>5
    <3>6. CASE ~(new > 0)
      <4>1. OpenPositions' = {} /\ new = 0
        BY <1>3, <3>4, <3>6
      <4>2. Newest(OpenPositions)' = 0
        BY <4>1, NewestType
      <4> QED
        BY <4>1, <4>2 DEF OneOpen, Held, HeldAt
    <3> QED
      BY <3>5, <3>6
  <2> QED
    BY <2>2, <2>3
<1> QED
  BY <1>6, <1>7

\* An active intent is stopped.
LEMMA StopStep ==
  ASSUME NEW o \in ActiveIds, NEW how \in {"EXPIRED", "CANCEL_REQUESTED"},
         intents'[o].status = how, intents'[o].side = intents[o].side,
         \A id \in Ids \ {o} : intents'[id] = intents[id],
         UNCHANGED positions
  PROVE  Book!Next
<1>1. o \in Book!Working
  BY DEF Book!Working, ActiveIds, Active
<1>2. UNCHANGED Inventory
  BY DEF Inventory, OpenPositions
<1>3. Book!Stop(o, how)
  BY <1>1, <1>2 DEF Book!Stop, ActiveIds, Active
<1> QED
  BY <1>3 DEF Book!Next, ActiveIds

\* An active intent is filled, in part or in full.
LEMMA FillStep ==
  ASSUME TypeOK, NEW o \in ActiveIds, NEW q \in 1..intents[o].qty,
         intents'[o].side = intents[o].side,
         intents'[o].status = IF q = intents[o].qty THEN "FILLED" ELSE "ACTIVE",
         q # intents[o].qty => intents'[o].qty = intents[o].qty - q,
         \A id \in Ids \ {o} : intents'[id] = intents[id],
         Inventory' = IF intents[o].side = "BUY" THEN Inventory + q ELSE Inventory - q
  PROVE  Book!Next
<1>1. o \in Book!Working /\ o \in Ids /\ intents[o].status = "ACTIVE" /\ intents[o].qty \in Nat
  BY DEF Book!Working, ActiveIds, Active, TypeOK, IntentRow
<1> DEFINE left(id) == IF Active(id) THEN intents[id].qty ELSE 0
           status == [id \in Ids |-> intents[id].status]
           remaining == [id \in Ids |-> left(id)]
<1>2. left(o) = intents[o].qty /\ remaining[o] = intents[o].qty /\ status[o] = "ACTIVE"
  BY <1>1 DEF Active
<1>3. remaining' = [remaining EXCEPT ![o] = remaining[o] - q]
  <2>1. left(o)' = intents[o].qty - q
    BY <1>1 DEF Active
  <2>2. \A id \in Ids \ {o} : left(id)' = left(id)
    BY DEF Active
  <2> HIDE DEF left
  <2> QED
    BY <1>1, <1>2, <2>1, <2>2
<1>4. status' = [status EXCEPT ![o] = IF q = remaining[o] THEN "FILLED" ELSE status[o]]
  BY <1>1, <1>2
<1>5. [id \in Ids |-> intents[id].side]' = [id \in Ids |-> intents[id].side]
  OBVIOUS
<1>6. Book!Fill(o, q)
  BY <1>1, <1>2, <1>3, <1>4, <1>5 DEF Book!Fill
<1>7. q \in 1..(IF Active(o) THEN intents[o].qty ELSE 0)
  BY <1>1 DEF Active
<1> QED
  BY <1>1, <1>6, <1>7 DEF Book!Next

\* An intent is created, on its own or in the place of the active one.
LEMMA PlaceStep ==
  ASSUME TypeOK, OneOpen, NEW o \in Ids, NEW s \in Sides, NEW q \in Nat,
         ActiveIds = {}, intents[o].status = "NONE",
         Backed(s, q), s = "BUY" => Held = 0,
         intents'[o].status = "ACTIVE", intents'[o].side = s, intents'[o].qty = q,
         \A id \in Ids \ {o} : intents'[id] = intents[id],
         UNCHANGED positions
  PROVE  Book!Next
<1>1. Inventory = Held /\ Held \in Nat /\ QtyCap \in Nat
  BY InventoryIsHeld, SizingAssumption
<1>2. UNCHANGED Inventory
  BY DEF Inventory, OpenPositions
<1>3. Book!Working = {}
  BY DEF Book!Working, ActiveIds, Active
<1>4. Book!MayPlace(s, q)
  BY <1>1 DEF Book!MayPlace, Backed, Sides
<1>5. Book!Place(o, s, q)
  BY <1>2, <1>3, <1>4 DEF Book!Place, Active
<1>6. q \in 1..(QtyCap + Inventory)
  BY <1>1 DEF Backed
<1> QED
  BY <1>5, <1>6 DEF Book!Next, Sides

LEMMA ReplaceStep ==
  ASSUME TypeOK, OneOpen, NEW old \in Ids, NEW o \in Ids, NEW q \in Nat,
         ActiveIds = {old}, intents[o].status = "NONE",
         Backed(intents[old].side, q), intents[old].side = "BUY" => Held = 0,
         intents'[o].status = "ACTIVE", intents'[o].side = intents[old].side,
         intents'[o].qty = q,
         intents'[old].status = "REPLACED", intents'[old].side = intents[old].side,
         \A id \in Ids \ {old, o} : intents'[id] = intents[id],
         UNCHANGED positions
  PROVE  Book!Next
<1>1. Inventory = Held /\ Held \in Nat /\ QtyCap \in Nat
  BY InventoryIsHeld, SizingAssumption
<1>2. UNCHANGED Inventory
  BY DEF Inventory, OpenPositions
<1>3. Book!Working = {old} /\ intents[old].status = "ACTIVE"
  BY DEF Book!Working, ActiveIds, Active
<1>4. intents[old].side \in Sides
  BY DEF TypeOK, IntentRow
<1>5. Book!MayPlace(intents[old].side, q)
  BY <1>1 DEF Book!MayPlace, Backed
<1>6. Book!Replace(old, o, q)
  BY <1>2, <1>3, <1>5 DEF Book!Replace, Active
<1>7. q \in 1..(QtyCap + Inventory)
  BY <1>1, <1>4 DEF Backed, Sides
<1> QED
  BY <1>6, <1>7 DEF Book!Next

\* A step that leaves what is shown of every row, and the positions, is none of
\* the book's.
LEMMA NoStep ==
  ASSUME \A id \in Ids : /\ intents'[id].status = intents[id].status
                         /\ intents'[id].side = intents[id].side
                         /\ intents'[id].qty = intents[id].qty,
         UNCHANGED positions
  PROVE  UNCHANGED Book!vars
<1>1. UNCHANGED Inventory
  BY DEF Inventory, OpenPositions
<1> QED
  BY <1>1 DEF Book!vars, Active

LEMMA InitBook == Init => BookInv /\ Book!Init
<1> SUFFICES ASSUME Init PROVE BookInv /\ Book!Init
  OBVIOUS
<1>1. OneActiveInv /\ FillInv /\ TypeOK
  BY InitOneActive, InitFill, InitType
<1>2. OpenPositions = {} /\ ActiveIds = {}
  BY DEF Init, OpenPositions, ActiveIds, Active, NoRow
<1>3. Held = 0
  BY <1>2, NewestType DEF Held, HeldAt
<1>4. Sound
  BY <1>2, <1>3, SizingAssumption DEF Init, Sound, OneOpen, SeesTables, NoRow, Procs
<1>5. Inventory = 0
  BY <1>2, SumOfOne DEF Inventory
<1>6. Book!Init
  BY <1>5 DEF Init, Book!Init, NoRow, Active
<1> QED
  BY <1>1, <1>4, <1>6 DEF BookInv

\* If writers take turns, what another one has read is still so.
LEMMA OthersSee ==
  ASSUME TakesTurns, TypeOK, Sound, Procs = Writers, NEW w \in Writers,
         WriterStep(w) \/ Abort(w),
         pc[w] # "idle" \/ UNCHANGED <<intents, positions, nextId>>
  PROVE  \A v \in Writers : v # w => SeesTables(v)'
<1> SUFFICES ASSUME NEW v \in Writers, v # w PROVE SeesTables(v)'
  OBVIOUS
<1>1. /\ pc'[v] = pc[v] /\ todo'[v] = todo[v] /\ txn'[v] = txn[v]
      /\ view'[v] = view[v] /\ plan'[v] = plan[v]
  BY OthersKept
<1>2. CASE pc[w] # "idle"
  BY <1>1, <1>2 DEF TakesTurns, SeesTables
<1>3. CASE UNCHANGED <<intents, positions, nextId>>
  <2>1. UNCHANGED <<ActiveIds, ActiveOf("BUY"), Held, Newest(OpenPositions)>>
    BY <1>3 DEF ActiveIds, ActiveOf, Active, Held, HeldAt, OpenPositions
  <2> QED
    BY <1>1, <1>3, <2>1 DEF Sound, SeesTables, PlanFits, Backed, Active
<1> QED
  BY <1>2, <1>3

\* A step that leaves intents and positions as they are.
LEMMA TablesKept ==
  ASSUME TypeOK, Sound, UNCHANGED <<intents, positions>>, nextId' \in {nextId, nextId + 1},
         \A w \in Writers : SeesTables(w)'
  PROVE  Sound' /\ UNCHANGED Book!vars
<1>1. UNCHANGED <<ActiveIds, Held, OpenPositions>>
  BY DEF ActiveIds, Active, Held, HeldAt, OpenPositions
<1>2. nextId \in Int /\ \A id \in Ids : id \in Int
  BY LedgerAssumption DEF TypeOK, Ids
<1>3. \A id \in Ids : id >= nextId' => id >= nextId
  BY <1>2
<1> QED
  BY <1>1, <1>3, NoStep DEF Sound, OneOpen, Backed

\* At most one intent is active: a query for the newest of a side finds it.
LEMMA NewestActive ==
  ASSUME TypeOK, AtMostOneActive, NEW side
  PROVE  LET n == Newest(ActiveOf(side))
         IN /\ n \in Nat
            /\ n = 0 => ActiveOf(side) = {}
            /\ n # 0 => n \in ActiveOf(side) /\ ActiveIds = {n}
<1> DEFINE n == Newest(ActiveOf(side))
<1>1. /\ ActiveOf(side) \subseteq ActiveIds /\ ActiveIds \subseteq Ids
      /\ Ids \subseteq Nat /\ 0 \notin Ids
  BY DEF ActiveOf, ActiveIds, Ids
<1>2. n \in ActiveOf(side) \cup {0}
  BY NewestType
<1>3. \A i \in ActiveOf(side) : ActiveOf(side) \subseteq {i} /\ ActiveIds = {i}
  BY <1>1 DEF AtMostOneActive
<1>4. \A i \in ActiveOf(side) : ActiveOf(side) \subseteq {n}
  BY <1>1, <1>3, NewestOfOne
<1> HIDE DEF n
<1>5. CASE ActiveOf(side) = {}
  BY <1>2, <1>5 DEF n
<1>6. ASSUME NEW i \in ActiveOf(side)
      PROVE  n \in ActiveOf(side) /\ n \in Nat /\ n # 0 /\ ActiveIds = {n}
  <2>1. n = i
    BY <1>4, <1>6
  <2> QED
    BY <1>1, <1>3, <2>1
<1> QED
  BY <1>5, <1>6 DEF n

\* What evaluate decides fits the tables, if what the writer has read is so.
LEMMA DecisionFits ==
  ASSUME TypeOK, AtMostOneActive, NEW held, held = Held, Held \in Nat,
         NEW buy, buy = Newest(ActiveOf("BUY")), NEW sell, sell = Newest(ActiveOf("SELL")),
         NEW d \in Decisions(held, buy, sell), d.action # "HOLD"
  PROVE  /\ d.action \in {"INTENT", "REPRICE", "CANCEL"}
         /\ d.action = "INTENT" => d.old = 0 /\ ActiveIds = {}
         /\ d.action = "REPRICE" => ActiveIds = {d.old} /\ intents[d.old].side = d.side
         /\ d.action = "CANCEL" => d.old \in ActiveIds /\ d.new = 0
         /\ d.action # "CANCEL" =>
              d.new = nextId /\ Backed(d.side, d.qty) /\ (d.side = "BUY" => Held = 0)
<1>1. /\ buy \in Nat /\ (buy = 0 => ActiveOf("BUY") = {})
      /\ buy # 0 => buy \in ActiveOf("BUY") /\ ActiveIds = {buy}
  BY NewestActive
<1>2. /\ sell \in Nat /\ (sell = 0 => ActiveOf("SELL") = {})
      /\ sell # 0 => sell \in ActiveOf("SELL") /\ ActiveIds = {sell}
  BY NewestActive
<1>3. ActiveIds = ActiveOf("BUY") \cup ActiveOf("SELL")
  BY DEF ActiveOf, ActiveIds, TypeOK, IntentRow, Sides
<1>4. \A old : /\ Cancel(old).action = "CANCEL" /\ Cancel(old).old = old
               /\ Cancel(old).new = 0
  BY DEF Cancel
<1>5. Hold.action = "HOLD"
  BY DEF Hold
<1>6. \A s, q : /\ Create(s, q).action = "INTENT" /\ Create(s, q).old = 0
                /\ Create(s, q).new = nextId /\ Create(s, q).side = s /\ Create(s, q).qty = q
  BY DEF Create
<1>7. \A old, s, q :
        /\ Reprice(old, s, q).action = "REPRICE" /\ Reprice(old, s, q).old = old
        /\ Reprice(old, s, q).new = nextId /\ Reprice(old, s, q).side = s
        /\ Reprice(old, s, q).qty = q
  BY DEF Reprice
<1>8. CASE held > 0
  <2>1. CASE buy # 0
    <3>1. d = Cancel(buy)
      BY <1>8, <2>1 DEF Decisions
    <3> QED
      BY <1>1, <1>4, <2>1, <3>1
  <2>2. CASE buy = 0
    <3>1. d = IF sell = 0 THEN Create("SELL", ExitQty(held))
                          ELSE Reprice(sell, "SELL", ExitQty(held))
      BY <1>5, <1>8, <2>2 DEF Decisions, SellSide
    <3>2. Backed("SELL", ExitQty(held))
      BY <1>8, ExitQtyWithin DEF Backed
    <3>3. CASE sell = 0
      BY <1>1, <1>2, <1>3, <1>6, <2>2, <3>1, <3>2, <3>3
    <3>4. CASE sell # 0
      <4>1. intents[sell].side = "SELL"
        BY <1>2, <3>4 DEF ActiveOf
      <4> QED
        BY <1>2, <1>7, <3>1, <3>2, <3>4, <4>1
    <3> QED
      BY <3>3, <3>4
  <2> QED
    BY <2>1, <2>2
<1>9. CASE ~(held > 0)
  <2>0. Held = 0
    BY <1>9
  <2>1. CASE sell # 0
    <3>1. d = Cancel(sell)
      BY <1>9, <2>1 DEF Decisions
    <3> QED
      BY <1>2, <1>4, <2>1, <3>1
  <2>2. CASE sell = 0
    <3>1. d \in BuySide(buy)
      BY <1>9, <2>2 DEF Decisions
    <3>2. \A q \in BuyQtys : Backed("BUY", q)
      BY <2>0, BuyQtysCapped, BuyQtysType, SizingAssumption DEF Backed
    <3>3. CASE buy = 0
      <4>1. PICK q \in BuyQtys : d = Create("BUY", q)
        BY <1>5, <3>1, <3>3 DEF BuySide
      <4> QED
        BY <1>1, <1>2, <1>3, <1>6, <2>0, <2>2, <3>2, <3>3, <4>1
    <3>4. CASE buy # 0
      <4>1. d = Cancel(buy) \/ \E q \in BuyQtys : d = Reprice(buy, "BUY", q)
        BY <1>5, <3>1, <3>4 DEF BuySide
      <4>2. intents[buy].side = "BUY"
        BY <1>1, <3>4 DEF ActiveOf
      <4>3. CASE d = Cancel(buy)
        BY <1>1, <1>4, <3>4, <4>3
      <4>4. ASSUME NEW q \in BuyQtys, d = Reprice(buy, "BUY", q)
            PROVE  /\ d.action = "REPRICE" /\ ActiveIds = {d.old}
                   /\ intents[d.old].side = d.side /\ d.new = nextId
                   /\ Backed(d.side, d.qty)
        BY <1>1, <1>7, <3>2, <3>4, <4>2, <4>4
      <4> QED
        BY <2>0, <4>1, <4>3, <4>4
    <3> QED
      BY <3>3, <3>4
  <2> QED
    BY <2>1, <2>2
<1> QED
  BY <1>8, <1>9

\* The steps of a writer that write neither intents nor positions.
LEMMA ReadingStep ==
  ASSUME BookInv, TakesTurns, Fillers = {}, Operators = {}, NEW w \in Writers,
         BeginCycle(w) \/ ListActive(w) \/ StartFill(w) \/ ReadPosition(w) \/ EndFills(w)
           \/ ReadHeld(w) \/ ReadActiveBuy(w) \/ Evaluate(w) \/ Abort(w)
  PROVE  Sound' /\ UNCHANGED Book!vars
<1>0. TypeOK /\ Sound /\ OneActiveInv /\ Procs = Writers /\ nextId \in Nat /\ OneOpen
  BY LedgerAssumption DEF BookInv, OneActiveInv, Procs, TypeOK, Sound
<1>1. UNCHANGED <<intents, positions>>
  BY DEF BeginCycle, ListActive, StartFill, ReadPosition, EndFills, ReadHeld, ReadActiveBuy,
         Evaluate, Abort
<1>2. nextId' \in {nextId, nextId + 1} /\ (nextId' = nextId \/ Evaluate(w))
  BY DEF BeginCycle, ListActive, StartFill, ReadPosition, EndFills, ReadHeld, ReadActiveBuy,
         Evaluate, Abort
<1>3. UNCHANGED <<ActiveIds, ActiveOf("BUY"), Held, Newest(OpenPositions)>>
  BY <1>1 DEF ActiveIds, ActiveOf, Active, Held, HeldAt, OpenPositions
<1>4. SeesTables(w)'
  <2>1. CASE BeginCycle(w)
    <3>1. pc'[w] = "expire" /\ todo'[w] = Rows({id \in ActiveIds : intents[id].due})
      BY <1>0, <2>1 DEF BeginCycle, Goto, TypeOK
    <3>2. \A r \in Rows({id \in ActiveIds : intents[id].due}) : Active(r.id)
      BY DEF Rows, ActiveIds
    <3> QED
      BY <1>1, <3>1, <3>2 DEF SeesTables, Active
  <2>2. CASE ListActive(w) \/ StartFill(w) \/ EndFills(w) \/ Abort(w)
    <3>1. pc'[w] \in {"fill", "fillpos", "position", "idle"}
      BY <1>0, <2>2 DEF ListActive, StartFill, EndFills, Abort, Goto, TypeOK
    <3> QED
      BY <3>1 DEF SeesTables
  <2>3. CASE ReadPosition(w)
    <3>1. pc'[w] = "fillcommit"
      BY <1>0, <2>3 DEF ReadPosition, Goto, TypeOK
    <3>2. txn'[w].at = Newest(OpenPositions) /\ txn'[w].held = Held
      BY <1>0, <2>3 DEF ReadPosition, TypeOK, Txn, Held
    <3> QED
      BY <1>3, <3>1, <3>2 DEF SeesTables
  <2>4. CASE ReadHeld(w)
    <3>1. pc'[w] = "buy" /\ view'[w].held = Held
      BY <1>0, <2>4 DEF ReadHeld, Goto, TypeOK, View, Held
    <3> QED
      BY <1>3, <3>1 DEF SeesTables
  <2>5. CASE ReadActiveBuy(w)
    <3>1. pc[w] = "buy" /\ pc'[w] = "sell"
      BY <1>0, <2>5 DEF ReadActiveBuy, Goto, TypeOK
    <3>2. view'[w].buy = Newest(ActiveOf("BUY")) /\ view'[w].held = view[w].held
      BY <1>0, <2>5 DEF ReadActiveBuy, TypeOK, View
    <3> QED
      BY <1>0, <1>3, <3>1, <3>2 DEF Sound, SeesTables
  <2>6. CASE Evaluate(w)
    <3> DEFINE sell == Newest(ActiveOf("SELL"))
    <3>1. PICK d \in Decisions(view[w].held, view[w].buy, sell) :
            /\ d.new # 0 => nextId \in Ids
            /\ nextId' = IF d.new # 0 THEN nextId + 1 ELSE nextId
            /\ plan' = [plan EXCEPT ![w] = d]
            /\ pc' = [pc EXCEPT ![w] = IF d.action = "HOLD" THEN "idle" ELSE "apply"]
      BY <2>6 DEF Evaluate
    <3>2. /\ view[w].held = Held /\ view[w].buy = Newest(ActiveOf("BUY"))
          /\ plan'[w] = d /\ pc'[w] = IF d.action = "HOLD" THEN "idle" ELSE "apply"
      BY <1>0, <2>6, <3>1 DEF Evaluate, Sound, SeesTables, TypeOK
    <3>3. CASE d.action = "HOLD"
      BY <3>2, <3>3 DEF SeesTables
    <3>4. CASE d.action # "HOLD"
      <4>1. Held \in Nat /\ AtMostOneActive
        BY <1>0, InventoryIsHeld DEF OneActiveInv
      <4>2. /\ d.action \in {"INTENT", "REPRICE", "CANCEL"}
            /\ d.action = "INTENT" => d.old = 0 /\ ActiveIds = {}
            /\ d.action = "REPRICE" => ActiveIds = {d.old} /\ intents[d.old].side = d.side
            /\ d.action = "CANCEL" => d.old \in ActiveIds /\ d.new = 0
            /\ d.action # "CANCEL" =>
                 d.new = nextId /\ Backed(d.side, d.qty) /\ (d.side = "BUY" => Held = 0)
        <5> HIDE DEF sell
        <5> QED
          BY <1>0, <3>1, <3>2, <3>4, <4>1, DecisionFits DEF sell
      <4>3. d.action # "CANCEL" =>
              /\ d.new \in Ids /\ d.new < nextId' /\ intents[d.new].status = "NONE"
        <5>0. nextId # 0
          BY <1>0, LedgerAssumption DEF TypeOK
        <5>1. d.action # "CANCEL" => d.new = nextId /\ nextId \in Ids
          BY <3>1, <4>2, <5>0
        <5> QED
          BY <1>0, <3>1, <5>1 DEF Sound, Ids
      <4>4. PlanFits(d)'
        BY <1>1, <1>3, <4>2, <4>3 DEF PlanFits, Backed
      <4> QED
        BY <3>2, <3>4, <4>4 DEF SeesTables, PlanFits
    <3> QED
      BY <3>3, <3>4
  <2> QED
    BY <2>1, <2>2, <2>3, <2>4, <2>5, <2>6
<1>5. \A v \in Writers : v # w => SeesTables(v)'
  <2>1. WriterStep(w) \/ Abort(w)
    BY DEF WriterStep
  <2>2. pc[w] # "idle" \/ nextId' = nextId
    BY <1>2 DEF Evaluate
  <2> QED
    BY <1>0, <1>1, <2>1, <2>2, OthersSee
<1> QED
  BY <1>0, <1>1, <1>2, <1>4, <1>5, TablesKept

\* The expiry transaction stops the active intent, or finds none.
LEMMA ExpireStep ==
  ASSUME BookInv, TypeOK', TakesTurns, Fillers = {}, Operators = {}, NEW w \in Writers, Expire(w)
  PROVE  Sound' /\ (Book!Next \/ UNCHANGED Book!vars)
<1>0. TypeOK /\ Sound /\ AtMostOneActive /\ Procs = Writers
  BY DEF BookInv, OneActiveInv, Procs
<1>1. UNCHANGED <<positions, nextId>> /\ pc[w] = "expire" /\ pc'[w] \in {"idle", "list", "position"}
  BY <1>0 DEF Expire, Goto, TypeOK
<1>2. UNCHANGED <<Held, OpenPositions>>
  BY <1>1 DEF Held, HeldAt, OpenPositions
<1>3. \A v \in Writers : SeesTables(v)'
  <2>1. SeesTables(w)'
    BY <1>1 DEF SeesTables
  <2> QED
    BY <1>0, <1>1, <2>1, OthersSee DEF WriterStep
<1> DEFINE Listed(id) == \E r \in todo[w] : r.id = id
<1>4. \A id \in Ids : intents'[id] = IF Listed(id) THEN [intents[id] EXCEPT !.status = "EXPIRED"]
                                                   ELSE intents[id]
  BY DEF Expire
<1>5. \A id \in Ids : Listed(id) => id \in ActiveIds
  BY <1>0, <1>1 DEF Sound, SeesTables, ActiveIds
<1> HIDE DEF Listed
<1>6. \A id \in Ids : Listed(id) =>
        /\ intents'[id].status = "EXPIRED" /\ intents'[id].side = intents[id].side
  BY <1>0, <1>4 DEF TypeOK, IntentRow
<1>7. Sound'
  <2>1. \A id \in ActiveIds' : id \in ActiveIds /\ intents'[id] = intents[id]
    BY <1>4, <1>6 DEF ActiveIds, Active
  <2>2. \A id \in Ids : id >= nextId => intents'[id].status = "NONE"
    BY <1>0, <1>4, <1>5 DEF Sound, ActiveIds, Active
  <2> QED
    BY <1>0, <1>1, <1>2, <1>3, <2>1, <2>2 DEF Sound, OneOpen, Backed
<1>8. CASE \E o \in Ids : Listed(o)
  <2> PICK o \in Ids : Listed(o)
    BY <1>8
  <2>1. \A id \in Ids \ {o} : intents'[id] = intents[id]
    BY <1>0, <1>4, <1>5 DEF AtMostOneActive
  <2>2. o \in ActiveIds
    BY <1>5
  <2>3. Book!Next
    BY <1>1, <1>6, <2>1, <2>2, StopStep
  <2> QED
    BY <1>7, <2>3
<1>9. CASE \A o \in Ids : ~Listed(o)
  <2>1. UNCHANGED Book!vars
    BY <1>1, <1>4, <1>9, NoStep
  <2> QED
    BY <1>7, <2>1
<1> QED
  BY <1>8, <1>9

\* The clock changes nothing that is shown of a row.
LEMMA ClockStep ==
  ASSUME BookInv, NEW id \in Ids, TtlPasses(id)
  PROVE  Sound' /\ UNCHANGED Book!vars
<1>0. TypeOK /\ Sound
  BY DEF BookInv, OneActiveInv
<1>1. /\ UNCHANGED <<positions, nextId, pc, todo, txn, view, plan>>
      /\ intents' = [intents EXCEPT ![id].due = TRUE]
  BY DEF TtlPasses
<1>2. \A i \in Ids : /\ intents'[i].status = intents[i].status
                     /\ intents'[i].side = intents[i].side
                     /\ intents'[i].qty = intents[i].qty
  BY <1>0, <1>1 DEF TypeOK, IntentRow
<1>3. UNCHANGED Book!vars
  BY <1>1, <1>2, NoStep
<1>4. UNCHANGED <<Held, OpenPositions, ActiveIds, ActiveOf("BUY")>>
  BY <1>1, <1>2 DEF Held, HeldAt, OpenPositions, ActiveIds, ActiveOf, Active
<1>5. \A d : PlanFits(d) => PlanFits(d)'
  BY <1>1, <1>2, <1>4 DEF PlanFits, Backed, ActiveIds, Active
<1>6. ASSUME NEW w \in Writers
      PROVE  SeesTables(w)'
  <2>1. SeesTables(w) /\ todo[w] \subseteq [id : Ids, qty : Nat]
    BY <1>0 DEF Sound, TypeOK, Procs
  <2> QED
    BY <1>1, <1>2, <1>4, <1>5, <2>1 DEF SeesTables, Active
<1>7. \A i \in ActiveIds' : Backed(intents[i].side, intents[i].qty)' 
  BY <1>0, <1>2, <1>4 DEF Sound, Backed, ActiveIds
<1> QED
  BY <1>0, <1>1, <1>2, <1>3, <1>4, <1>6, <1>7 DEF Sound, OneOpen

\* The same of the next state.
LEMMA InventoryIsHeldNext == (TypeOK /\ OneOpen)' => (Inventory = Held)'
<1>1. TypeOK /\ OneOpen => Inventory = Held
  BY InventoryIsHeld
<1> QED
  BY <1>1, PTL

\* What a fill makes of the row of an intent that was not filled when it was read.
LEMMA FilledRowShows ==
  ASSUME NEW t \in Txn, intents[t.id] \in IntentRow,
         t.paper, t.ask \in 1..t.qty, t.status # "FILLED"
  PROVE  /\ Applied(t) = t.ask
         /\ FilledRow(t).side = intents[t.id].side
         /\ FilledRow(t).original = intents[t.id].original
         /\ FilledRow(t).status = IF t.ask = t.qty THEN "FILLED" ELSE intents[t.id].status
         /\ t.ask # t.qty => FilledRow(t).qty = t.qty - t.ask
<1> DEFINE row == intents[t.id]
           part == [row EXCEPT !.qty = t.qty - t.ask]
           full == [row EXCEPT !.status = "FILLED"]
<1>1. t.qty \in Nat /\ t.ask \in Nat /\ Applied(t) = t.ask
  BY DEF Txn, Applied, Lower
<1>2. FilledRow(t) = IF t.ask < t.qty THEN part ELSE full
  BY <1>1 DEF FilledRow
<1>3. /\ part.side = row.side /\ part.status = row.status /\ part.qty = t.qty - t.ask
      /\ part.original = row.original
      /\ full.side = row.side /\ full.status = "FILLED" /\ full.original = row.original
  BY DEF IntentRow
<1> HIDE DEF part, full
<1> QED
  BY <1>1, <1>2, <1>3

\* A fill about to commit works on what the tables still hold, and is covered.
FillFits(w) ==
  LET t == txn[w] IN
  /\ t.id \in Ids /\ t.paper /\ t.ask \in 1..t.qty /\ t.status # "FILLED"
  /\ t.at = Newest(OpenPositions) /\ t.held = Held
  /\ Backed(intents[t.id].side, t.qty)

\* Its commit moves the intent, its fills and what is held by the same quantity.
LEMMA CommitMoves ==
  ASSUME TypeOK, TypeOK', OneOpen, NEW w \in Procs, FillFits(w), CommitFill(w)
  PROVE  LET t == txn[w]
             q == t.ask
             s == intents[t.id].side
         IN  /\ t \in Txn /\ t.id \in Ids /\ q \in Nat \ {0}
             /\ t.at = Newest(OpenPositions) /\ t.held = Held
             /\ s # "BUY" => q <= Held
             /\ intents' = [intents EXCEPT ![t.id] = FilledRow(t)]
             /\ filled' = [filled EXCEPT ![t.id] = @ + q]
             /\ positions' = FilledPositions(t, q)
             /\ FilledRow(t).side = s
             /\ OneOpen' /\ Held' = IF s = "BUY" THEN Held + q ELSE Held - q
             /\ Inventory' = IF s = "BUY" THEN Inventory + q ELSE Inventory - q
<1> DEFINE t == txn[w]
           o == t.id
           q == t.ask
           s == intents[o].side
<1>0. t \in Txn
  BY DEF TypeOK
<1>1. /\ intents' = [intents EXCEPT ![o] = FilledRow(t)]
      /\ filled' = [filled EXCEPT ![o] = @ + Applied(t)]
      /\ positions' = FilledPositions(t, Applied(t))
  BY DEF CommitFill
<1>2. /\ o \in Ids /\ t.paper /\ q \in 1..t.qty /\ t.status # "FILLED" /\ Backed(s, t.qty)
      /\ t.at = Newest(OpenPositions) /\ t.held = Held
      /\ intents[o] \in IntentRow
  BY DEF FillFits, TypeOK
<1>3. Applied(t) = q /\ FilledRow(t).side = s
  BY <1>0, <1>2, FilledRowShows
<1>4. Held \in Nat /\ Inventory = Held /\ t.qty \in Nat /\ q \in Nat \ {0}
  BY <1>0, <1>2, InventoryIsHeld DEF Txn
<1> HIDE DEF s, q, o, t
<1>5. s # "BUY" => q <= Held
  BY <1>2, <1>4 DEF Backed
<1>6. OneOpen' /\ Held' = IF s = "BUY" THEN Held + q ELSE Held - q
  BY <1>0, <1>1, <1>2, <1>3, <1>4, <1>5, FilledHeld DEF s, o
<1>7. Inventory' = IF s = "BUY" THEN Inventory + q ELSE Inventory - q
  BY <1>4, <1>6, InventoryIsHeldNext
<1>8. /\ filled' = [filled EXCEPT ![o] = @ + q]
      /\ positions' = FilledPositions(t, q)
  BY <1>1, <1>3
<1> QED
  BY <1>0, <1>1, <1>2, <1>3, <1>4, <1>5, <1>6, <1>7, <1>8 DEF t, o, q, s

\* The commit of a fill fills the active intent.
LEMMA CommitStep ==
  ASSUME BookInv, TypeOK', TakesTurns, Fillers = {}, Operators = {}, NEW w \in Writers,
         CommitFill(w)
  PROVE  Sound' /\ Book!Next
<1> DEFINE t == txn[w]
           o == t.id
           q == t.ask
           s == intents[o].side
<1>0. /\ TypeOK /\ Sound /\ OneOpen /\ AtMostOneActive /\ Procs = Writers /\ ListedIsCurrent(w)
      /\ t \in Txn
  BY DEF BookInv, OneActiveInv, FillInv, Sound, Procs, TypeOK
<1>1. /\ pc[w] = "fillcommit" /\ pc'[w] = "fill" /\ nextId' = nextId
      /\ intents' = [intents EXCEPT ![o] = FilledRow(t)]
      /\ positions' = FilledPositions(t, Applied(t))
  BY <1>0 DEF CommitFill, Goto, TypeOK
<1>2. /\ o \in Ids /\ Active(o) /\ intents[o].qty = t.qty /\ t.paper
      /\ q \in 1..t.qty /\ t.status = "ACTIVE" /\ intents[o] \in IntentRow
  BY <1>0, <1>1 DEF ListedIsCurrent, TypeOK
<1>4. Backed(s, t.qty) /\ o \in ActiveIds /\ ActiveIds = {o}
  BY <1>0, <1>2 DEF Sound, ActiveIds, AtMostOneActive
<1>5. /\ Applied(t) = q /\ FilledRow(t).side = s
      /\ FilledRow(t).status = IF q = t.qty THEN "FILLED" ELSE "ACTIVE"
      /\ q # t.qty => FilledRow(t).qty = t.qty - q
  BY <1>0, <1>2, FilledRowShows DEF Active
<1>6. /\ intents'[o] = FilledRow(t)
      /\ \A id \in Ids \ {o} : intents'[id] = intents[id]
  BY <1>0, <1>1, <1>2 DEF TypeOK
<1>7. Held \in Nat /\ Inventory = Held /\ t.qty \in Nat /\ q \in Nat \ {0} /\ QtyCap \in Nat
  BY <1>0, <1>2, InventoryIsHeld, SizingAssumption DEF Txn
<1> HIDE DEF s, q, o, t
<1>3. FillFits(w)
  BY <1>0, <1>1, <1>2, <1>4 DEF FillFits, Sound, SeesTables, s, q, o, t
<1>8. OneOpen' /\ Held' = IF s = "BUY" THEN Held + q ELSE Held - q
  BY <1>0, <1>3, CommitMoves DEF s, q, o, t
<1>9. Inventory' = IF s = "BUY" THEN Inventory + q ELSE Inventory - q
  BY <1>0, <1>3, CommitMoves DEF s, q, o, t
<1>10. Held' <= QtyCap
  BY <1>0, <1>2, <1>4, <1>7, <1>8 DEF Sound, Backed
<1>11. Book!Next
  <2>1. /\ q \in 1..intents[o].qty
        /\ intents'[o].side = intents[o].side
        /\ intents'[o].status = IF q = intents[o].qty THEN "FILLED" ELSE "ACTIVE"
        /\ q # intents[o].qty => intents'[o].qty = intents[o].qty - q
    BY <1>2, <1>5, <1>6 DEF s
  <2> QED
    BY <1>0, <1>4, <1>6, <1>9, <2>1, FillStep DEF s
<1>12. \A v \in Writers : SeesTables(v)'
  <2>1. SeesTables(w)'
    BY <1>1 DEF SeesTables
  <2> QED
    BY <1>0, <1>1, <2>1, OthersSee DEF WriterStep
<1>13. \A id \in Ids : id >= nextId' => intents'[id].status = "NONE"
  BY <1>0, <1>1, <1>2, <1>6 DEF Sound, Active
<1>14. \A id \in ActiveIds' : id = o /\ q # t.qty
  BY <1>4, <1>5, <1>6 DEF ActiveIds, Active
<1>15. ASSUME NEW id \in Ids, id = o, q # t.qty
       PROVE  Backed(intents[id].side, intents[id].qty)'
  <2>1. intents'[id].side = s /\ intents'[id].qty = t.qty - q /\ t.qty - q > 0
    BY <1>2, <1>5, <1>6, <1>7, <1>15
  <2>2. t.qty > 0 /\ (s = "BUY" => Held + t.qty <= QtyCap) /\ (s # "BUY" => t.qty <= Held)
    BY <1>4 DEF Backed
  <2>3. (s = "BUY" => Held' + (t.qty - q) <= QtyCap) /\ (s # "BUY" => t.qty - q <= Held')
    BY <1>7, <1>8, <2>2
  <2> QED
    BY <2>1, <2>3 DEF Backed
<1>16. \A id \in ActiveIds' : Backed(intents[id].side, intents[id].qty)'
  BY <1>14, <1>15 DEF ActiveIds
<1> QED
  BY <1>8, <1>10, <1>11, <1>12, <1>13, <1>16 DEF Sound

\* Applying a decision that fits places, replaces or stops an order.
LEMMA ApplyStep ==
  ASSUME BookInv, TypeOK', TakesTurns, Fillers = {}, Operators = {}, NEW w \in Writers, Apply(w)
  PROVE  Sound' /\ Book!Next
<1> DEFINE d == plan[w]
<1>0. TypeOK /\ Sound /\ OneOpen /\ AtMostOneActive /\ Procs = Writers
  BY DEF BookInv, OneActiveInv, Sound, Procs
<1>1. nextId \in Int /\ \A id \in Ids : id \in Int
  BY <1>0, LedgerAssumption DEF TypeOK, Ids
<1>2. UNCHANGED <<positions, nextId>> /\ pc[w] = "apply" /\ pc'[w] = "idle"
  <2>1. UNCHANGED <<positions, nextId>> /\ Goto(w, "apply", "idle")
    BY Zenon DEF Apply
  <2> QED
    BY <1>0, <2>1 DEF Goto, TypeOK
<1>3. d \in Plan
  BY <1>0 DEF TypeOK
<1>4. PlanFits(d)
  BY <1>0, <1>2 DEF Sound, SeesTables
<1>5. /\ d.action \in {"INTENT", "REPRICE", "CANCEL"}
      /\ d.side \in Sides /\ d.qty \in Nat
  BY <1>3, <1>4 DEF PlanFits, Plan
<1> DEFINE created(id) == NewRow(d)
           replaced(id) == [intents[id] EXCEPT !.status = "REPLACED", !.by = d.new]
           stopped(id) == [intents[id] EXCEPT !.status = "CANCEL_REQUESTED"]
<1>6. intents' = [id \in Ids |-> CASE id = d.new -> created(id)
                                   [] id = d.old /\ d.action = "REPRICE" -> replaced(id)
                                   [] id = d.old /\ d.action = "CANCEL" -> stopped(id)
                                   [] OTHER -> intents[id]]
  BY Zenon DEF Apply
<1> HIDE DEF d, created, replaced, stopped
<1>7. d.action = "INTENT" \/ d.old # d.new
  BY <1>4, <1>5 DEF PlanFits, ActiveIds, Active, Ids
<1>8. \A id \in Ids : id = d.new => intents'[id] = created(id)
  BY <1>6, <1>7
<1>9. \A id \in Ids : id = d.old /\ id # d.new /\ d.action = "REPRICE" =>
        intents'[id] = replaced(id)
  BY <1>6
<1>10. \A id \in Ids : id = d.old /\ id # d.new /\ d.action = "CANCEL" =>
        intents'[id] = stopped(id)
  BY <1>6
<1>11. \A id \in Ids : id # d.new /\ id # d.old => intents'[id] = intents[id]
  BY <1>6
<1>12. /\ d.new \in Ids => intents'[d.new] = NewRow(d)
       /\ d.old \in Ids /\ d.old # d.new /\ d.action = "REPRICE" =>
            intents'[d.old] = [intents[d.old] EXCEPT !.status = "REPLACED", !.by = d.new]
       /\ d.old \in Ids /\ d.old # d.new /\ d.action = "CANCEL" =>
            intents'[d.old] = [intents[d.old] EXCEPT !.status = "CANCEL_REQUESTED"]
  BY Zenon, <1>8, <1>9, <1>10 DEF created, replaced, stopped
<1>13. /\ NewRow(d).status = "ACTIVE" /\ NewRow(d).side = d.side /\ NewRow(d).qty = d.qty
  BY DEF NewRow
<1>14. UNCHANGED <<Held, OpenPositions>>
  BY <1>2 DEF Held, HeldAt, OpenPositions
<1>15. \A v \in Writers : SeesTables(v)'
  <2>1. SeesTables(w)'
    BY <1>2 DEF SeesTables
  <2> QED
    BY <1>0, <1>2, <2>1, OthersSee DEF WriterStep
<1>16. /\ OneOpen' /\ Held' <= QtyCap
       /\ \A id \in Ids : Backed(intents[id].side, intents[id].qty)' <=>
                            Backed(intents'[id].side, intents'[id].qty)
  BY <1>0, <1>14 DEF Sound, OneOpen, Backed
<1>17. CASE d.action = "INTENT"
  <2>1. /\ d.old = 0 /\ ActiveIds = {} /\ d.new \in Ids /\ d.new < nextId
        /\ intents[d.new].status = "NONE" /\ Backed(d.side, d.qty)
        /\ d.side = "BUY" => Held = 0
    BY <1>4, <1>17 DEF PlanFits
  <2>2. \A id \in Ids \ {d.new} : intents'[id] = intents[id]
    BY <1>11, <2>1 DEF Ids
  <2>3. Book!Next
    BY <1>0, <1>2, <1>5, <1>12, <1>13, <2>1, <2>2, PlaceStep
  <2>4. \A id \in ActiveIds' : id = d.new
    BY <2>1, <2>2 DEF ActiveIds, Active
  <2>5. \A id \in Ids : id >= nextId' => intents'[id].status = "NONE"
    BY <1>0, <1>2, <1>1, <2>1, <2>2 DEF Sound
  <2>6. \A id \in ActiveIds' : Backed(intents[id].side, intents[id].qty)'
    BY <1>12, <1>13, <1>16, <2>1, <2>4 DEF ActiveIds
  <2> QED
    BY <1>15, <1>16, <2>3, <2>5, <2>6 DEF Sound
<1>18. CASE d.action = "REPRICE"
  <2>1. /\ ActiveIds = {d.old} /\ intents[d.old].side = d.side /\ d.new \in Ids /\ d.new < nextId
        /\ intents[d.new].status = "NONE" /\ Backed(d.side, d.qty)
        /\ d.side = "BUY" => Held = 0
    BY <1>4, <1>18 DEF PlanFits
  <2>2. d.old \in Ids /\ intents[d.old].status = "ACTIVE" /\ d.old # d.new
    BY <2>1 DEF ActiveIds, Active
  <2>3. intents'[d.old] = [intents[d.old] EXCEPT !.status = "REPLACED", !.by = d.new]
    BY <1>12, <1>18, <2>2
  <2>4. intents'[d.old].status = "REPLACED" /\ intents'[d.old].side = intents[d.old].side
    BY <1>0, <2>2, <2>3 DEF TypeOK, IntentRow
  <2>5. \A id \in Ids \ {d.old, d.new} : intents'[id] = intents[id]
    BY <1>11
  <2>6. Book!Next
    BY <1>0, <1>2, <1>5, <1>12, <1>13, <2>1, <2>2, <2>4, <2>5, ReplaceStep
  <2>7. \A id \in ActiveIds' : id = d.new
    BY <2>1, <2>2, <2>4, <2>5 DEF ActiveIds, Active
  <2>8. \A id \in Ids : id >= nextId' => intents'[id].status = "NONE"
    <3>1. \A id \in Ids : id >= nextId => id # d.new /\ id # d.old
      BY <1>0, <1>1, <2>1, <2>2 DEF Sound
    <3> QED
      BY <1>0, <1>2, <1>11, <3>1 DEF Sound
  <2>9. \A id \in ActiveIds' : Backed(intents[id].side, intents[id].qty)'
    BY <1>12, <1>13, <1>16, <2>1, <2>7 DEF ActiveIds
  <2> QED
    BY <1>15, <1>16, <2>6, <2>8, <2>9 DEF Sound
<1>19. CASE d.action = "CANCEL"
  <2>1. d.old \in ActiveIds /\ d.new = 0
    BY <1>4, <1>19 DEF PlanFits
  <2>2. d.old \in Ids /\ intents[d.old].status = "ACTIVE" /\ 0 \notin Ids
    BY <2>1 DEF ActiveIds, Active, Ids
  <2>3. intents'[d.old] = [intents[d.old] EXCEPT !.status = "CANCEL_REQUESTED"]
    BY <1>12, <1>19, <2>1, <2>2
  <2>4. /\ intents'[d.old].status = "CANCEL_REQUESTED"
        /\ intents'[d.old].side = intents[d.old].side
    BY <1>0, <2>2, <2>3 DEF TypeOK, IntentRow
  <2>5. \A id \in Ids \ {d.old} : intents'[id] = intents[id]
    BY <1>11, <2>1, <2>2
  <2>6. Book!Next
    BY <1>2, <2>1, <2>4, <2>5, StopStep
  <2>7. \A id \in ActiveIds' : id \in ActiveIds /\ intents'[id] = intents[id]
    BY <2>4, <2>5 DEF ActiveIds, Active
  <2>8. \A id \in Ids : id >= nextId' => intents'[id].status = "NONE"
    BY <1>0, <1>2, <2>2, <2>5 DEF Sound
  <2>9. \A id \in ActiveIds' : Backed(intents[id].side, intents[id].qty)'
    BY <1>0, <1>16, <2>7 DEF ActiveIds, Sound
  <2> QED
    BY <1>15, <1>16, <2>6, <2>8, <2>9 DEF Sound
<1> QED
  BY <1>5, <1>17, <1>18, <1>19

\* If writers take turns and nobody else works on the ledger, every step of it
\* is one of the book, or none.
LEMMA NextBook ==
  ASSUME TakesTurns, Fillers = {}, Operators = {}, BookInv, [Next]_vars
  PROVE  BookInv' /\ [Book!Next]_(Book!vars)
<1>0. TypeOK /\ Sound /\ OneActiveInv' /\ FillInv' /\ TypeOK' /\ Procs = Writers
  <2>1. WorksAlone
    BY DEF TakesTurns, WorksAlone, Working
  <2> QED
    BY <2>1, NextOneActive, NextFill DEF BookInv, OneActiveInv, FillInv, Procs
<1>1. ASSUME NEW w \in Writers,
             BeginCycle(w) \/ ListActive(w) \/ StartFill(w) \/ ReadPosition(w) \/ EndFills(w)
               \/ ReadHeld(w) \/ ReadActiveBuy(w) \/ Evaluate(w) \/ Abort(w)
      PROVE  Sound' /\ UNCHANGED Book!vars
  BY <1>1, ReadingStep
<1>2. ASSUME NEW w \in Writers, Expire(w) \/ CommitFill(w) \/ Apply(w)
      PROVE  Sound' /\ (Book!Next \/ UNCHANGED Book!vars)
  BY <1>0, <1>2, ExpireStep, CommitStep, ApplyStep
<1>3. ASSUME NEW id \in Ids, TtlPasses(id)
      PROVE  Sound' /\ UNCHANGED Book!vars
  BY <1>3, ClockStep
<1>4. ASSUME UNCHANGED vars
      PROVE  Sound' /\ UNCHANGED Book!vars
  <2>1. UNCHANGED Book!vars
    BY <1>4, NoStep DEF vars
  <2>2. UNCHANGED <<OneOpen, Held, ActiveIds, ActiveOf("BUY"), Newest(OpenPositions)>>
    BY <1>4 DEF vars, OneOpen, Held, HeldAt, OpenPositions, ActiveIds, ActiveOf, Active
  <2>3. \A w \in Writers : SeesTables(w)'
    BY <1>0, <1>4, <2>2 DEF vars, Sound, SeesTables, PlanFits, Backed, Active
  <2>4. Sound'
    BY <1>0, <1>4, <2>2, <2>3 DEF vars, Sound, Backed
  <2> QED
    BY <2>1, <2>4
<1>5. Sound' /\ (Book!Next \/ UNCHANGED Book!vars)
  BY <1>0, <1>1, <1>2, <1>3, <1>4 DEF Next, WriterStep
<1> QED
  BY <1>0, <1>5 DEF BookInv

\* Refinement: a writer that runs alone, whatever fails between two of its calls,
\* behaves as the book with atomic operations.
THEOREM LoneWriterImplementsBook ==
  ASSUME \A v, w \in Writers : v = w, Fillers = {}, Operators = {}
  PROVE  Spec => ImplementsBook
<1>1. BookInv /\ [Next]_vars => BookInv' /\ [Book!Next]_(Book!vars)
  BY NextBook DEF TakesTurns
<1> QED
  BY <1>1, InitBook, PTL DEF Spec, ImplementsBook, Book!Spec

-----------------------------------------------------------------------------
(* The positions agree with the fills *)

\* The intents of a side.
OfSide(side) == {id \in Ids : intents[id].side = side}

LEMMA SidesFinite ==
  ASSUME TypeOK, NEW S \in SUBSET Ids
  PROVE  IsFiniteSet(S) /\ \A id \in S : filled[id] \in Int
<1>1. IsFiniteSet(Ids)
  BY LedgerAssumption, FS_Interval DEF Ids
<1> QED
  BY <1>1, FS_Subset DEF TypeOK

\* A step that fills nothing and gives a side to at most one new intent.
LEMMA BalanceKept ==
  ASSUME TypeOK, LedgerBalanced, UNCHANGED <<filled, positions>>,
         NEW n, \A id \in Ids : id # n => intents'[id].side = intents[id].side,
         n \in Ids => filled[n] = 0
  PROVE  LedgerBalanced'
<1>1. ASSUME NEW side
      PROVE  FilledOf(side)' = FilledOf(side)
  <2> DEFINE S == {id \in Ids : intents[id].side = side}
             T == {id \in Ids : intents'[id].side = side}
  <2>1. S \in SUBSET Ids /\ T \in SUBSET Ids /\ S \ {n} = T \ {n}
    OBVIOUS
  <2>2. (n \in S => filled[n] = 0) /\ (n \in T => filled[n] = 0)
    OBVIOUS
  <2> HIDE DEF S, T
  <2>3. SumOver(S, filled) = SumOver(S \ {n}, filled)
    BY <2>1, <2>2, SidesFinite, SumSkips
  <2>4. SumOver(T, filled) = SumOver(T \ {n}, filled)
    BY <2>1, <2>2, SidesFinite, SumSkips
  <2>5. SumOver(S, filled) = SumOver(T, filled)
    BY <2>1, <2>3, <2>4
  <2> QED
    BY <2>5 DEF FilledOf, S, T
<1>2. Inventory' = Inventory
  BY DEF Inventory, OpenPositions
<1> QED
  BY <1>1, <1>2 DEF LedgerBalanced

\* A fill of an open position, or of none, leaves nothing in a closed one.
LEMMA ClosedStayEmpty ==
  ASSUME TypeOK, OneOpen, NEW t \in Txn, t.at = Newest(OpenPositions), t.held = Held,
         NEW q \in Nat \ {0}, intents[t.id].side # "BUY" => q <= Held,
         positions' = FilledPositions(t, q),
         \A i \in DOMAIN positions : ~positions[i].open => positions[i].qty = 0
  PROVE  \A i \in DOMAIN positions' : ~positions'[i].open => positions'[i].qty = 0
<1> DEFINE at == Newest(OpenPositions)
           s == intents[t.id].side
           new == IF s = "BUY" THEN Held + q ELSE Held - q
<1>1. DOMAIN positions = 1..Len(positions) /\ Len(positions) \in Nat
  BY LenProperties DEF TypeOK
<1>2. \A i \in DOMAIN positions : positions[i] \in PositionRow
  BY <1>1, ElementOfSeq DEF TypeOK
<1>3. Held \in Nat /\ new \in Nat
  BY InventoryIsHeld
<1>4. at \in OpenPositions \cup {0}
  BY NewestType
<1>5. CASE at = 0 /\ s = "BUY"
  <2> DEFINE row == [qty |-> q, open |-> TRUE]
             n == Len(positions) + 1
  <2>1. positions' = Append(positions, row)
    BY <1>5 DEF FilledPositions
  <2>2. /\ DOMAIN positions' = 1..n /\ positions'[n] = row
        /\ \A i \in 1..Len(positions) : positions'[i] = positions[i]
    <3>1. positions \in Seq(PositionRow) /\ row \in PositionRow
      BY DEF TypeOK, PositionRow
    <3> HIDE DEF row
    <3> QED
      BY <1>1, <2>1, <3>1, AppendProperties, LenProperties
  <2>3. row.open
    OBVIOUS
  <2>4. \A i \in 1..n : i = n \/ i \in 1..Len(positions)
    BY <1>1
  <2> HIDE DEF row, n
  <2> QED
    BY <1>1, <2>2, <2>3, <2>4
<1>6. CASE at = 0 /\ s # "BUY"
  BY <1>6 DEF FilledPositions
<1>7. CASE at # 0
  <2> DEFINE row == positions[at]
             bought == [row EXCEPT !.qty = new]
             sold == [row EXCEPT !.qty = new, !.open = @ /\ new > 0]
  <2>1. at \in DOMAIN positions /\ row.open /\ row \in PositionRow
    BY <1>2, <1>4, <1>7 DEF OpenPositions
  <2>2. /\ bought.open
        /\ ~sold.open => sold.qty = 0
    <3>1. sold.qty = new /\ (sold.open <=> new > 0)
      <4> HIDE DEF new
      <4> QED
        BY <1>3, <2>1 DEF PositionRow
    <3>2. bought.open
      BY <2>1 DEF PositionRow
    <3> HIDE DEF new, sold
    <3> QED
      BY <1>3, <3>1, <3>2
  <2>3. positions' = [positions EXCEPT ![at] = IF s = "BUY" THEN bought ELSE sold]
    <3>1. CASE s = "BUY"
      BY <1>7, <3>1 DEF FilledPositions
    <3>2. CASE s # "BUY"
      <4>1. t.held - Lower(q, t.held) = new
        BY <1>3, <3>2 DEF Lower
      <4> QED
        BY <1>7, <3>2, <4>1 DEF FilledPositions
    <3> QED
      BY <3>1, <3>2
  <2> HIDE DEF bought, sold, at, s
  <2> QED
    BY <2>1, <2>2, <2>3
<1> QED
  BY <1>5, <1>6, <1>7

\* The commit of a fill books it on both sides.
LEMMA CommitBalanced ==
  ASSUME TypeOK, TypeOK', OneOpen, LedgerBalanced, NEW w \in Procs, FillFits(w), CommitFill(w)
  PROVE  LedgerBalanced'
<1> DEFINE t == txn[w]
           o == t.id
           q == t.ask
           s == intents[o].side
<1>1. /\ t \in Txn /\ o \in Ids /\ q \in Nat \ {0}
      /\ t.at = Newest(OpenPositions) /\ t.held = Held
      /\ s # "BUY" => q <= Held
      /\ positions' = FilledPositions(t, q)
      /\ filled' = [filled EXCEPT ![o] = @ + q]
      /\ Inventory' = IF s = "BUY" THEN Inventory + q ELSE Inventory - q
  BY CommitMoves
<1>2. \A id \in Ids : intents'[id].side = intents[id].side
  <2>1. intents' = [intents EXCEPT ![o] = FilledRow(t)] /\ FilledRow(t).side = s
    BY CommitMoves
  <2> QED
    BY <2>1 DEF TypeOK
<1>3. s \in Sides
  BY <1>1 DEF TypeOK, IntentRow
<1>4. ASSUME NEW side
      PROVE  FilledOf(side)' = IF side = s THEN FilledOf(side) + q ELSE FilledOf(side)
  <2> DEFINE S == {id \in Ids : intents[id].side = side}
  <2>1. S \in SUBSET Ids /\ (o \in S <=> side = s)
    BY <1>1
  <2>2. FilledOf(side) = SumOver(S, filled)
    BY DEF FilledOf
  <2>3. FilledOf(side)' = SumOver(S, filled')
    <3>1. S = {id \in Ids : intents'[id].side = side}
      BY <1>2
    <3> HIDE DEF S
    <3> QED
      BY <3>1 DEF FilledOf
  <2> HIDE DEF S, s, o, q
  <2>4. IsFiniteSet(S) /\ \A id \in S : filled[id] \in Int
    BY <2>1, SidesFinite
  <2>5. \A id \in S : filled'[id] = IF id = o THEN filled[o] + q ELSE filled[id]
    BY <1>1, <2>1 DEF TypeOK
  <2>6. SumOver(S, filled') = IF o \in S THEN SumOver(S, filled) + q ELSE SumOver(S, filled)
    <3> DEFINE h == filled'
    <3>1. Grown(S, filled, o, q, h) /\ Summands(S, filled)
      BY <2>4, <2>5 DEF Grown, Summands
    <3>2. q \in Int
      BY <1>1
    <3> HIDE DEF h
    <3>3. SumOver(S, h) = IF o \in S THEN SumOver(S, filled) + q ELSE SumOver(S, filled)
      BY <2>4, <3>1, <3>2, SumGrows
    <3> QED
      BY <3>3 DEF h
  <2> QED
    BY <2>1, <2>2, <2>3, <2>6
<1>5. ASSUME NEW side
      PROVE  FilledOf(side) \in Int
  <2>1. {id \in Ids : intents[id].side = side} \in SUBSET Ids
    OBVIOUS
  <2> QED
    BY <2>1, SidesFinite, SumTakes DEF FilledOf
<1>6. \A i \in DOMAIN positions' : ~positions'[i].open => positions'[i].qty = 0
  BY <1>1, ClosedStayEmpty DEF LedgerBalanced
<1>7. Inventory' = FilledOf("BUY")' - FilledOf("SELL")'
  <2>1. Inventory = FilledOf("BUY") - FilledOf("SELL")
    BY DEF LedgerBalanced
  <2>2. q \in Int /\ FilledOf("BUY") \in Int /\ FilledOf("SELL") \in Int
    BY <1>1, <1>5
  <2>3. CASE s = "BUY"
    <3>1. FilledOf("BUY")' = FilledOf("BUY") + q /\ FilledOf("SELL")' = FilledOf("SELL")
      BY <1>4, <2>3
    <3>2. Inventory' = Inventory + q
      BY <1>1, <2>3
    <3> HIDE DEF q
    <3> QED
      BY <2>1, <2>2, <3>1, <3>2
  <2>4. CASE s = "SELL"
    <3>1. FilledOf("BUY")' = FilledOf("BUY") /\ FilledOf("SELL")' = FilledOf("SELL") + q
      BY <1>4, <2>4
    <3>2. Inventory' = Inventory - q
      BY <1>1, <2>4
    <3> HIDE DEF q
    <3> QED
      BY <2>1, <2>2, <3>1, <3>2
  <2> QED
    BY <1>3, <2>3, <2>4 DEF Sides
<1> QED
  BY <1>6, <1>7 DEF LedgerBalanced

LEMMA InitBalanced == Init => LedgerBalanced
<1> SUFFICES ASSUME Init PROVE LedgerBalanced
  OBVIOUS
<1>1. TypeOK /\ OpenPositions = {} /\ DOMAIN positions = {}
  BY InitType DEF Init, OpenPositions
<1>2. Inventory = 0
  BY <1>1, SumOfNone DEF Inventory
<1>3. FilledOf("SELL") = 0
  <2>1. {id \in Ids : intents[id].side = "SELL"} = {}
    BY DEF Init, NoRow
  <2> QED
    BY <2>1, SumOfNone DEF FilledOf
<1>4. FilledOf("BUY") = 0
  <2> DEFINE S == {id \in Ids : intents[id].side = "BUY"}
             bad == {T \in SUBSET S : SumOver(T, filled) # 0}
  <2>1. SUFFICES ASSUME bad # {} PROVE FALSE
    BY DEF FilledOf
  <2>2. IsFiniteSet(S) /\ bad \subseteq SUBSET S
    BY <1>1, SidesFinite
  <2>3. PICK T \in bad : \A U \in bad : U \subseteq T => U = T
    <3> HIDE DEF bad, S
    <3> QED
      BY <2>1, <2>2, SmallestSet
  <2>4. IsFiniteSet(T) /\ \A x \in T : filled[x] = 0
    BY <2>2, FS_Subset DEF Init
  <2>5. PICK x \in T : TRUE
    BY <2>3, SumOfNone
  <2>6. SumOver(T, filled) = SumOver(T \ {x}, filled)
    BY <2>4, SumSkips
  <2> QED
    BY <2>3, <2>5, <2>6
<1> QED
  BY <1>1, <1>2, <1>3, <1>4 DEF LedgerBalanced

-----------------------------------------------------------------------------
(* What has ended, whoever writes *)

NoIntent(id) == intents[id].status = "NONE"

\* A process remembers only intents that are there ...
Known(p) ==
  /\ \A r \in todo[p] : ~NoIntent(r.id)
  /\ txn[p].id \in Ids => ~NoIntent(txn[p].id)
  /\ view[p].buy \in Ids => ~NoIntent(view[p].buy)
  /\ plan[p].old \in Ids => ~NoIntent(plan[p].old)

\* ... and the one it is about to create is not there yet.
Reserved(p) == plan[p].new \in Ids => plan[p].new < nextId /\ NoIntent(plan[p].new)

\* No two processes create the same intent.
NamesInv ==
  /\ TypeOK
  /\ \A id \in Ids : id >= nextId => NoIntent(id)
  /\ \A p \in Procs : Known(p) /\ Reserved(p)
  /\ \A p, q \in Procs : p # q /\ plan[p].new \in Ids => plan[p].new # plan[q].new

\* A row that is there stays there, on its side, and works only if it did.
RowGoesOn(row, new) ==
  row.status # "NONE" =>
    /\ new.status # "NONE"
    /\ new.status = "ACTIVE" => row.status = "ACTIVE"
    /\ new.side = row.side
RowsGoOn == \A id \in Ids : RowGoesOn(intents[id], intents'[id])

LEMMA RowEnds ==
  ASSUME NEW r \in IntentRow
  PROVE  /\ RowGoesOn(r, r)
         /\ RowGoesOn(r, [r EXCEPT !.status = "EXPIRED"])
         /\ RowGoesOn(r, [r EXCEPT !.status = "FILLED"])
         /\ RowGoesOn(r, [r EXCEPT !.status = "CANCEL_REQUESTED"])
         /\ RowGoesOn(r, [r EXCEPT !.due = TRUE])
         /\ [r EXCEPT !.due = TRUE].status = r.status
         /\ \A n : RowGoesOn(r, [r EXCEPT !.status = "REPLACED", !.by = n])
         /\ \A n : RowGoesOn(r, [r EXCEPT !.qty = n])
         /\ \A n : [r EXCEPT !.qty = n].status = r.status
  BY DEF IntentRow, RowGoesOn

LEMMA InitNames == Init => NamesInv
<1> SUFFICES ASSUME Init PROVE NamesInv
  OBVIOUS
<1>1. \A id \in Ids : NoIntent(id)
  BY DEF Init, NoIntent, NoRow
<1>2. 0 \notin Ids
  BY DEF Ids
<1>3. \A p \in Procs : todo[p] = {} /\ txn[p].id = 0 /\ view[p].buy = 0
                       /\ plan[p].old = 0 /\ plan[p].new = 0
  BY DEF Init, NoTxn, NoView, Hold
<1> QED
  BY <1>1, <1>2, <1>3, InitType DEF NamesInv, Known, Reserved

\* A step that creates no intent, names none and leaves what other processes
\* remember keeps the invariant if its own process goes on remembering intents
\* that are there.
LEMMA NoneCreated ==
  ASSUME NamesInv, TypeOK', UNCHANGED nextId, NEW p \in Procs,
         \A id \in Ids : NoIntent(id)' <=> NoIntent(id),
         \A q \in Procs : q # p =>
           /\ todo'[q] = todo[q] /\ txn'[q] = txn[q]
           /\ view'[q] = view[q] /\ plan'[q] = plan[q],
         Known(p)', plan'[p].new \in {0, plan[p].new}
  PROVE  NamesInv'
<1>0. 0 \notin Ids /\ \A q \in Procs : todo[q] \subseteq [id : Ids, qty : Nat]
  BY DEF Ids, NamesInv, TypeOK
<1>1. ASSUME NEW q \in Procs PROVE Known(q)'
  <2>1. CASE q # p
    <3>1. Known(q) /\ \A r \in todo[q] : r.id \in Ids
      BY <1>0 DEF NamesInv
    <3> QED
      BY <2>1, <3>1 DEF Known
  <2> QED
    BY <2>1
<1>2. \A q \in Procs : plan'[q].new \in {0, plan[q].new}
  OBVIOUS
<1>3. ASSUME NEW q \in Procs PROVE Reserved(q)'
  <2>1. Reserved(q) /\ plan'[q].new \in {0, plan[q].new}
    BY <1>2 DEF NamesInv
  <2> QED
    BY <1>0, <2>1 DEF Reserved
<1>4. \A id \in Ids : id >= nextId' => NoIntent(id)'
  BY DEF NamesInv
<1>5. \A q, s \in Procs : q # s /\ plan'[q].new \in Ids => plan'[q].new # plan'[s].new
  BY <1>0, <1>2 DEF NamesInv
<1> QED
  BY <1>1, <1>3, <1>4, <1>5 DEF NamesInv

LEMMA ActiveIsThere ==
  /\ \A id : Active(id) => ~NoIntent(id)
  /\ \A id \in ActiveIds : id \in Ids /\ Active(id)
  /\ \A side : Newest(ActiveOf(side)) \in ActiveIds \cup {0}
<1>1. \A side : ActiveOf(side) \subseteq ActiveIds
  BY DEF ActiveOf
<1> QED
  BY <1>1, NewestType DEF Active, NoIntent, ActiveIds

\* The steps that only read the tables.
LEMMA ReadNames ==
  ASSUME NamesInv, TypeOK', NEW p \in Procs,
         \/ BeginCycle(p) \/ ListActive(p) \/ StartFill(p) \/ MarkFilled(p) \/ EndFills(p)
         \/ ReadPosition(p) \/ ReadHeld(p) \/ ReadActiveBuy(p) \/ Abort(p)
  PROVE  NamesInv' /\ RowsGoOn
<1>0. Known(p) /\ 0 \notin Ids /\ TypeOK
  BY DEF NamesInv, Ids
<1>1. UNCHANGED <<intents, nextId>>
  BY DEF BeginCycle, ListActive, StartFill, MarkFilled, EndFills, ReadPosition, ReadHeld,
         ReadActiveBuy, Abort
<1>2. \A q \in Procs : q # p =>
        /\ todo'[q] = todo[q] /\ txn'[q] = txn[q]
        /\ view'[q] = view[q] /\ plan'[q] = plan[q]
  <2>1. CASE MarkFilled(p)
    BY <1>0, <2>1 DEF TypeOK, MarkFilled, OpenTxn
  <2>2. CASE ~MarkFilled(p)
    BY <1>0, <2>2, OthersKept DEF WriterStep
  <2> QED
    BY <2>1, <2>2
<1>3. plan'[p].new \in {0, plan[p].new} /\ plan'[p].old \in {0, plan[p].old}
  <2>1. plan' = plan \/ plan' = [plan EXCEPT ![p] = Hold]
    BY DEF BeginCycle, ListActive, StartFill, MarkFilled, EndFills, ReadPosition, ReadHeld,
           ReadActiveBuy, Abort
  <2> QED
    BY <1>0, <2>1 DEF TypeOK, Hold
<1>4. view'[p].buy \in {0, view[p].buy} \cup ActiveIds
  <2>1. CASE ReadActiveBuy(p)
    BY <1>0, <2>1, ActiveIsThere DEF ReadActiveBuy, TypeOK, View
  <2>2. CASE ReadHeld(p)
    BY <1>0, <2>2 DEF ReadHeld, TypeOK, View
  <2>3. CASE Abort(p)
    BY <1>0, <2>3 DEF Abort, NoView, TypeOK
  <2>4. CASE ~ReadActiveBuy(p) /\ ~ReadHeld(p) /\ ~Abort(p)
    BY <2>4 DEF BeginCycle, ListActive, StartFill, MarkFilled, EndFills, ReadPosition
  <2> QED
    BY <2>1, <2>2, <2>3, <2>4
<1>5. \A r \in todo'[p] : r \in todo[p] \/ r.id \in ActiveIds
  <2>1. CASE BeginCycle(p) \/ ListActive(p)
    BY <1>0, <2>1 DEF BeginCycle, ListActive, Rows, TypeOK
  <2>2. CASE StartFill(p)
    <3>1. PICK r : todo' = [todo EXCEPT ![p] = {x \in @ : x.id < r.id}]
      BY <2>2 DEF StartFill
    <3> QED
      BY <1>0, <3>1 DEF TypeOK
  <2>3. CASE EndFills(p) \/ Abort(p)
    BY <1>0, <2>3 DEF EndFills, Abort, TypeOK
  <2>4. CASE MarkFilled(p) \/ ReadPosition(p) \/ ReadHeld(p) \/ ReadActiveBuy(p)
    BY <2>4 DEF MarkFilled, ReadPosition, ReadHeld, ReadActiveBuy
  <2> QED
    BY <2>1, <2>2, <2>3, <2>4
<1>6. txn'[p].id \in Ids => txn'[p].id = txn[p].id \/ ~NoIntent(txn'[p].id)
  <2>1. ASSUME NEW id \in Ids, NEW ask, NEW paper, OpenTxn(p, id, ask, paper), ~NoIntent(id)
        PROVE  txn'[p].id = id
    BY <1>0, <2>1 DEF OpenTxn, TypeOK
  <2>2. CASE StartFill(p)
    <3>1. PICK r \in todo[p] : \E ask : OpenTxn(p, r.id, ask, TRUE)
      BY <2>2 DEF StartFill
    <3>2. r.id \in Ids /\ ~NoIntent(r.id)
      BY <1>0, <3>1 DEF TypeOK, Known
    <3> QED
      BY <2>1, <3>1, <3>2
  <2>3. CASE MarkFilled(p)
    <3>1. PICK id \in Ids : ~NoIntent(id) /\ \E ask : OpenTxn(p, id, ask, FALSE)
      BY <2>3 DEF MarkFilled, NoIntent
    <3> QED
      BY <2>1, <3>1
  <2>4. CASE ReadPosition(p)
    BY <1>0, <2>4 DEF ReadPosition, TypeOK, Txn
  <2>5. CASE Abort(p)
    BY <1>0, <2>5 DEF Abort, NoTxn, TypeOK
  <2>6. CASE ~StartFill(p) /\ ~MarkFilled(p) /\ ~ReadPosition(p) /\ ~Abort(p)
    BY <2>6 DEF BeginCycle, ListActive, EndFills, ReadHeld, ReadActiveBuy
  <2> QED
    BY <2>2, <2>3, <2>4, <2>5, <2>6
<1>7. \A id \in Ids : NoIntent(id)' <=> NoIntent(id)
  BY <1>1 DEF NoIntent
<1>8. Known(p)'
  <2>1. \A id \in ActiveIds : id \in Ids /\ ~NoIntent(id)
    BY ActiveIsThere
  <2>2. \A r \in todo[p] : r.id \in Ids
    BY <1>0 DEF TypeOK
  <2>3. \A r \in todo'[p] : ~NoIntent(r.id)'
    BY <1>0, <1>5, <1>7, <2>1, <2>2 DEF Known
  <2>4. txn'[p].id \in Ids => ~NoIntent(txn'[p].id)
    BY <1>0, <1>6 DEF Known
  <2>5. view'[p].buy \in Ids => ~NoIntent(view'[p].buy)
    BY <1>0, <1>4, <2>1 DEF Known
  <2>6. plan'[p].old \in Ids => ~NoIntent(plan'[p].old)
    BY <1>0, <1>3 DEF Known
  <2> QED
    BY <1>1, <2>3, <2>4, <2>5, <2>6 DEF Known, NoIntent
<1>9. RowsGoOn
  BY <1>0, <1>1, RowEnds DEF RowsGoOn, TypeOK
<1> QED
  BY <1>1, <1>2, <1>3, <1>7, <1>8, <1>9, NoneCreated

\* The steps that write rows that are there.
LEMMA WriteNames ==
  ASSUME NamesInv, TypeOK', NEW p \in Procs, Expire(p) \/ CommitFill(p)
  PROVE  NamesInv' /\ RowsGoOn
<1>0. Known(p) /\ 0 \notin Ids /\ TypeOK
  BY DEF NamesInv, Ids
<1>1. UNCHANGED <<nextId, view, plan>>
  BY DEF Expire, CommitFill
<1>2. \A q \in Procs : q # p =>
        /\ todo'[q] = todo[q] /\ txn'[q] = txn[q]
        /\ view'[q] = view[q] /\ plan'[q] = plan[q]
  BY <1>0, OthersKept DEF WriterStep
<1>3. /\ \A id \in Ids : RowGoesOn(intents[id], intents'[id])
      /\ \A id \in Ids : NoIntent(id) => intents'[id] = intents[id]
  <2>1. CASE Expire(p)
    <3>1. ASSUME NEW id \in Ids
          PROVE  /\ RowGoesOn(intents[id], intents'[id])
                 /\ NoIntent(id) => intents'[id] = intents[id]
      <4>1. intents[id] \in IntentRow
        BY <1>0 DEF TypeOK
      <4>2. CASE \E r \in todo[p] : r.id = id
        BY <1>0, <2>1, <4>1, <4>2, RowEnds DEF Expire, Known
      <4>3. CASE ~ \E r \in todo[p] : r.id = id
        BY <2>1, <4>1, <4>3, RowEnds DEF Expire
      <4> QED
        BY <4>2, <4>3
    <3> QED
      BY <3>1
  <2>2. CASE CommitFill(p)
    <3> DEFINE t == txn[p]
    <3>1. intents' = [intents EXCEPT ![t.id] = FilledRow(t)]
      BY <2>2 DEF CommitFill
    <3>2. t.id \in Ids => ~NoIntent(t.id)
      BY <1>0 DEF Known
    <3>3. t.id \in Ids => RowGoesOn(intents[t.id], FilledRow(t))
      BY <1>0, RowEnds DEF FilledRow, TypeOK
    <3> HIDE DEF t
    <3>4. ASSUME NEW id \in Ids
          PROVE  /\ RowGoesOn(intents[id], intents'[id])
                 /\ NoIntent(id) => intents'[id] = intents[id]
      <4>1. intents[id] \in IntentRow /\ intents \in [Ids -> IntentRow]
        BY <1>0 DEF TypeOK
      <4>2. CASE id = t.id
        BY <3>1, <3>2, <3>3, <4>1, <4>2
      <4>3. CASE id # t.id
        BY <3>1, <4>1, <4>3, RowEnds
      <4> QED
        BY <4>2, <4>3
    <3> QED
      BY <3>4
  <2> QED
    BY <2>1, <2>2
<1>4. \A id \in Ids : NoIntent(id)' <=> NoIntent(id)
  BY <1>3 DEF NoIntent, RowGoesOn
<1>5. todo'[p] \subseteq todo[p] /\ txn'[p].id \in {0, txn[p].id}
  BY <1>0 DEF Expire, CommitFill, NoTxn, TypeOK
<1>6. Known(p)'
  <2>1. \A r \in todo[p] : r.id \in Ids
    BY <1>0 DEF TypeOK
  <2> QED
    BY <1>0, <1>1, <1>4, <1>5, <2>1 DEF Known
<1> QED
  BY <1>1, <1>2, <1>3, <1>4, <1>6, NoneCreated DEF RowsGoOn

\* A decision is about an intent that was read, and names the next one.
LEMMA DecisionAbout ==
  ASSUME NEW held, NEW buy, NEW sell, NEW d \in Decisions(held, buy, sell)
  PROVE  d.old \in {0, buy, sell}
  BY DEF Decisions, BuySide, SellSide, Hold, Create, Reprice, Cancel

LEMMA EvaluateNames ==
  ASSUME NamesInv, TypeOK', NEW w \in Writers, Evaluate(w)
  PROVE  NamesInv' /\ RowsGoOn
<1>0. /\ w \in Procs /\ Known(w) /\ 0 \notin Ids /\ Ids \subseteq Nat /\ nextId \in Nat /\ nextId # 0
      /\ TypeOK
  BY LedgerAssumption DEF NamesInv, Procs, Ids, TypeOK
<1>1. UNCHANGED <<intents, todo, txn>> /\ view' = [view EXCEPT ![w] = NoView]
  BY DEF Evaluate
<1>2. PICK d \in Decisions(view[w].held, view[w].buy, Newest(ActiveOf("SELL"))) :
        /\ nextId' = IF d.new # 0 THEN nextId + 1 ELSE nextId
        /\ plan' = [plan EXCEPT ![w] = d]
  BY DEF Evaluate
<1>3. d.old \in {0, view[w].buy} \cup ActiveIds /\ d.new \in {0, nextId}
  BY DecisionAbout, DecisionNamesNext, ActiveIsThere
<1>4. \A id : NoIntent(id)' <=> NoIntent(id)
  BY <1>1 DEF NoIntent
<1>5. /\ plan'[w] = d /\ \A q \in Procs : q # w => plan'[q] = plan[q]
      /\ view'[w].buy = 0 /\ \A q \in Procs : q # w => view'[q] = view[q]
  BY <1>0, <1>1, <1>2 DEF TypeOK, NoView
<1>6. nextId' >= nextId /\ nextId' \in Nat /\ (d.new # 0 => nextId < nextId')
  BY <1>0, <1>2
<1>7. ASSUME NEW q \in Procs PROVE Known(q)'
  <2>1. Known(q)
    BY DEF NamesInv
  <2>2. CASE q = w
    <3>1. d.old \in Ids => ~NoIntent(d.old)
      BY <1>0, <1>3, ActiveIsThere DEF Known
    <3> QED
      BY <1>0, <1>1, <1>4, <1>5, <2>1, <2>2, <3>1 DEF Known
  <2>3. CASE q # w
    BY <1>1, <1>4, <1>5, <2>1, <2>3 DEF Known
  <2> QED
    BY <2>2, <2>3
<1>8. ASSUME NEW q \in Procs PROVE Reserved(q)'
  <2>1. CASE q = w
    <3>1. d.new \in Ids => d.new < nextId' /\ NoIntent(d.new)
      BY <1>0, <1>3, <1>6 DEF NamesInv
    <3> QED
      BY <1>4, <1>5, <2>1, <3>1 DEF Reserved
  <2>2. CASE q # w
    <3>1. plan[q].new \in Ids => plan[q].new < nextId' /\ NoIntent(plan[q].new)
      <4>1. plan[q].new \in Ids => plan[q].new < nextId /\ NoIntent(plan[q].new)
        BY DEF NamesInv, Reserved
      <4>2. \A n \in Nat : n < nextId => n < nextId'
        BY <1>0, <1>6
      <4> QED
        BY <1>0, <4>1, <4>2
    <3> QED
      BY <1>4, <1>5, <2>2, <3>1 DEF Reserved
  <2> QED
    BY <2>1, <2>2
<1>9. \A id \in Ids : id >= nextId' => NoIntent(id)'
  <2>1. \A id \in Ids : id >= nextId' => id >= nextId
    BY <1>0, <1>6
  <2> QED
    BY <1>4, <2>1 DEF NamesInv
<1>10. \A q, s \in Procs : q # s /\ plan'[q].new \in Ids => plan'[q].new # plan'[s].new
  <2>1. \A q \in Procs : plan[q].new \in Ids => plan[q].new # nextId
    BY <1>0 DEF NamesInv, Reserved
  <2>2. \A q \in Procs : q # w /\ plan[q].new \in Ids => plan[q].new # d.new
    BY <1>0, <1>3, <2>1
  <2> QED
    BY <1>5, <2>2 DEF NamesInv
<1>11. RowsGoOn
  BY <1>0, <1>1, RowEnds DEF RowsGoOn, TypeOK
<1> QED
  BY <1>7, <1>8, <1>9, <1>10, <1>11 DEF NamesInv

\* The step that creates an intent: its name was reserved, so no row is lost, and
\* it is not the row that the decision is about.
LEMMA ApplyNames ==
  ASSUME NamesInv, TypeOK', NEW w \in Writers, Apply(w)
  PROVE  NamesInv' /\ RowsGoOn
<1> DEFINE d == plan[w]
<1>0. w \in Procs /\ Known(w) /\ Reserved(w) /\ 0 \notin Ids /\ TypeOK
  BY DEF NamesInv, Procs, Ids
<1>1. UNCHANGED <<nextId, todo, txn, view>> /\ plan' = [plan EXCEPT ![w] = Hold]
  BY DEF Apply
<1>2. /\ plan'[w].old = 0 /\ plan'[w].new = 0
      /\ \A q \in Procs : q # w => plan'[q] = plan[q]
  BY <1>0, <1>1 DEF TypeOK, Hold
<1>3. d.new \in Ids => NoIntent(d.new)
  BY <1>0 DEF Reserved
<1>4. ASSUME NEW id \in Ids, id # d.new
      PROVE  /\ RowGoesOn(intents[id], intents'[id])
             /\ NoIntent(id) => intents'[id] = intents[id]
  <2>1. intents[id] \in IntentRow /\ (NoIntent(id) => id # d.old)
    BY <1>0 DEF TypeOK, Known
  <2>2. intents'[id] = CASE id = d.old /\ d.action = "REPRICE" ->
                              [intents[id] EXCEPT !.status = "REPLACED", !.by = d.new]
                         [] id = d.old /\ d.action = "CANCEL" ->
                              [intents[id] EXCEPT !.status = "CANCEL_REQUESTED"]
                         [] OTHER -> intents[id]
    BY <1>4 DEF Apply
  <2> HIDE DEF d
  <2>3. CASE id = d.old /\ d.action = "REPRICE"
    <3>1. intents'[id] = [intents[id] EXCEPT !.status = "REPLACED", !.by = d.new]
      BY <2>2, <2>3
    <3>2. RowGoesOn(intents[id], [intents[id] EXCEPT !.status = "REPLACED", !.by = d.new])
      BY <2>1, RowEnds
    <3> QED
      BY <2>1, <2>3, <3>1, <3>2
  <2>4. CASE id = d.old /\ d.action = "CANCEL"
    BY <2>1, <2>2, <2>4, RowEnds
  <2>5. CASE ~(id = d.old /\ d.action = "REPRICE") /\ ~(id = d.old /\ d.action = "CANCEL")
    BY <2>1, <2>2, <2>5, RowEnds
  <2> QED
    BY <2>3, <2>4, <2>5
<1>5. RowsGoOn
  <2>1. d.new \in Ids => RowGoesOn(intents[d.new], intents'[d.new])
    BY <1>3 DEF RowGoesOn, NoIntent
  <2> HIDE DEF d
  <2> QED
    BY <1>4, <2>1 DEF RowsGoOn
<1>6. /\ \A id \in Ids : ~NoIntent(id) => ~NoIntent(id)'
      /\ \A id \in Ids : id # d.new /\ NoIntent(id) => NoIntent(id)'
  BY <1>4, <1>5 DEF RowsGoOn, RowGoesOn, NoIntent
<1> HIDE DEF d
<1>7. ASSUME NEW q \in Procs PROVE Known(q)'
  <2>1. Known(q) /\ \A r \in todo[q] : r.id \in Ids
    BY <1>0 DEF NamesInv, TypeOK
  <2>2. plan'[q].old \in Ids => plan'[q].old = plan[q].old
    BY <1>0, <1>2
  <2> QED
    BY <1>1, <1>6, <2>1, <2>2 DEF Known
<1>8. ASSUME NEW q \in Procs PROVE Reserved(q)'
  <2>1. CASE q = w
    BY <1>0, <1>2, <2>1 DEF Reserved
  <2>2. CASE q # w
    <3>1. Reserved(q) /\ plan'[q] = plan[q] /\ (plan[q].new \in Ids => plan[q].new # d.new)
      BY <1>0, <1>2, <2>2 DEF NamesInv, d
    <3> QED
      BY <1>1, <1>6, <3>1 DEF Reserved
  <2> QED
    BY <2>1, <2>2
<1>9. \A id \in Ids : id >= nextId' => NoIntent(id)'
  <2>1. d.new \in Ids => d.new < nextId
    BY <1>0 DEF Reserved, d
  <2>2. nextId \in Nat /\ Ids \subseteq Nat
    BY LedgerAssumption DEF NamesInv, TypeOK, Ids
  <2>3. \A id \in Ids : id >= nextId => id # d.new
    BY <2>1, <2>2
  <2> QED
    BY <1>1, <1>6, <2>3 DEF NamesInv
<1>10. \A q, s \in Procs : q # s /\ plan'[q].new \in Ids => plan'[q].new # plan'[s].new
  BY <1>0, <1>2 DEF NamesInv
<1> QED
  BY <1>5, <1>7, <1>8, <1>9, <1>10 DEF NamesInv

\* The clock.
LEMMA ClockNames ==
  ASSUME NamesInv, TypeOK', TypeOK, NEW id \in Ids, TtlPasses(id)
  PROVE  NamesInv' /\ RowsGoOn
<1>1. /\ intents' = [intents EXCEPT ![id].due = TRUE] /\ intents \in [Ids -> IntentRow]
      /\ UNCHANGED <<nextId, todo, txn, view, plan>>
  BY DEF TtlPasses, TypeOK
<1>2. RowsGoOn
  BY <1>1, RowEnds DEF RowsGoOn
<1>3. \A i \in Ids : NoIntent(i)' <=> NoIntent(i)
  BY <1>1, RowEnds DEF NoIntent
<1>4. \A q \in Procs : Known(q)' /\ Reserved(q)'
  <2>1. \A q \in Procs : Known(q) /\ Reserved(q) /\ \A r \in todo[q] : r.id \in Ids
    BY DEF NamesInv, TypeOK
  <2> QED
    BY <1>1, <1>3, <2>1 DEF Known, Reserved
<1> QED
  BY <1>1, <1>2, <1>3, <1>4 DEF NamesInv

LEMMA NextNames == ASSUME NamesInv, [Next]_vars PROVE NamesInv' /\ RowsGoOn
<1>0. TypeOK /\ TypeOK' /\ \A w \in Writers : w \in Procs
  BY NextType DEF NamesInv, Procs
<1>1. ASSUME NEW p \in Procs,
             \/ BeginCycle(p) \/ ListActive(p) \/ StartFill(p) \/ MarkFilled(p) \/ EndFills(p)
             \/ ReadPosition(p) \/ ReadHeld(p) \/ ReadActiveBuy(p) \/ Abort(p)
      PROVE  NamesInv' /\ RowsGoOn
  BY <1>0, <1>1, ReadNames
<1>2. ASSUME NEW p \in Procs, Expire(p) \/ CommitFill(p)
      PROVE  NamesInv' /\ RowsGoOn
  BY <1>0, <1>2, WriteNames
<1>3. ASSUME NEW w \in Writers, Evaluate(w)
      PROVE  NamesInv' /\ RowsGoOn
  BY <1>0, <1>3, EvaluateNames
<1>4. ASSUME NEW w \in Writers, Apply(w)
      PROVE  NamesInv' /\ RowsGoOn
  BY <1>0, <1>4, ApplyNames
<1>5. ASSUME NEW id \in Ids, TtlPasses(id)
      PROVE  NamesInv' /\ RowsGoOn
  BY <1>0, <1>5, ClockNames
<1>6. CASE UNCHANGED vars
  <2>1. RowsGoOn
    BY <1>0, <1>6, RowEnds DEF RowsGoOn, TypeOK, vars
  <2>2. NamesInv'
    BY <1>0, <1>6 DEF NamesInv, Known, Reserved, NoIntent, vars
  <2> QED
    BY <2>1, <2>2
<1>7. CASE Next
  <2>1. CASE \E w \in Writers : WriterStep(w)
    BY <1>0, <1>1, <1>2, <1>3, <1>4, <2>1 DEF WriterStep
  <2>2. CASE \E f \in Fillers : FillerStep(f)
    BY <1>1, <1>2, <2>2 DEF FillerStep, Procs
  <2>3. CASE \E o \in Operators : OperatorStep(o)
    BY <1>1, <1>2, <2>3 DEF OperatorStep, Procs
  <2>4. CASE \E p \in Procs : Abort(p)
    BY <1>1, <2>4
  <2>5. CASE \E id \in Ids : TtlPasses(id)
    BY <1>5, <2>5
  <2> QED
    BY <1>7, <2>1, <2>2, <2>3, <2>4, <2>5 DEF Next
<1> QED
  BY <1>6, <1>7

\* Any number of writers, paper-runners and operators, with or without a lock: an
\* intent that is filled, stopped or replaced never works again, and none changes
\* its side, whatever its row was when the process that writes it has read it
\* (expire_stale_intents, mark_intent_filled, apply_signal).
THEOREM EndedForGood == Spec => EndedStaysEnded
<1>1. NamesInv /\ [Next]_vars =>
        [\A id \in Ids : intents[id].status # "NONE" =>
           /\ Active(id)' => Active(id)
           /\ intents'[id].side = intents[id].side]_vars
  BY NextNames DEF RowsGoOn, RowGoesOn, Active
<1>2. NamesInv /\ [Next]_vars => NamesInv'
  BY NextNames
<1> QED
  BY <1>1, <1>2, InitNames, PTL DEF Spec, EndedStaysEnded

-----------------------------------------------------------------------------
(* What one working writer keeps, while others expire intents beside it *)

\* An intent that the working writer has listed or read to fill: it may have been
\* expired since, but it asks for what it did, no other intent works, and its fill
\* is covered.
Fillable(id, qty) ==
  /\ id \in Ids
  /\ intents[id].status # "FILLED" /\ intents[id].qty = qty
  /\ filled[id] + qty = intents[id].original
  /\ Backed(intents[id].side, qty)
  /\ ActiveIds \subseteq {id}

\* What the working writer remembers is still so, or does no harm.
WorkFits(w) ==
  /\ pc[w] = "fill" => /\ \A r \in todo[w] : Fillable(r.id, r.qty)
                       /\ \A r, x \in todo[w] : r.id = x.id
  /\ pc[w] \in {"fillpos", "fillcommit"} =>
       /\ Fillable(txn[w].id, txn[w].qty)
       /\ txn[w].paper /\ txn[w].ask \in 1..txn[w].qty /\ txn[w].status # "FILLED"
       /\ todo[w] = {}
  /\ pc[w] = "fillcommit" => txn[w].at = Newest(OpenPositions) /\ txn[w].held = Held
  /\ pc[w] \in {"buy", "sell"} => view[w].held = Held
  /\ pc[w] = "apply" /\ plan[w].new \in Ids => Backed(plan[w].side, plan[w].qty)

SharedInv ==
  /\ OneActiveInv
  /\ NamesInv
  /\ OneOpen
  /\ Held <= QtyCap
  /\ \A id \in Ids : RowFilled(intents[id], filled[id])
  /\ \A id \in Ids : NoIntent(id) => filled[id] = 0
  /\ \A id \in ActiveIds : Backed(intents[id].side, intents[id].qty)
  /\ \A w \in Writers : WorkFits(w)
  /\ LedgerBalanced

LEMMA InitShared == Init => SharedInv
<1> SUFFICES ASSUME Init PROVE SharedInv
  OBVIOUS
<1>1. OneActiveInv /\ NamesInv /\ LedgerBalanced
  BY InitOneActive, InitNames, InitBalanced
<1>2. OpenPositions = {} /\ ActiveIds = {}
  BY DEF Init, OpenPositions, ActiveIds, Active, NoRow
<1>3. Held = 0
  BY <1>2, NewestType DEF Held, HeldAt
<1>4. \A id \in Ids : RowFilled(intents[id], filled[id]) /\ filled[id] = 0
  BY DEF Init, NoRow, RowFilled
<1>5. \A w \in Writers : WorkFits(w)
  BY DEF Init, Procs, WorkFits
<1> QED
  BY <1>1, <1>2, <1>3, <1>4, <1>5, SizingAssumption DEF SharedInv, OneOpen

\* A decision to create an intent, taken on what is held, is covered: what else was
\* read does not matter.
LEMMA DecisionBacked ==
  ASSUME NEW buy, NEW sell, Held \in Nat, NEW d \in Decisions(Held, buy, sell), d.new # 0
  PROVE  Backed(d.side, d.qty)
<1>1. Hold.new = 0 /\ \A old : Cancel(old).new = 0
  BY DEF Hold, Cancel
<1>2. \A old, s, q : /\ Create(s, q).side = s /\ Create(s, q).qty = q
                     /\ Reprice(old, s, q).side = s /\ Reprice(old, s, q).qty = q
  BY DEF Create, Reprice
<1>3. CASE Held > 0
  <2>1. d.side = "SELL" /\ d.qty = ExitQty(Held)
    BY <1>1, <1>2, <1>3 DEF Decisions, SellSide
  <2> QED
    BY <1>3, <2>1, ExitQtyWithin DEF Backed
<1>4. CASE ~(Held > 0)
  <2>1. \E q \in BuyQtys : d.side = "BUY" /\ d.qty = q
    BY <1>1, <1>2, <1>4 DEF Decisions, BuySide
  <2> QED
    BY <1>4, <2>1, BuyQtysCapped, BuyQtysType, SizingAssumption DEF Backed
<1> QED
  BY <1>3, <1>4

\* The steps that write neither intents nor fills nor positions.
LEMMA ReadShared ==
  ASSUME SharedInv, OneActiveInv', NamesInv', UNCHANGED <<intents, filled, positions>>,
         \A w \in Writers : WorkFits(w)'
  PROVE  SharedInv'
<1>1. UNCHANGED <<ActiveIds, Held, OpenPositions>>
  BY DEF ActiveIds, Active, Held, HeldAt, OpenPositions
<1>2. LedgerBalanced'
  BY DEF SharedInv, LedgerBalanced, Inventory, OpenPositions, FilledOf
<1>3. \A s, q : Backed(s, q)' <=> Backed(s, q)
  BY <1>1 DEF Backed
<1> QED
  BY <1>1, <1>2, <1>3 DEF SharedInv, OneOpen, NoIntent

\* What a process that takes no step remembers stays right if the rows keep what
\* they ask for and positions stay as they are.
LEMMA OthersFit ==
  ASSUME TypeOK, NEW v \in Writers, WorkFits(v), UNCHANGED <<filled, positions>>,
         pc'[v] = pc[v], todo'[v] = todo[v], txn'[v] = txn[v],
         view'[v] = view[v], plan'[v] = plan[v],
         ActiveIds' \subseteq ActiveIds,
         \A id \in Ids : /\ intents'[id].status = "FILLED" => intents[id].status = "FILLED"
                         /\ intents'[id].qty = intents[id].qty
                         /\ intents'[id].original = intents[id].original
                         /\ intents'[id].side = intents[id].side
  PROVE  WorkFits(v)'
<1>1. UNCHANGED <<Held, Newest(OpenPositions)>>
  BY DEF Held, HeldAt, OpenPositions
<1>2. \A s, q : Backed(s, q) => Backed(s, q)'
  BY <1>1 DEF Backed
<1>3. \A id, qty : Fillable(id, qty) => Fillable(id, qty)'
  BY <1>1 DEF Fillable, Backed
<1> QED
  BY <1>1, <1>2, <1>3 DEF WorkFits

\* The reading steps of the process whose turn it is, and the expiry of any other.
LEMMA ReaderFits ==
  ASSUME SharedInv, TypeOK', NEW w \in Writers,
         BeginCycle(w) \/ ListActive(w) \/ StartFill(w) \/ ReadPosition(w) \/ EndFills(w)
           \/ ReadHeld(w) \/ ReadActiveBuy(w) \/ Evaluate(w) \/ Abort(w)
  PROVE  WorkFits(w)'
<1>0. TypeOK /\ w \in Procs /\ WorkFits(w) /\ Held \in Nat
  BY InventoryIsHeld DEF SharedInv, OneActiveInv, Procs
<1>1. UNCHANGED <<intents, filled, positions>>
  BY DEF BeginCycle, ListActive, StartFill, ReadPosition, EndFills, ReadHeld, ReadActiveBuy,
         Evaluate, Abort
<1>2. UNCHANGED <<ActiveIds, Held, Newest(OpenPositions)>>
  BY <1>1 DEF ActiveIds, Active, Held, HeldAt, OpenPositions
<1>3. \A s, q : Backed(s, q) => Backed(s, q)'
  BY <1>2 DEF Backed
<1>4. \A id, qty : Fillable(id, qty) => Fillable(id, qty)'
  BY <1>1, <1>2, <1>3 DEF Fillable
<1>5. CASE BeginCycle(w) \/ EndFills(w) \/ Abort(w)
  <2>1. pc'[w] \in {"expire", "position", "idle"}
    BY <1>0, <1>5 DEF BeginCycle, EndFills, Abort, Goto, TypeOK
  <2> QED
    BY <2>1 DEF WorkFits
<1>6. CASE ListActive(w)
  <2>1. pc'[w] = "fill" /\ todo'[w] = Rows(ActiveIds)
    BY <1>0, <1>6 DEF ListActive, Goto, TypeOK
  <2>2. ASSUME NEW id \in ActiveIds PROVE Fillable(id, intents[id].qty)
    BY DEF SharedInv, OneActiveInv, AtMostOneActive, Fillable, RowFilled, ActiveIds, Active
  <2>3. \A r \in Rows(ActiveIds) : r.id \in ActiveIds /\ r.qty = intents[r.id].qty
    BY DEF Rows
  <2>4. \A r, x \in Rows(ActiveIds) : r.id = x.id
    BY <2>3 DEF SharedInv, OneActiveInv, AtMostOneActive
  <2> QED
    BY <1>4, <2>1, <2>2, <2>3, <2>4 DEF WorkFits
<1>7. CASE StartFill(w)
  <2>1. PICK r \in todo[w] : \E ask \in FillAsks(r.qty) :
          /\ OpenTxn(w, r.id, ask, TRUE)
          /\ todo' = [todo EXCEPT ![w] = {x \in todo[w] : x.id < r.id}]
    BY <1>7 DEF StartFill
  <2> PICK ask \in FillAsks(r.qty) :
        /\ OpenTxn(w, r.id, ask, TRUE)
        /\ todo' = [todo EXCEPT ![w] = {x \in todo[w] : x.id < r.id}]
    BY <2>1
  <2>2. pc[w] = "fill" /\ pc'[w] = "fillpos"
    BY <1>0, <1>7 DEF StartFill, Goto, TypeOK
  <2>3. r.id \in Nat /\ r.qty \in Nat
    BY <1>0, LedgerAssumption DEF TypeOK, Ids
  <2>4. Fillable(r.id, r.qty) /\ \A x \in todo[w] : x.id = r.id
    BY <1>0, <2>2 DEF WorkFits
  <2>5. ask \in 1..r.qty
    BY <2>3 DEF FillAsks
  <2>6. /\ txn'[w].id = r.id /\ txn'[w].ask = ask /\ txn'[w].paper = TRUE
        /\ txn'[w].status = intents[r.id].status /\ txn'[w].qty = intents[r.id].qty
    BY <1>0 DEF OpenTxn, TypeOK
  <2>7. todo'[w] = {}
    BY <1>0, <2>3, <2>4 DEF TypeOK
  <2>8. intents[r.id].qty = r.qty /\ intents[r.id].status # "FILLED"
    BY <2>4 DEF Fillable
  <2> QED
    BY <1>4, <2>2, <2>4, <2>5, <2>6, <2>7, <2>8 DEF WorkFits
<1>8. CASE ReadPosition(w)
  <2>1. pc[w] = "fillpos" /\ pc'[w] = "fillcommit" /\ todo'[w] = todo[w]
    BY <1>0, <1>8 DEF ReadPosition, Goto, TypeOK
  <2>2. /\ txn'[w].id = txn[w].id /\ txn'[w].ask = txn[w].ask
        /\ txn'[w].paper = txn[w].paper /\ txn'[w].status = txn[w].status
        /\ txn'[w].qty = txn[w].qty
        /\ txn'[w].at = Newest(OpenPositions) /\ txn'[w].held = Held
    BY <1>0, <1>8 DEF ReadPosition, TypeOK, Txn, Held
  <2> QED
    BY <1>0, <1>2, <1>4, <2>1, <2>2 DEF WorkFits
<1>9. CASE ReadHeld(w)
  <2>1. pc'[w] = "buy" /\ view'[w].held = Held
    BY <1>0, <1>9 DEF ReadHeld, Goto, TypeOK, View, Held
  <2> QED
    BY <1>2, <2>1 DEF WorkFits
<1>10. CASE ReadActiveBuy(w)
  <2>1. pc[w] = "buy" /\ pc'[w] = "sell" /\ view'[w].held = view[w].held
    BY <1>0, <1>10 DEF ReadActiveBuy, Goto, TypeOK, View
  <2> QED
    BY <1>0, <1>2, <2>1 DEF WorkFits
<1>11. CASE Evaluate(w)
  <2> DEFINE sell == Newest(ActiveOf("SELL"))
  <2>1. PICK d \in Decisions(view[w].held, view[w].buy, sell) :
          /\ plan' = [plan EXCEPT ![w] = d]
          /\ pc' = [pc EXCEPT ![w] = IF d.action = "HOLD" THEN "idle" ELSE "apply"]
    BY <1>11 DEF Evaluate
  <2>2. view[w].held = Held /\ plan'[w] = d /\ pc'[w] \in {"idle", "apply"}
    BY <1>0, <1>11, <2>1 DEF Evaluate, WorkFits, TypeOK
  <2>3. d.new # 0 => Backed(d.side, d.qty)
    <3> HIDE DEF sell
    <3> QED
      BY <1>0, <2>1, <2>2, DecisionBacked
  <2>4. 0 \notin Ids
    BY DEF Ids
  <2> QED
    BY <1>3, <2>2, <2>3, <2>4 DEF WorkFits
<1> QED
  BY <1>5, <1>6, <1>7, <1>8, <1>9, <1>10, <1>11

\* Expiring rows, one's own symbol's or not, disturbs nobody.
LEMMA ExpireShared ==
  ASSUME SharedInv, OneActiveInv', NamesInv', NEW w \in Writers, Expire(w)
  PROVE  SharedInv'
<1>0. TypeOK /\ TypeOK' /\ w \in Procs /\ Known(w)
  BY DEF SharedInv, OneActiveInv, NamesInv, Procs
<1>1. UNCHANGED <<filled, positions>> /\ pc'[w] \in {"idle", "list", "position"}
  BY <1>0 DEF Expire, Goto, TypeOK
<1>2. \A id \in Ids :
        \/ intents'[id] = intents[id]
        \/ /\ intents'[id] = [intents[id] EXCEPT !.status = "EXPIRED"]
           /\ ~NoIntent(id)
  BY <1>0 DEF Expire, Known
<1>3. ASSUME NEW id \in Ids
      PROVE  /\ intents'[id].qty = intents[id].qty /\ intents'[id].side = intents[id].side
             /\ intents'[id].original = intents[id].original
             /\ intents'[id].status \in {intents[id].status, "EXPIRED"}
             /\ NoIntent(id)' => NoIntent(id)
  <2>1. intents[id] \in IntentRow
    BY <1>0 DEF TypeOK
  <2>2. /\ [intents[id] EXCEPT !.status = "EXPIRED"].qty = intents[id].qty
        /\ [intents[id] EXCEPT !.status = "EXPIRED"].side = intents[id].side
        /\ [intents[id] EXCEPT !.status = "EXPIRED"].original = intents[id].original
        /\ [intents[id] EXCEPT !.status = "EXPIRED"].status = "EXPIRED"
    BY <2>1 DEF IntentRow
  <2> QED
    BY <1>2, <2>2 DEF NoIntent
<1>4. ActiveIds' \subseteq ActiveIds
  BY <1>3 DEF ActiveIds, Active
<1>5. UNCHANGED <<Held, OpenPositions>>
  BY <1>1 DEF Held, HeldAt, OpenPositions
<1>6. ASSUME NEW v \in Writers PROVE WorkFits(v)'
  <2>1. CASE v = w
    BY <1>1, <2>1 DEF WorkFits
  <2>2. CASE v # w
    <3>1. /\ pc'[v] = pc[v] /\ todo'[v] = todo[v] /\ txn'[v] = txn[v]
          /\ view'[v] = view[v] /\ plan'[v] = plan[v] /\ WorkFits(v)
      BY <1>0, <2>2, OthersKept DEF WriterStep, Procs, SharedInv
    <3>2. \A id \in Ids : intents'[id].status = "FILLED" => intents[id].status = "FILLED"
      BY <1>3
    <3> QED
      BY <1>0, <1>1, <1>3, <1>4, <3>1, <3>2, OthersFit
  <2> QED
    BY <2>1, <2>2
<1>7. \A id \in Ids : RowFilled(intents'[id], filled'[id])
  BY <1>1, <1>3 DEF SharedInv, RowFilled
<1>8. \A id \in Ids : NoIntent(id)' => filled'[id] = 0
  BY <1>1, <1>3 DEF SharedInv
<1>9. \A id \in ActiveIds' : Backed(intents[id].side, intents[id].qty)'
  BY <1>3, <1>4, <1>5 DEF SharedInv, Backed, ActiveIds
<1>10. LedgerBalanced'
  <2>1. 0 \notin Ids
    BY DEF Ids
  <2> QED
    BY <1>0, <1>1, <1>3, <2>1, BalanceKept DEF SharedInv
<1> QED
  BY <1>1, <1>5, <1>6, <1>7, <1>8, <1>9, <1>10 DEF SharedInv, OneOpen

\* The fill of the working writer, of an intent that works or has been expired
\* since it was listed.
LEMMA CommitShared ==
  ASSUME SharedInv, WorksAlone, Operators = {}, OneActiveInv', NamesInv', NEW w \in Writers,
         CommitFill(w)
  PROVE  SharedInv'
<1> DEFINE t == txn[w]
           o == t.id
           q == t.ask
           s == intents[o].side
<1>0. /\ TypeOK /\ TypeOK' /\ OneOpen /\ w \in Procs /\ WorkFits(w) /\ Known(w) /\ t \in Txn
      /\ LedgerBalanced
  BY DEF SharedInv, OneActiveInv, NamesInv, Procs, TypeOK
<1>1. pc[w] = "fillcommit" /\ pc'[w] = "fill" /\ todo'[w] = todo[w]
  BY <1>0 DEF CommitFill, Goto, TypeOK
<1>2. /\ Fillable(o, t.qty) /\ t.paper /\ q \in 1..t.qty /\ t.status # "FILLED" /\ todo[w] = {}
      /\ t.at = Newest(OpenPositions) /\ t.held = Held /\ intents[o] \in IntentRow
  BY <1>0, <1>1 DEF WorkFits, TypeOK, Fillable
<1>3. FillFits(w)
  BY <1>2 DEF FillFits, Fillable
<1>4. /\ Applied(t) = q /\ FilledRow(t).side = s
      /\ FilledRow(t).original = intents[o].original
      /\ FilledRow(t).status = IF q = t.qty THEN "FILLED" ELSE intents[o].status
      /\ q # t.qty => FilledRow(t).qty = t.qty - q
  BY <1>0, <1>2, FilledRowShows
<1>5. /\ o \in Ids /\ q \in Nat \ {0} /\ OneOpen'
      /\ Held' = IF s = "BUY" THEN Held + q ELSE Held - q
      /\ intents' = [intents EXCEPT ![o] = FilledRow(t)]
      /\ filled' = [filled EXCEPT ![o] = @ + q]
  BY <1>0, <1>3, CommitMoves
<1>6. LedgerBalanced'
  BY <1>0, <1>3, CommitBalanced
<1> HIDE DEF s, q, o, t
<1>7. /\ intents'[o] = FilledRow(t) /\ filled'[o] = filled[o] + q
      /\ \A id \in Ids \ {o} : intents'[id] = intents[id] /\ filled'[id] = filled[id]
  BY <1>0, <1>5 DEF TypeOK
<1>8. /\ filled[o] + t.qty = intents[o].original /\ filled[o] \in Nat /\ t.qty \in Nat
      /\ Backed(s, t.qty) /\ ActiveIds \subseteq {o} /\ Held \in Nat /\ QtyCap \in Nat
  BY <1>0, <1>2, <1>5, InventoryIsHeld, SizingAssumption DEF Fillable, TypeOK, Txn, s
<1>9. Held' <= QtyCap
  BY <1>2, <1>5, <1>8 DEF SharedInv, Backed
<1>10. \A id \in Ids : RowFilled(intents'[id], filled'[id])
  <2>1. RowFilled(FilledRow(t), filled[o] + q)
    BY <1>2, <1>4, <1>5, <1>8 DEF RowFilled
  <2> QED
    BY <1>7, <2>1 DEF SharedInv
<1>11. \A id \in Ids : NoIntent(id)' => filled'[id] = 0
  <2>1. intents'[o].status \in {"FILLED", intents[o].status} /\ intents[o].status # "NONE"
    <3>1. ~NoIntent(o)
      BY <1>0, <1>5 DEF Known, o, t
    <3> QED
      BY <1>4, <1>7, <3>1 DEF NoIntent
  <2>2. ASSUME NEW id \in Ids, intents'[id].status = "NONE"
        PROVE  filled'[id] = 0
    BY <1>7, <2>1, <2>2 DEF SharedInv, NoIntent
  <2> QED
    BY <2>2 DEF NoIntent
<1>12. \A id \in ActiveIds' : id = o /\ q # t.qty
  BY <1>4, <1>7, <1>8 DEF ActiveIds, Active
<1>13. ASSUME NEW id \in Ids, id = o, q # t.qty
       PROVE  Backed(intents[id].side, intents[id].qty)'
  <2>1. intents'[id].side = s /\ intents'[id].qty = t.qty - q /\ t.qty - q > 0
    BY <1>2, <1>4, <1>5, <1>7, <1>8, <1>13
  <2>2. t.qty > 0 /\ (s = "BUY" => Held + t.qty <= QtyCap) /\ (s # "BUY" => t.qty <= Held)
    BY <1>8 DEF Backed
  <2>3. (s = "BUY" => Held' + (t.qty - q) <= QtyCap) /\ (s # "BUY" => t.qty - q <= Held')
    BY <1>5, <1>8, <2>2
  <2> QED
    BY <2>1, <2>3 DEF Backed
<1>14. \A id \in ActiveIds' : Backed(intents[id].side, intents[id].qty)'
  <2>1. ActiveIds' \subseteq Ids
    BY DEF ActiveIds
  <2> QED
    BY <1>12, <1>13, <2>1
<1>15. ASSUME NEW v \in Writers PROVE WorkFits(v)'
  <2>1. CASE v = w
    BY <1>1, <1>2, <2>1 DEF WorkFits
  <2>2. CASE v # w
    <3>1. pc'[v] = pc[v] /\ pc[v] \in {"idle", "expire"}
      BY <1>0, <1>1, <2>2, OthersKept DEF WriterStep, Procs, WorksAlone, Working
    <3> QED
      BY <3>1 DEF WorkFits
  <2> QED
    BY <2>1, <2>2
<1> QED
  BY <1>5, <1>6, <1>9, <1>10, <1>11, <1>14, <1>15 DEF SharedInv

\* Its decision, when the intent it is about may have been expired since.
LEMMA ApplyShared ==
  ASSUME SharedInv, WorksAlone, OneActiveInv', NamesInv', NEW w \in Writers, Apply(w)
  PROVE  SharedInv'
<1> DEFINE d == plan[w]
<1>0. /\ TypeOK /\ TypeOK' /\ OneOpen /\ w \in Procs /\ WorkFits(w) /\ Reserved(w) /\ Known(w)
      /\ d \in Plan /\ LedgerBalanced /\ AtMostOneActive'
  BY DEF SharedInv, OneActiveInv, NamesInv, Procs, TypeOK
<1>1. UNCHANGED <<filled, positions>> /\ pc[w] = "apply" /\ pc'[w] = "idle"
  <2>1. UNCHANGED <<filled, positions>> /\ Goto(w, "apply", "idle")
    BY Zenon DEF Apply
  <2> QED
    BY <1>0, <2>1 DEF Goto, TypeOK
<1>2. d.new \in Ids => filled[d.new] = 0 /\ Backed(d.side, d.qty)
  BY <1>0, <1>1 DEF WorkFits, Reserved, SharedInv
<1>3. \A id \in Ids :
        intents'[id] = CASE id = d.new -> NewRow(d)
                         [] id = d.old /\ d.action = "REPRICE" ->
                              [intents[id] EXCEPT !.status = "REPLACED", !.by = d.new]
                         [] id = d.old /\ d.action = "CANCEL" ->
                              [intents[id] EXCEPT !.status = "CANCEL_REQUESTED"]
                         [] OTHER -> intents[id]
  BY DEF Apply
<1>4. ASSUME NEW id \in Ids, id # d.new
      PROVE  /\ intents'[id].qty = intents[id].qty /\ intents'[id].side = intents[id].side
             /\ intents'[id].original = intents[id].original
             /\ intents'[id].status = intents[id].status
                  \/ intents'[id].status \in {"REPLACED", "CANCEL_REQUESTED"}
  <2> DEFINE replaced == [intents[id] EXCEPT !.status = "REPLACED", !.by = d.new]
             stopped == [intents[id] EXCEPT !.status = "CANCEL_REQUESTED"]
  <2>1. intents[id] \in IntentRow
    BY <1>0 DEF TypeOK
  <2>2. intents'[id] \in {intents[id], replaced, stopped}
    BY <1>3, <1>4
  <2>3. /\ replaced.qty = intents[id].qty /\ replaced.side = intents[id].side
        /\ replaced.original = intents[id].original /\ replaced.status = "REPLACED"
        /\ stopped.qty = intents[id].qty /\ stopped.side = intents[id].side
        /\ stopped.original = intents[id].original /\ stopped.status = "CANCEL_REQUESTED"
    BY <2>1 DEF IntentRow
  <2> HIDE DEF replaced, stopped
  <2> QED
    BY <2>2, <2>3
<1>5. d.new \in Ids => intents'[d.new] = NewRow(d)
  <2>1. d.new \in Ids => d.old # d.new
    BY <1>0 DEF Known, Reserved
  <2> DEFINE n == d.new
             row == NewRow(d)
             replaced == [intents[n] EXCEPT !.status = "REPLACED", !.by = n]
             stopped == [intents[n] EXCEPT !.status = "CANCEL_REQUESTED"]
  <2>2. n \in Ids =>
          intents'[n] = CASE n = n -> row
                          [] n = d.old /\ d.action = "REPRICE" -> replaced
                          [] n = d.old /\ d.action = "CANCEL" -> stopped
                          [] OTHER -> intents[n]
    BY <1>3
  <2> HIDE DEF row, replaced, stopped
  <2> QED
    BY <2>1, <2>2 DEF row
<1>6. /\ NewRow(d).status = "ACTIVE" /\ NewRow(d).side = d.side
      /\ NewRow(d).qty = d.qty /\ NewRow(d).original = d.qty /\ d.qty \in Nat
  BY <1>0 DEF NewRow, Plan
<1> HIDE DEF d
<1>7. UNCHANGED <<Held, OpenPositions>>
  BY <1>1 DEF Held, HeldAt, OpenPositions
<1>8. \A id \in Ids : RowFilled(intents'[id], filled'[id])
  <2>1. ASSUME NEW id \in Ids, id = d.new PROVE RowFilled(intents'[id], filled'[id])
    BY <1>1, <1>2, <1>5, <1>6, <2>1 DEF RowFilled
  <2>2. ASSUME NEW id \in Ids, id # d.new PROVE RowFilled(intents'[id], filled'[id])
    <3>1. RowFilled(intents[id], filled[id])
      BY DEF SharedInv
    <3> QED
      BY <1>1, <1>4, <2>2, <3>1 DEF RowFilled
  <2> QED
    BY <2>1, <2>2
<1>9. \A id \in Ids : NoIntent(id)' => filled'[id] = 0
  BY <1>1, <1>4, <1>5, <1>6 DEF SharedInv, NoIntent
<1>10. \A id \in ActiveIds' : Backed(intents[id].side, intents[id].qty)'
  <2>1. ASSUME NEW id \in Ids, Active(id)', id = d.new
        PROVE  Backed(intents[id].side, intents[id].qty)'
    BY <1>2, <1>5, <1>6, <1>7, <2>1 DEF Backed
  <2>2. ASSUME NEW id \in Ids, Active(id)', id # d.new
        PROVE  Backed(intents[id].side, intents[id].qty)'
    <3>1. id \in ActiveIds
      BY <1>4, <2>2 DEF ActiveIds, Active
    <3>2. Backed(intents[id].side, intents[id].qty)
      BY <3>1 DEF SharedInv
    <3> QED
      BY <1>4, <1>7, <2>2, <3>2 DEF Backed
  <2> QED
    BY <2>1, <2>2 DEF ActiveIds
<1>11. LedgerBalanced'
  BY <1>0, <1>1, <1>2, <1>4, BalanceKept
<1>12. ASSUME NEW v \in Writers PROVE WorkFits(v)'
  <2>1. CASE v = w
    BY <1>1, <2>1 DEF WorkFits
  <2>2. CASE v # w
    <3>1. pc'[v] = pc[v] /\ pc[v] \in {"idle", "expire"}
      BY <1>0, <1>1, <2>2, OthersKept DEF WriterStep, Procs, WorksAlone, Working
    <3> QED
      BY <3>1 DEF WorkFits
  <2> QED
    BY <2>1, <2>2
<1>13. OneOpen' /\ Held' <= QtyCap
  BY <1>0, <1>7 DEF SharedInv, OneOpen
<1> QED
  BY <1>8, <1>9, <1>10, <1>11, <1>12, <1>13 DEF SharedInv

\* The clock.
LEMMA ClockShared ==
  ASSUME SharedInv, OneActiveInv', NamesInv', NEW id \in Ids, TtlPasses(id)
  PROVE  SharedInv'
<1>0. TypeOK /\ 0 \notin Ids /\ LedgerBalanced
  BY DEF SharedInv, OneActiveInv, Ids
<1>1. /\ UNCHANGED <<filled, positions, pc, todo, txn, view, plan>>
      /\ intents' = [intents EXCEPT ![id].due = TRUE]
  BY DEF TtlPasses
<1>2. \A i \in Ids : /\ intents'[i].status = intents[i].status
                     /\ intents'[i].qty = intents[i].qty
                     /\ intents'[i].side = intents[i].side
                     /\ intents'[i].original = intents[i].original
  BY <1>0, <1>1 DEF TypeOK, IntentRow
<1>3. UNCHANGED <<Held, OpenPositions, ActiveIds>>
  BY <1>1, <1>2 DEF Held, HeldAt, OpenPositions, ActiveIds, Active
<1>4. \A w \in Writers : WorkFits(w)'
  BY <1>0, <1>1, <1>2, <1>3, OthersFit DEF SharedInv
<1>5. LedgerBalanced'
  BY <1>0, <1>1, <1>2, BalanceKept
<1>6. \A i \in Ids : RowFilled(intents'[i], filled'[i]) /\ (NoIntent(i)' => filled'[i] = 0)
  BY <1>1, <1>2 DEF SharedInv, RowFilled, NoIntent
<1>7. \A i \in ActiveIds' : Backed(intents[i].side, intents[i].qty)'
  BY <1>2, <1>3 DEF SharedInv, Backed, ActiveIds
<1> QED
  BY <1>3, <1>4, <1>5, <1>6, <1>7 DEF SharedInv, OneOpen

\* As long as one writer works at a time and nobody else fills, every step, the
\* expiry by other writers included, keeps the invariant.
LEMMA NextShared ==
  ASSUME WorksAlone, Fillers = {}, Operators = {}, SharedInv, [Next]_vars
  PROVE  SharedInv'
<1>0. OneActiveInv' /\ NamesInv' /\ TypeOK /\ TypeOK' /\ Procs = Writers
  BY NextOneActive, NextNames DEF SharedInv, OneActiveInv, Procs
<1>1. ASSUME NEW w \in Writers,
             BeginCycle(w) \/ ListActive(w) \/ StartFill(w) \/ ReadPosition(w) \/ EndFills(w)
               \/ ReadHeld(w) \/ ReadActiveBuy(w) \/ Evaluate(w) \/ Abort(w)
      PROVE  SharedInv'
  <2>1. UNCHANGED <<intents, filled, positions>>
    BY <1>1 DEF BeginCycle, ListActive, StartFill, ReadPosition, EndFills, ReadHeld,
                ReadActiveBuy, Evaluate, Abort
  <2>2. ActiveIds' = ActiveIds
    BY <2>1 DEF ActiveIds, Active
  <2>3. ASSUME NEW v \in Writers, v # w PROVE WorkFits(v)'
    <3>1. /\ pc'[v] = pc[v] /\ todo'[v] = todo[v] /\ txn'[v] = txn[v]
          /\ view'[v] = view[v] /\ plan'[v] = plan[v] /\ WorkFits(v)
      BY <1>0, <1>1, <2>3, OthersKept DEF WriterStep, SharedInv
    <3> QED
      BY <1>0, <2>1, <2>2, <3>1, OthersFit
  <2>4. WorkFits(w)'
    BY <1>0, <1>1, ReaderFits
  <2> QED
    BY <1>0, <2>1, <2>3, <2>4, ReadShared
<1>2. ASSUME NEW w \in Writers, Expire(w) \/ CommitFill(w) \/ Apply(w)
      PROVE  SharedInv'
  BY <1>0, <1>2, ExpireShared, CommitShared, ApplyShared
<1>3. ASSUME NEW id \in Ids, TtlPasses(id)
      PROVE  SharedInv'
  BY <1>0, <1>3, ClockShared
<1>4. CASE UNCHANGED vars
  <2>1. ActiveIds' = ActiveIds
    BY <1>4 DEF vars, ActiveIds, Active
  <2>2. \A w \in Writers : WorkFits(w)'
    BY <1>0, <1>4, <2>1, OthersFit DEF SharedInv, vars
  <2> QED
    BY <1>0, <1>4, <2>2, ReadShared DEF vars
<1> QED
  BY <1>0, <1>1, <1>2, <1>3, <1>4 DEF Next, WriterStep

\* What the ledger promises follows.
LEMMA SharedBounds ==
  SharedInv => FilledWithinOrder /\ LedgerBalanced /\ ExposureCapped /\ SellBacked
<1> SUFFICES ASSUME SharedInv
             PROVE  FilledWithinOrder /\ LedgerBalanced /\ ExposureCapped /\ SellBacked
  OBVIOUS
<1>0. FilledWithinOrder /\ LedgerBalanced
  BY DEF SharedInv, RowFilled, FilledWithinOrder
<1>1. /\ TypeOK /\ AtMostOneActive /\ QtyCap \in Nat /\ Held <= QtyCap
      /\ \A id \in ActiveIds : Backed(intents[id].side, intents[id].qty)
  BY SizingAssumption DEF SharedInv, OneActiveInv
<1>2. Inventory = Held /\ Held \in Nat
  BY InventoryIsHeld DEF SharedInv, OneActiveInv
<1>3. ASSUME NEW side \in Sides
      PROVE  \/ QtyOf(side) = 0
             \/ \E id \in ActiveOf(side) : QtyOf(side) = intents[id].qty
  <2> DEFINE qtys == [id \in Ids |-> intents[id].qty]
  <2>1. CASE ActiveOf(side) = {}
    BY <2>1, SumOfOne DEF QtyOf
  <2>2. ASSUME NEW i \in ActiveOf(side)
        PROVE  QtyOf(side) = intents[i].qty
    <3>1. ActiveOf(side) \subseteq {i} /\ i \in Ids /\ intents[i].qty \in Int
      BY <1>1 DEF AtMostOneActive, ActiveOf, ActiveIds, TypeOK, IntentRow
    <3>2. qtys[i] = intents[i].qty
      BY <3>1
    <3>3. SumOver(ActiveOf(side), qtys) = qtys[i]
      <4> HIDE DEF qtys
      <4> QED
        BY <3>1, <3>2, SumOfOne
    <3> QED
      BY <3>2, <3>3 DEF QtyOf
  <2> QED
    BY <2>1, <2>2
<1>4. ExposureCapped
  <2>1. CASE QtyOf("BUY") = 0
    BY <1>1, <1>2, <2>1 DEF ExposureCapped
  <2>2. ASSUME NEW id \in ActiveOf("BUY"), QtyOf("BUY") = intents[id].qty
        PROVE  ExposureCapped
    BY <1>1, <1>2, <2>2 DEF ExposureCapped, ActiveOf, Backed
  <2> QED
    BY <1>3, <2>1, <2>2 DEF Sides
<1>5. SellBacked
  BY <1>1, <1>2, <1>3 DEF SellBacked, ActiveOf, Backed, Sides
<1> QED
  BY <1>0, <1>4, <1>5

\* A writer that runs alone keeps its exposure, what is held and what its active
\* buys may add, within the position limit, partial fills and failures included.
THEOREM LoneWriterCapsExposure ==
  ASSUME \A v, w \in Writers : v = w, Fillers = {}, Operators = {}
  PROVE  Spec => []ExposureCapped
<1>1. SharedInv /\ [Next]_vars => SharedInv'
  BY NextShared DEF WorksAlone
<1>2. Init => SharedInv
  BY InitShared
<1> QED
  BY <1>1, <1>2, SharedBounds, PTL DEF Spec

\* And it never asks to sell more than it holds.
THEOREM LoneWriterBacksSells ==
  ASSUME \A v, w \in Writers : v = w, Fillers = {}, Operators = {}
  PROVE  Spec => []SellBacked
<1>1. SharedInv /\ [Next]_vars => SharedInv'
  BY NextShared DEF WorksAlone
<1>2. Init => SharedInv
  BY InitShared
<1> QED
  BY <1>1, <1>2, SharedBounds, PTL DEF Spec

\* The positions of a writer that runs alone are what its fill events add up to,
\* bought less sold, and a closed position holds nothing, over partial fills,
\* repriced orders and failures between any two of its calls.
THEOREM LoneWriterBalanced ==
  ASSUME \A v, w \in Writers : v = w, Fillers = {}, Operators = {}
  PROVE  Spec => []LedgerBalanced
<1>1. SharedInv /\ [Next]_vars => SharedInv'
  BY NextShared DEF WorksAlone
<1>2. Init => SharedInv
  BY InitShared
<1> QED
  BY <1>1, <1>2, SharedBounds, PTL DEF Spec
=============================================================================
