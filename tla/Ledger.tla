------------------------------- MODULE Ledger -------------------------------
(***************************************************************************)
(* The local order ledger of one symbol: the order_intents and positions   *)
(* tables, and the processes that read and write them through              *)
(* BotRepository.                                                          *)
(*                                                                         *)
(*  - a writer (ws-shadow or bot-rest) runs the strategy cycle of          *)
(*    run_symbol_once / evaluate_ws_snapshot_once;                         *)
(*  - a filler (paper-runner) runs run_paper_fill_once;                    *)
(*  - an operator runs the CLI command mark-filled.                        *)
(*                                                                         *)
(* Every repository call is a transaction of its own and none locks the    *)
(* rows it reads, so a call that reads and later writes is two steps, and  *)
(* its write is an UPDATE by primary key of the columns it changed,        *)
(* whatever the row holds by then.                                         *)
(*                                                                         *)
(* Quantities are integers (units of base coin).  Prices are left out: a   *)
(* draft order, a reprice and a market that crosses a limit are choices.   *)
(* An intent is named by its place in the order of created_at, which is    *)
(* the moment its decision was taken.                                      *)
(***************************************************************************)
EXTENDS Sizing, Sequences, FiniteSets

CONSTANTS
  Writers,       \* strategy writer processes
  Fillers,       \* paper-runner processes
  Operators,     \* operators at the CLI
  PaperTrading,  \* PAPER_TRADING_ENABLED: writers simulate fills in a cycle
  PartialFills,  \* PAPER_MIN_FILL_RATIO < 1
  ManualQtys,    \* what an operator may type as the filled quantity
  MaxIntents,    \* bound: intents ever decided
  MaxFilled      \* bound: no new fill of an intent filled this much

ASSUME LedgerAssumption ==
  /\ Writers \cap (Fillers \cup Operators) = {}
  /\ Fillers \cap Operators = {}
  /\ PaperTrading \in BOOLEAN
  /\ PartialFills \in BOOLEAN
  /\ ManualQtys \subseteq Nat \ {0}
  /\ MaxIntents \in Nat
  /\ MaxFilled \in Nat

VARIABLES
  intents,    \* order_intents
  filled,     \* per intent, the fill_qty of its fill events added up
  positions,  \* the positions rows, in the order of opened_at
  nextId,     \* the next intent name
  pc,         \* where each process is
  todo,       \* intent rows a process has read and not yet dealt with
  txn,        \* the open mark_intent_filled transaction of a process
  view,       \* what a writer has read for its decision
  plan        \* the decision a writer is about to apply

vars == <<intents, filled, positions, nextId, pc, todo, txn, view, plan>>

Procs == Writers \cup Fillers \cup Operators
Ids == 1..MaxIntents
Sides == {"BUY", "SELL"}
Statuses == {"NONE", "ACTIVE", "FILLED", "CANCEL_REQUESTED", "REPLACED", "EXPIRED"}
PCs == {"idle", "expire", "list", "fill", "fillpos", "fillcommit",
        "position", "buy", "sell", "apply"}

\* An order_intents row; "NONE" is no row.  original is the quantity it was
\* created with, due says expires_at has passed, by is replaced_by_id (0: none).
IntentRow == [status : Statuses, side : Sides, qty : Nat, original : Nat,
              due : BOOLEAN, by : Nat]
NoRow == [status |-> "NONE", side |-> "BUY", qty |-> 0, original |-> 0,
          due |-> FALSE, by |-> 0]

PositionRow == [qty : Nat, open : BOOLEAN]

\* An open fill transaction: the quantity asked for, the intent row as read
\* and the position row as read (at = 0: none).
Txn == [id : Nat, ask : Nat, paper : BOOLEAN, status : Statuses, qty : Nat,
        at : Nat, held : Nat]
NoTxn == [id |-> 0, ask |-> 0, paper |-> TRUE, status |-> "NONE", qty |-> 0,
          at |-> 0, held |-> 0]

View == [held : Nat, buy : Nat]
NoView == [held |-> 0, buy |-> 0]

\* A SignalDecision: what to do, the intent it cancels or replaces (0: none),
\* the intent it creates (0: none) with its side and quantity.
Actions == {"HOLD", "INTENT", "REPRICE", "CANCEL"}
Plan == [action : Actions, old : Nat, new : Nat, side : Sides, qty : Nat]
Hold == [action |-> "HOLD", old |-> 0, new |-> 0, side |-> "BUY", qty |-> 0]

-----------------------------------------------------------------------------
(* Queries *)

Active(id) == intents[id].status = "ACTIVE"
ActiveIds == {id \in Ids : Active(id)}
ActiveOf(side) == {id \in ActiveIds : intents[id].side = side}

\* ORDER BY created_at DESC LIMIT 1 (0: no row).
IsNewest(i, S) == i \in S /\ \A j \in S : i >= j
Newest(S) == IF \E i \in S : IsNewest(i, S) THEN CHOOSE i \in S : IsNewest(i, S) ELSE 0

OpenPositions == {i \in DOMAIN positions : positions[i].open}
HeldAt(i) == IF i = 0 THEN 0 ELSE positions[i].qty

Rows(S) == {[id |-> i, qty |-> intents[i].qty] : i \in S}

-----------------------------------------------------------------------------
(* The decision *)

Create(side, qty) ==
  [action |-> "INTENT", old |-> 0, new |-> nextId, side |-> side, qty |-> qty]
Reprice(old, side, qty) ==
  [action |-> "REPRICE", old |-> old, new |-> nextId, side |-> side, qty |-> qty]
Cancel(old) ==
  [action |-> "CANCEL", old |-> old, new |-> 0, side |-> "BUY", qty |-> 0]

\* Slip: the active buy is not looked at.
BlindBuySide(buy) == {Hold} \cup {Create("BUY", q) : q \in BuyQtys}

\* What _evaluate_buy_side may return: the draft may be a hold or an order,
\* and an order's price may or may not have moved past the reprice threshold.
BuySide(buy) ==
  IF buy = 0
    THEN {Hold} \cup {Create("BUY", q) : q \in BuyQtys}
    ELSE {Hold, Cancel(buy)} \cup {Reprice(buy, "BUY", q) : q \in BuyQtys}

SellSide(held, sell) ==
  {Hold, IF sell = 0 THEN Create("SELL", ExitQty(held))
                     ELSE Reprice(sell, "SELL", ExitQty(held))}

\* StrategyEngine.evaluate on the position and the active intents as read.
Decisions(held, buy, sell) ==
  IF held > 0
    THEN IF buy # 0 THEN {Cancel(buy)} ELSE SellSide(held, sell)
    ELSE IF sell # 0 THEN {Cancel(sell)} ELSE BuySide(buy)

-----------------------------------------------------------------------------
(* Steps of a process *)

Goto(p, from, to) == pc[p] = from /\ pc' = [pc EXCEPT ![p] = to]

Init ==
  /\ intents = [id \in Ids |-> NoRow]
  /\ filled = [id \in Ids |-> 0]
  /\ positions = <<>>
  /\ nextId = 1
  /\ pc = [p \in Procs |-> "idle"]
  /\ todo = [p \in Procs |-> {}]
  /\ txn = [p \in Procs |-> NoTxn]
  /\ view = [p \in Procs |-> NoView]
  /\ plan = [p \in Procs |-> Hold]

\* Slip: the comparison of expires_at is the wrong way round.
BeginCycleOnFresh(w) ==
  /\ Goto(w, "idle", "expire")
  /\ todo' = [todo EXCEPT ![w] = Rows({id \in ActiveIds : ~intents[id].due})]
  /\ UNCHANGED <<intents, filled, positions, nextId, txn, view, plan>>

\* expire_stale_intents, first half: the due active rows are read.
BeginCycle(w) ==
  /\ Goto(w, "idle", "expire")
  /\ todo' = [todo EXCEPT ![w] = Rows({id \in ActiveIds : intents[id].due})]
  /\ UNCHANGED <<intents, filled, positions, nextId, txn, view, plan>>

\* Second half: every row read is marked expired.  The query has no symbol, so a
\* cycle of another symbol expires these rows too; it has no other use for them.
Expire(w) ==
  /\ \/ Goto(w, "expire", IF PaperTrading THEN "list" ELSE "position")
     \/ Goto(w, "expire", "idle")
  /\ intents' = [id \in Ids |->
                   IF \E r \in todo[w] : r.id = id
                     THEN [intents[id] EXCEPT !.status = "EXPIRED"]
                     ELSE intents[id]]
  /\ todo' = [todo EXCEPT ![w] = {}]
  /\ UNCHANGED <<filled, positions, nextId, txn, view, plan>>

\* Slip: the list is not restricted to active intents.
ListAll(p) ==
  /\ Goto(p, IF p \in Writers THEN "list" ELSE "idle", "fill")
  /\ todo' = [todo EXCEPT ![p] = Rows({id \in Ids : intents[id].status # "NONE"})]
  /\ UNCHANGED <<intents, filled, positions, nextId, txn, view, plan>>

\* simulate_snapshot reads the active intents; a filler's round begins here.
ListActive(p) ==
  /\ Goto(p, IF p \in Writers THEN "list" ELSE "idle", "fill")
  /\ todo' = [todo EXCEPT ![p] = Rows(ActiveIds)]
  /\ UNCHANGED <<intents, filled, positions, nextId, txn, view, plan>>

\* What _simulate_intent may ask to fill of an intent of quantity q that the
\* market crossed.
FillAsks(q) == IF PartialFills THEN 1..q ELSE {q} \ {0}

\* mark_intent_filled opens: the intent's row is read again, whatever its
\* status is by now.
OpenTxn(p, id, ask, paper) ==
  /\ filled[id] < MaxFilled
  /\ txn' = [txn EXCEPT ![p] =
               [id |-> id, ask |-> ask, paper |-> paper,
                status |-> intents[id].status, qty |-> intents[id].qty,
                at |-> 0, held |-> 0]]

\* The next listed intent that the market crosses (newest first); those before
\* it are not crossed and are dropped.
StartFill(p) ==
  /\ Goto(p, "fill", "fillpos")
  /\ \E r \in todo[p] : \E ask \in FillAsks(r.qty) :
       /\ OpenTxn(p, r.id, ask, TRUE)
       /\ todo' = [todo EXCEPT ![p] = {x \in @ : x.id < r.id}]
  /\ UNCHANGED <<intents, filled, positions, nextId, view, plan>>

\* No intent left is crossed.
EndFills(p) ==
  /\ Goto(p, "fill", IF p \in Writers THEN "position" ELSE "idle")
  /\ todo' = [todo EXCEPT ![p] = {}]
  /\ UNCHANGED <<intents, filled, positions, nextId, txn, view, plan>>

\* An operator confirms a fill by hand.
MarkFilled(o) ==
  /\ Goto(o, "idle", "fillpos")
  /\ \E id \in Ids, ask \in ManualQtys :
       /\ intents[id].status # "NONE"
       /\ OpenTxn(o, id, ask, FALSE)
  /\ UNCHANGED <<intents, filled, positions, nextId, todo, view, plan>>

\* _apply_fill_to_position reads the newest open position.
ReadPosition(p) ==
  /\ Goto(p, "fillpos", "fillcommit")
  /\ LET at == Newest(OpenPositions)
     IN txn' = [txn EXCEPT ![p].at = at, ![p].held = HeldAt(at)]
  /\ UNCHANGED <<intents, filled, positions, nextId, todo, view, plan>>

Applied(t) == IF t.paper THEN Lower(t.ask, t.qty) ELSE t.ask

\* Slip: a partial fill leaves the quantity as it was.
FilledRowKeepsQty(t) ==
  LET row == intents[t.id] IN
  IF t.paper /\ Applied(t) < t.qty THEN row ELSE [row EXCEPT !.status = "FILLED"]

\* The intent row after the fill: a partial paper fill only lowers the
\* quantity; any other sets the status, which is written only if it changed.
FilledRow(t) ==
  LET row == intents[t.id] IN
  IF t.paper /\ Applied(t) < t.qty
    THEN [row EXCEPT !.qty = t.qty - Applied(t)]
    ELSE IF t.status = "FILLED" THEN row ELSE [row EXCEPT !.status = "FILLED"]

\* Slip: a buy replaces the quantity held instead of adding to it.
OverwrittenPositions(t, q) ==
  IF t.at = 0
    THEN IF intents[t.id].side = "BUY" THEN Append(positions, [qty |-> q, open |-> TRUE])
                                       ELSE positions
    ELSE IF intents[t.id].side = "BUY"
           THEN [positions EXCEPT ![t.at].qty = q]
           ELSE [positions EXCEPT ![t.at].qty = t.held - q, ![t.at].open = t.held > q]

\* Slip: a sell is not limited to what is held.
OversoldPositions(t, q) ==
  IF intents[t.id].side = "BUY" /\ t.at = 0
    THEN Append(positions, [qty |-> q, open |-> TRUE])
    ELSE IF t.at = 0 THEN positions
    ELSE IF intents[t.id].side = "BUY"
           THEN [positions EXCEPT ![t.at].qty = t.held + q]
           ELSE [positions EXCEPT ![t.at].qty = t.held - q, ![t.at].open = t.held # q]

\* The positions table after the fill of quantity q.
FilledPositions(t, q) ==
  IF intents[t.id].side = "BUY"
    THEN IF t.at = 0
           THEN Append(positions, [qty |-> q, open |-> TRUE])
           ELSE [positions EXCEPT ![t.at].qty = t.held + q]
    ELSE IF t.at = 0
           THEN positions
           ELSE LET left == t.held - Lower(q, t.held)
                IN [positions EXCEPT ![t.at].qty = left,
                                     ![t.at].open = @ /\ left > 0]

\* mark_intent_filled commits.
CommitFill(p) ==
  /\ Goto(p, "fillcommit", IF p \in Operators THEN "idle" ELSE "fill")
  /\ LET t == txn[p] IN
       /\ intents' = [intents EXCEPT ![t.id] = FilledRow(t)]
       /\ filled' = [filled EXCEPT ![t.id] = @ + Applied(t)]
       /\ positions' = FilledPositions(t, Applied(t))
  /\ txn' = [txn EXCEPT ![p] = NoTxn]
  /\ UNCHANGED <<nextId, todo, view, plan>>

\* get_position_state, then active_intent(BUY): two transactions.
ReadHeld(w) ==
  /\ Goto(w, "position", "buy")
  /\ view' = [view EXCEPT ![w].held = HeldAt(Newest(OpenPositions))]
  /\ UNCHANGED <<intents, filled, positions, nextId, todo, txn, plan>>

ReadActiveBuy(w) ==
  /\ Goto(w, "buy", "sell")
  /\ view' = [view EXCEPT ![w].buy = Newest(ActiveOf("BUY"))]
  /\ UNCHANGED <<intents, filled, positions, nextId, todo, txn, plan>>

\* active_intent(SELL) and the decision, which names the intent it creates.
Evaluate(w) ==
  /\ pc[w] = "sell"
  /\ \E d \in Decisions(view[w].held, view[w].buy, Newest(ActiveOf("SELL"))) :
       /\ d.new # 0 => nextId \in Ids
       /\ nextId' = IF d.new # 0 THEN nextId + 1 ELSE nextId
       /\ plan' = [plan EXCEPT ![w] = d]
       /\ pc' = [pc EXCEPT ![w] = IF d.action = "HOLD" THEN "idle" ELSE "apply"]
  /\ view' = [view EXCEPT ![w] = NoView]
  /\ UNCHANGED <<intents, filled, positions, todo, txn>>

NewRow(d) == [status |-> "ACTIVE", side |-> d.side, qty |-> d.qty,
              original |-> d.qty, due |-> FALSE, by |-> 0]

\* Slip: a reprice amends the row of the intent instead of replacing it.
AmendInPlace(w) ==
  /\ Goto(w, "apply", "idle")
  /\ LET d == plan[w] IN
     intents' =
       [id \in Ids |->
          IF id = (IF d.action = "REPRICE" THEN d.old ELSE d.new) THEN NewRow(d)
          ELSE IF id = d.old THEN [intents[id] EXCEPT !.status = "CANCEL_REQUESTED"]
          ELSE intents[id]]
  /\ plan' = [plan EXCEPT ![w] = Hold]
  /\ UNCHANGED <<filled, positions, nextId, todo, txn, view>>

\* apply_signal.  It does not look at the status of the intent it cancels or
\* replaces.
Apply(w) ==
  /\ Goto(w, "apply", "idle")
  /\ LET d == plan[w] IN
     intents' =
       [id \in Ids |->
          CASE id = d.new -> NewRow(d)
            [] id = d.old /\ d.action = "REPRICE" ->
                 [intents[id] EXCEPT !.status = "REPLACED", !.by = d.new]
            [] id = d.old /\ d.action = "CANCEL" ->
                 [intents[id] EXCEPT !.status = "CANCEL_REQUESTED"]
            [] OTHER -> intents[id]]
  /\ plan' = [plan EXCEPT ![w] = Hold]
  /\ UNCHANGED <<filled, positions, nextId, todo, txn, view>>

\* A call fails (HTTP, database) or the process dies: the open transaction is
\* rolled back, the rest of the cycle is dropped and nothing else is undone.
Abort(p) ==
  /\ pc[p] # "idle"
  /\ pc' = [pc EXCEPT ![p] = "idle"]
  /\ todo' = [todo EXCEPT ![p] = {}]
  /\ txn' = [txn EXCEPT ![p] = NoTxn]
  /\ view' = [view EXCEPT ![p] = NoView]
  /\ plan' = [plan EXCEPT ![p] = Hold]
  /\ UNCHANGED <<intents, filled, positions, nextId>>

\* The clock passes an active intent's expires_at.
TtlPasses(id) ==
  /\ Active(id) /\ ~intents[id].due
  /\ intents' = [intents EXCEPT ![id].due = TRUE]
  /\ UNCHANGED <<filled, positions, nextId, pc, todo, txn, view, plan>>

WriterStep(w) ==
  \/ BeginCycle(w) \/ Expire(w) \/ ListActive(w) \/ StartFill(w) \/ ReadPosition(w)
  \/ CommitFill(w) \/ EndFills(w) \/ ReadHeld(w) \/ ReadActiveBuy(w) \/ Evaluate(w)
  \/ Apply(w)

FillerStep(f) ==
  ListActive(f) \/ StartFill(f) \/ ReadPosition(f) \/ CommitFill(f) \/ EndFills(f)

OperatorStep(o) == MarkFilled(o) \/ ReadPosition(o) \/ CommitFill(o)

Next ==
  \/ \E w \in Writers : WriterStep(w)
  \/ \E f \in Fillers : FillerStep(f)
  \/ \E o \in Operators : OperatorStep(o)
  \/ \E p \in Procs : Abort(p)
  \/ \E id \in Ids : TtlPasses(id)

\* The loop of a writer goes round for ever and its expiry transaction, the
\* first call of a cycle, is not unavailable for ever.  Nobody promises that a
\* filler or an operator runs, that a call fails or that a clock passes.
Fairness == \A w \in Writers : WF_vars(WriterStep(w)) /\ SF_vars(Expire(w))

Spec == Init /\ [][Next]_vars
FairSpec == Spec /\ Fairness

-----------------------------------------------------------------------------
(* Properties *)

\* The tables and what the processes remember of them are well formed: no quantity
\* of an intent, a position or an open fill is negative.
TypeOK ==
  /\ intents \in [Ids -> IntentRow]
  /\ filled \in [Ids -> Nat]
  /\ positions \in Seq(PositionRow)
  /\ nextId \in 1..(MaxIntents + 1)
  /\ pc \in [Procs -> PCs]
  /\ todo \in [Procs -> SUBSET [id : Ids, qty : Nat]]
  /\ txn \in [Procs -> Txn]
  /\ view \in [Procs -> View]
  /\ plan \in [Procs -> Plan]

SumOver(S, f) ==
  LET g[T \in SUBSET S] ==
        IF T = {} THEN 0
        ELSE LET x == CHOOSE x \in T : TRUE IN f[x] + g[T \ {x}]
  IN g[S]

QtyOf(side) == SumOver(ActiveOf(side), [id \in Ids |-> intents[id].qty])
FilledOf(side) == SumOver({id \in Ids : intents[id].side = side}, filled)
Inventory == SumOver(OpenPositions, [i \in DOMAIN positions |-> positions[i].qty])

\* The strategy works one order at a time: however fills, operators and
\* failures interleave with the cycle, the symbol never has two active intents.
\* It is what evaluate relies on when it reads one active intent per side.
AtMostOneActive == \A i, j \in ActiveIds : i = j

\* An intent that is filled, stopped or replaced never works again, and none
\* changes its side, however old the rows are that a process writes from.
EndedStaysEnded ==
  [][\A id \in Ids : intents[id].status # "NONE" =>
       /\ Active(id)' => Active(id)
       /\ intents'[id].side = intents[id].side]_vars

\* No intent is ever filled for more than it asked: what its fill events add up
\* to stays within the quantity it was created with.
FilledWithinOrder == \A id \in Ids : filled[id] <= intents[id].original

\* The position rows agree with the fill events: what was bought less what was
\* sold is what the open positions hold, and a closed row holds nothing.
LedgerBalanced ==
  /\ Inventory = FilledOf("BUY") - FilledOf("SELL")
  /\ \A i \in DOMAIN positions : ~positions[i].open => positions[i].qty = 0

\* The published position limit bounds the exposure, not only each order: what
\* is held and what active buys may still add stay within MAX_POSITION_QUOTE.
ExposureCapped == Inventory + QtyOf("BUY") <= QtyCap

\* Every active sell is backed by inventory.
SellBacked == QtyOf("SELL") <= Inventory

\* A FILLED row keeps its last quantity; a stopped one has nothing left to fill.
Book == INSTANCE PaperLedger WITH
  Orders <- Ids,
  QtyCap <- QtyCap,
  status <- [id \in Ids |-> intents[id].status],
  side <- [id \in Ids |-> intents[id].side],
  remaining <- [id \in Ids |-> IF Active(id) THEN intents[id].qty ELSE 0],
  inventory <- Inventory

\* Run by one process at a time, the cycle of transactions behaves as the book
\* with atomic operations: orders are filled, stopped and replaced only while
\* they work, sells are covered, and a final status is final.
ImplementsBook == Book!Spec

\* An active intent past its expires_at is eventually no longer active.
DueIntentLeaves ==
  \A id \in Ids : (Active(id) /\ intents[id].due) ~> ~Active(id)
=============================================================================
