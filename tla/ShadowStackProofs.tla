------------------------- MODULE ShadowStackProofs -------------------------
(***************************************************************************)
(* Theorems about the running stack, for any number of competing writers   *)
(* and paper-runners: what the lock does for the ledger as long as no      *)
(* lease can lapse.  They rest on the lemmas about the lock and about the  *)
(* ledger, which speak of instances of their own (LockP, LedgerP).         *)
(***************************************************************************)
EXTENDS ShadowStack, TLAPS

LockP == INSTANCE StrategyLockProofs
LedgerP == INSTANCE LedgerProofs
             WITH Writers <- Owners, Operators <- {}, ManualQtys <- {}

-----------------------------------------------------------------------------
(* The parts *)

\* What the parts assume of their constants holds in the stack.
LEMMA PartsAssumptions ==
  /\ LockP!LockAssumption
  /\ LedgerP!SizingAssumption /\ LedgerP!LedgerAssumption
  BY StackAssumption DEF LockP!LockAssumption, LedgerP!SizingAssumption, LedgerP!LedgerAssumption

\* The stack begins as its parts do.
LEMMA InitOfParts == Init => LockP!Init /\ LedgerP!Init
  BY DEF Init, Lock!Init, LockP!Init, Lock!NoRow, LockP!NoRow, Ledger!Init, LedgerP!Init,
         Ledger!NoRow, LedgerP!NoRow, Ledger!NoTxn, LedgerP!NoTxn, Ledger!NoView, LedgerP!NoView,
         Ledger!Hold, LedgerP!Hold, Ledger!Ids, LedgerP!Ids, Ledger!Procs, LedgerP!Procs

\* To the lock, a step of the stack is one of its own or none.
LEMMA StepOfLock == [Next]_vars => [LockP!Next]_(LockP!vars)
<1>1. Lock!Tick <=> LockP!Tick
  BY DEF Lock!Tick, LockP!Tick
<1>2. \A p : Lock!Start(p) <=> LockP!Start(p)
  BY DEF Lock!Start, LockP!Start, Lock!Live, LockP!Live, Lock!Goto, LockP!Goto,
         Lock!Cardinality, LockP!Cardinality
<1>3. \A p : Lock!Crash(p) <=> LockP!Crash(p)
  BY DEF Lock!Crash, LockP!Crash, Lock!Live, LockP!Live, Lock!Leave, LockP!Leave,
         Lock!NoRow, LockP!NoRow
<1>4. \A p : Lock!Acquire(p) <=> LockP!Acquire(p)
  BY DEF Lock!Acquire, LockP!Acquire, Lock!Goto, LockP!Goto
<1>5. \A p : Lock!SelectRow(p) <=> LockP!SelectRow(p)
  BY DEF Lock!SelectRow, LockP!SelectRow, Lock!Goto, LockP!Goto
<1>6. \A p : Lock!Refuse(p) <=> LockP!Refuse(p)
  BY DEF Lock!Refuse, LockP!Refuse, Lock!CanTake, LockP!CanTake, Lock!NoRow, LockP!NoRow,
         Lock!Leave, LockP!Leave
<1>7. \A p : Lock!Insert(p) <=> LockP!Insert(p)
  BY DEF Lock!Insert, LockP!Insert, Lock!NoRow, LockP!NoRow, Lock!InsertRow,
         LockP!InsertRow, Lock!InsertConflict, LockP!InsertConflict, Lock!Hold, LockP!Hold,
         Lock!Leave, LockP!Leave
<1>8. \A p : Lock!Update(p) <=> LockP!Update(p)
  BY DEF Lock!Update, LockP!Update, Lock!CanTake, LockP!CanTake, Lock!NoRow, LockP!NoRow,
         Lock!Updated, LockP!Updated, Lock!Hold, LockP!Hold, Lock!Leave, LockP!Leave
<1>9. \A p : Lock!EndCycle(p) <=> LockP!EndCycle(p)
  BY DEF Lock!EndCycle, LockP!EndCycle, Lock!Goto, LockP!Goto
<1>10. \A p : Lock!FailAcquire(p) <=> LockP!FailAcquire(p)
  BY DEF Lock!FailAcquire, LockP!FailAcquire, Lock!Leave, LockP!Leave, Lock!NoRow,
         LockP!NoRow
<1> SUFFICES ASSUME [Next]_vars PROVE [LockP!Next]_(LockP!vars)
  OBVIOUS
<1>a. CASE Lock!Tick
  BY <1>a, <1>1 DEF LockP!Next
<1>b. ASSUME NEW o \in Owners, TryLock(o)
      PROVE  LockP!Next
  BY <1>b, <1>4, <1>5, <1>6, <1>7, <1>8, <1>10 DEF TryLock, LockP!Next, LockP!LoopStep
<1>c. ASSUME NEW o \in Owners, Lock!EndCycle(o) \/ Lock!Start(o) \/ Lock!Crash(o)
      PROVE  LockP!Next
  BY <1>c, <1>2, <1>3, <1>9 DEF LockP!Next, LockP!LoopStep
<1>d. CASE UNCHANGED lockVars
  BY <1>d DEF lockVars, LockP!vars
<1> QED
  BY <1>a, <1>b, <1>c, <1>d DEF Next, Cycle, FailCycle, Sweep, Start, Crash, vars

\* To the ledger too.
LEMMA StepOfLedger == [Next]_vars => [LedgerP!Next]_(LedgerP!vars)
<1>1. \A p : Ledger!BeginCycle(p) <=> LedgerP!BeginCycle(p)
  BY DEF Ledger!BeginCycle, LedgerP!BeginCycle, Ledger!Goto, LedgerP!Goto, Ledger!Rows,
         LedgerP!Rows, Ledger!Active, LedgerP!Active, Ledger!ActiveIds, LedgerP!ActiveIds,
         Ledger!Ids, LedgerP!Ids
<1>2. \A p : Ledger!Expire(p) <=> LedgerP!Expire(p)
  BY DEF Ledger!Expire, LedgerP!Expire, Ledger!Goto, LedgerP!Goto, Ledger!Ids, LedgerP!Ids
<1>3. \A p : Ledger!ListActive(p) <=> LedgerP!ListActive(p)
  BY DEF Ledger!ListActive, LedgerP!ListActive, Ledger!Goto, LedgerP!Goto, Ledger!Rows,
         LedgerP!Rows, Ledger!Active, LedgerP!Active, Ledger!ActiveIds, LedgerP!ActiveIds,
         Ledger!Ids, LedgerP!Ids
<1>4. \A p : Ledger!StartFill(p) <=> LedgerP!StartFill(p)
  BY DEF Ledger!StartFill, LedgerP!StartFill, Ledger!Goto, LedgerP!Goto, Ledger!FillAsks,
         LedgerP!FillAsks, Ledger!OpenTxn, LedgerP!OpenTxn
<1>5. \A p : Ledger!ReadPosition(p) <=> LedgerP!ReadPosition(p)
  BY DEF Ledger!ReadPosition, LedgerP!ReadPosition, Ledger!Goto, LedgerP!Goto,
         Ledger!OpenPositions, LedgerP!OpenPositions, Ledger!HeldAt, LedgerP!HeldAt,
         Ledger!Newest, LedgerP!Newest, Ledger!IsNewest, LedgerP!IsNewest
<1>6. \A p : Ledger!CommitFill(p) <=> LedgerP!CommitFill(p)
  BY DEF Ledger!CommitFill, LedgerP!CommitFill, Ledger!Goto, LedgerP!Goto, Ledger!Applied,
         LedgerP!Applied, Ledger!FilledRow, LedgerP!FilledRow, Ledger!FilledPositions,
         LedgerP!FilledPositions, Ledger!Lower, LedgerP!Lower, Ledger!NoTxn, LedgerP!NoTxn
<1>7. \A p : Ledger!EndFills(p) <=> LedgerP!EndFills(p)
  BY DEF Ledger!EndFills, LedgerP!EndFills, Ledger!Goto, LedgerP!Goto
<1>8. \A p : Ledger!ReadHeld(p) <=> LedgerP!ReadHeld(p)
  BY DEF Ledger!ReadHeld, LedgerP!ReadHeld, Ledger!Goto, LedgerP!Goto, Ledger!OpenPositions,
         LedgerP!OpenPositions, Ledger!HeldAt, LedgerP!HeldAt, Ledger!Newest,
         LedgerP!Newest, Ledger!IsNewest, LedgerP!IsNewest
<1>9. \A p : Ledger!ReadActiveBuy(p) <=> LedgerP!ReadActiveBuy(p)
  BY DEF Ledger!ReadActiveBuy, LedgerP!ReadActiveBuy, Ledger!Goto, LedgerP!Goto,
         Ledger!ActiveOf, LedgerP!ActiveOf, Ledger!Active, LedgerP!Active, Ledger!ActiveIds,
         LedgerP!ActiveIds, Ledger!Ids, LedgerP!Ids, Ledger!Newest, LedgerP!Newest,
         Ledger!IsNewest, LedgerP!IsNewest
<1>10. \A p : Ledger!Evaluate(p) <=> LedgerP!Evaluate(p)
  BY DEF Ledger!Evaluate, LedgerP!Evaluate, Ledger!ActiveOf, LedgerP!ActiveOf,
         Ledger!Active, LedgerP!Active, Ledger!ActiveIds, LedgerP!ActiveIds, Ledger!Ids,
         LedgerP!Ids, Ledger!Newest, LedgerP!Newest, Ledger!IsNewest, LedgerP!IsNewest,
         Ledger!Decisions, LedgerP!Decisions, Ledger!BuySide, LedgerP!BuySide,
         Ledger!SellSide, LedgerP!SellSide, Ledger!Hold, LedgerP!Hold, Ledger!Create,
         LedgerP!Create, Ledger!Reprice, LedgerP!Reprice, Ledger!Cancel, LedgerP!Cancel,
         Ledger!BuyQtys, LedgerP!BuyQtys, Ledger!ExitQty, LedgerP!ExitQty,
         Ledger!FloorToStep, LedgerP!FloorToStep, Ledger!Lower, LedgerP!Lower,
         Ledger!NoView, LedgerP!NoView
<1>11. \A p : Ledger!Apply(p) <=> LedgerP!Apply(p)
  BY DEF Ledger!Apply, LedgerP!Apply, Ledger!Goto, LedgerP!Goto, Ledger!NewRow,
         LedgerP!NewRow, Ledger!Hold, LedgerP!Hold, Ledger!Ids, LedgerP!Ids
<1>12. \A p : Ledger!Abort(p) <=> LedgerP!Abort(p)
  BY DEF Ledger!Abort, LedgerP!Abort, Ledger!NoTxn, LedgerP!NoTxn, Ledger!NoView,
         LedgerP!NoView, Ledger!Hold, LedgerP!Hold
<1>13. \A p : Ledger!TtlPasses(p) <=> LedgerP!TtlPasses(p)
  BY DEF Ledger!TtlPasses, LedgerP!TtlPasses, Ledger!Active, LedgerP!Active
<1> SUFFICES ASSUME [Next]_vars PROVE [LedgerP!Next]_(LedgerP!vars)
  OBVIOUS
<1>a. ASSUME NEW o \in Owners, Ledger!WriterStep(o)
      PROVE  LedgerP!Next
  BY <1>a, <1>1, <1>2, <1>3, <1>4, <1>5, <1>6, <1>7, <1>8, <1>9, <1>10, <1>11
  DEF Ledger!WriterStep, LedgerP!WriterStep, LedgerP!Next
<1>b. ASSUME NEW f \in Fillers, Ledger!FillerStep(f)
      PROVE  LedgerP!Next
  BY <1>b, <1>3, <1>4, <1>5, <1>6, <1>7
  DEF Ledger!FillerStep, LedgerP!FillerStep, LedgerP!Next
<1>c. ASSUME NEW p \in Owners \cup Fillers, Ledger!Abort(p)
      PROVE  LedgerP!Next
  BY <1>c, <1>12 DEF LedgerP!Next, LedgerP!Procs
<1>d. ASSUME NEW id \in 1..MaxIntents, Ledger!TtlPasses(id)
      PROVE  LedgerP!Next
  BY <1>d, <1>13 DEF LedgerP!Next, LedgerP!Ids
<1>e. CASE UNCHANGED ledgerVars
  BY <1>e DEF ledgerVars, LedgerP!vars
<1> QED
  BY <1>a, <1>b, <1>c, <1>d, <1>e
  DEF Next, TryLock, Cycle, FailCycle, DropCycle, Sweep, Ledger!WriterStep, Start, Crash, vars

-----------------------------------------------------------------------------
(* The first lease *)

LEMMA FirstStep ==
  ASSUME Releases = FALSE
  PROVE  /\ Init => LockP!FirstInv
         /\ LockP!FirstInv /\ [Next]_vars => LockP!FirstInv'
<1>1. LockP!Init => LockP!FirstInv
  BY PartsAssumptions, LockP!InitFirst
<1>2. LockP!FirstInv /\ [LockP!Next]_(LockP!vars) => LockP!FirstInv'
  BY PartsAssumptions, LockP!NextFirst
<1> QED
  BY <1>1, <1>2, InitOfParts, StepOfLock

\* In the running stack, whatever cycles do and however they fail, the race for
\* the lock's first row has one winner.
THEOREM StackFirstLease ==
  ASSUME Releases = FALSE
  PROVE  Spec => []FirstLeaseExclusive
<1>1. LockP!FirstInv => FirstLeaseExclusive
  BY DEF LockP!FirstInv, FirstLeaseExclusive, Lock!FirstLeaseExclusive
<1>2. Init => LockP!FirstInv
  BY FirstStep
<1>3. LockP!FirstInv /\ [Next]_vars => LockP!FirstInv'
  BY FirstStep
<1> QED
  BY <1>1, <1>2, <1>3, PTL DEF Spec

-----------------------------------------------------------------------------
(* One active intent *)

\* A process expires rows in any cycle, but it is past the expiry, at work on this
\* symbol's rows, only while it counts on this symbol's lock.
AtWork(o) == pc[o] \notin {"idle", "expire"}
WorksUnderLock(o) == AtWork(o) => state[o] = "writing"

StackInv ==
  /\ LockP!FirstInv
  /\ clock <= MaxClock
  /\ LedgerP!OneActiveInv
  /\ \A o \in Owners : WorksUnderLock(o)

\* So, while no lease can lapse, who is at work is the lock row's owner.
LEMMA OwnersTakeTurns ==
  ASSUME StackInv, MaxClock < Ttl
  PROVE  /\ \A o \in Owners : AtWork(o) => row.owner = o
         /\ LedgerP!WorksAlone
<1>1. clock < Ttl
  BY StackAssumption DEF StackInv, LockP!FirstInv, LockP!TypeOK
<1>2. \A o \in Owners : AtWork(o) => row.owner = o
  BY <1>1 DEF StackInv, WorksUnderLock, LockP!FirstInv
<1> QED
  BY <1>2 DEF LedgerP!WorksAlone, LedgerP!Working, AtWork

LEMMA InitStack == ASSUME Releases = FALSE PROVE Init => StackInv
<1> SUFFICES ASSUME Init PROVE StackInv
  OBVIOUS
<1>1. LockP!FirstInv
  BY FirstStep
<1>2. LedgerP!OneActiveInv
  BY PartsAssumptions, InitOfParts, LedgerP!InitOneActive
<1>3. clock <= MaxClock
  BY StackAssumption DEF Init, Lock!Init
<1>4. \A o \in Owners : pc[o] = "idle"
  BY DEF Init, Ledger!Init, Ledger!Procs
<1> QED
  BY <1>1, <1>2, <1>3, <1>4 DEF StackInv, WorksUnderLock, AtWork

\* No step takes a process past the expiry without the lock, or lets it go on after.
LEMMA CycleWithinLock ==
  ASSUME StackInv, [Next]_vars
  PROVE  \A o \in Owners : WorksUnderLock(o)'
<1>0. /\ pc \in [Owners \cup Fillers -> LedgerP!PCs] /\ state \in [Owners -> LockP!States]
      /\ \A o \in Owners : WorksUnderLock(o)
  BY DEF StackInv, LedgerP!OneActiveInv, LedgerP!TypeOK, LedgerP!Procs, LockP!FirstInv,
         LockP!TypeOK
<1>1. ASSUME NEW o \in Owners, TryLock(o)
      PROVE  \A p \in Owners : WorksUnderLock(p)'
  <2>1. pc' = pc /\ pc[o] = "idle"
    BY <1>1 DEF TryLock, ledgerVars
  <2>2. \A p \in Owners : p # o => state'[p] = state[p]
    BY <1>0, <1>1 DEF TryLock, Lock!Acquire, Lock!SelectRow, Lock!Refuse, Lock!Insert,
                Lock!InsertRow, Lock!InsertConflict, Lock!Update, Lock!FailAcquire, Lock!Goto,
                Lock!Hold, Lock!Leave
  <2> QED
    BY <1>0, <2>1, <2>2 DEF WorksUnderLock, AtWork
<1>2. ASSUME NEW o \in Owners, Cycle(o)
      PROVE  \A p \in Owners : WorksUnderLock(p)'
  <2>1. \A p \in Owners : p # o => pc'[p] = pc[p]
    BY <1>0, <1>2 DEF Cycle, Ledger!WriterStep, Ledger!BeginCycle, Ledger!Expire, Ledger!ListActive,
                Ledger!StartFill, Ledger!ReadPosition, Ledger!CommitFill, Ledger!EndFills,
                Ledger!ReadHeld, Ledger!ReadActiveBuy, Ledger!Evaluate, Ledger!Apply, Ledger!Goto
  <2>2. CASE pc'[o] = "idle"
    BY <1>0, <1>2, <2>1, <2>2 DEF Cycle, Lock!EndCycle, Lock!Goto, WorksUnderLock, AtWork
  <2>3. CASE pc'[o] # "idle"
    BY <1>0, <1>2, <2>1, <2>3 DEF Cycle, lockVars, WorksUnderLock, AtWork
  <2> QED
    BY <2>2, <2>3
<1>3. ASSUME NEW o \in Owners, FailCycle(o) \/ Crash(o)
      PROVE  \A p \in Owners : WorksUnderLock(p)'
  <2>1. pc'[o] = "idle" /\ \A p \in Owners : p # o => pc'[p] = pc[p]
    BY <1>0, <1>3 DEF FailCycle, Crash, DropCycle, ledgerVars, Ledger!Abort
  <2>2. \A p \in Owners : p # o => state'[p] = state[p]
    BY <1>0, <1>3 DEF FailCycle, Crash, Lock!EndCycle, Lock!Crash, Lock!Goto, Lock!Leave
  <2> QED
    BY <1>0, <2>1, <2>2 DEF WorksUnderLock, AtWork
<1>4. ASSUME NEW o \in Owners, Start(o)
      PROVE  \A p \in Owners : WorksUnderLock(p)'
  BY <1>0, <1>4 DEF Start, Lock!Start, Lock!Goto, ledgerVars, WorksUnderLock, AtWork
<1>5. ASSUME NEW f \in Fillers, Ledger!FillerStep(f) \/ Ledger!Abort(f), UNCHANGED lockVars
      PROVE  \A p \in Owners : WorksUnderLock(p)'
  <2>1. \A p \in Owners : pc'[p] = pc[p]
    BY <1>0, <1>5, StackAssumption
    DEF Ledger!FillerStep, Ledger!ListActive, Ledger!StartFill, Ledger!ReadPosition,
        Ledger!CommitFill, Ledger!EndFills, Ledger!Abort, Ledger!Goto
  <2> QED
    BY <1>0, <1>5, <2>1 DEF lockVars, WorksUnderLock, AtWork
<1>6. ASSUME (Lock!Tick /\ UNCHANGED ledgerVars) \/ UNCHANGED vars
      PROVE  \A p \in Owners : WorksUnderLock(p)'
  BY <1>0, <1>6 DEF Lock!Tick, ledgerVars, lockVars, vars, WorksUnderLock, AtWork
<1>7. ASSUME NEW id \in 1..MaxIntents, Ledger!TtlPasses(id), UNCHANGED lockVars
      PROVE  \A p \in Owners : WorksUnderLock(p)'
  BY <1>0, <1>7 DEF Ledger!TtlPasses, lockVars, WorksUnderLock, AtWork
<1>8. ASSUME NEW o \in Owners, Sweep(o)
      PROVE  \A p \in Owners : WorksUnderLock(p)'
  <2>1. UNCHANGED state
    BY <1>8 DEF Sweep, lockVars
  <2>2. pc'[o] \in {"idle", "expire"} /\ \A p \in Owners : p # o => pc'[p] = pc[p]
    BY <1>0, <1>8 DEF Sweep, Ledger!BeginCycle, Ledger!Expire, Ledger!Abort, Ledger!Goto
  <2> QED
    BY <1>0, <2>1, <2>2 DEF WorksUnderLock, AtWork
<1> QED
  BY <1>1, <1>2, <1>3, <1>4, <1>5, <1>6, <1>7, <1>8 DEF Next

LEMMA NextStack ==
  ASSUME Releases = FALSE, MaxClock < Ttl, StackInv, [Next]_vars
  PROVE  StackInv'
<1>1. LockP!FirstInv'
  BY FirstStep DEF StackInv
<1>2. LedgerP!OneActiveInv'
  BY PartsAssumptions, OwnersTakeTurns, StepOfLedger, LedgerP!NextOneActive DEF StackInv
<1>3. clock' <= MaxClock
  <2>1. clock \in Nat
    BY DEF StackInv, LockP!FirstInv, LockP!TypeOK
  <2>2. [LockP!Next]_(LockP!vars)
    BY StepOfLock
  <2>3. clock' = clock \/ (clock < MaxClock /\ clock' = clock + 1)
    BY <2>2 DEF LockP!Next, LockP!vars, LockP!Tick, LockP!LoopStep, LockP!Start, LockP!Crash,
                LockP!Acquire, LockP!SelectRow, LockP!Refuse, LockP!Insert, LockP!Update,
                LockP!EndCycle, LockP!FailAcquire, LockP!Release
  <2> QED
    BY <2>1, <2>3, StackAssumption DEF StackInv
<1> QED
  BY <1>1, <1>2, <1>3, CycleWithinLock DEF StackInv

\* Any number of writers may compete for a symbol and die at any moment, with any
\* number of paper-runners beside them: as long as no lease lapses, the symbol
\* never has two active intents.
THEOREM LockKeepsOneActive ==
  ASSUME Releases = FALSE, MaxClock < Ttl
  PROVE  Spec => []AtMostOneActive
<1>1. StackInv => AtMostOneActive
  BY DEF StackInv, LedgerP!OneActiveInv, LedgerP!AtMostOneActive, AtMostOneActive,
         Ledger!AtMostOneActive, LedgerP!ActiveIds, Ledger!ActiveIds, LedgerP!Active,
         Ledger!Active, LedgerP!Ids, Ledger!Ids
<1>2. StackInv /\ [Next]_vars => StackInv'
  BY NextStack
<1> QED
  BY <1>1, <1>2, InitStack, PTL DEF Spec

\* And no decision is written under the lease of another.
THEOREM LockSkipsForeignLease ==
  ASSUME Releases = FALSE, MaxClock < Ttl
  PROVE  Spec => SkipsForeignLease
<1>1. ASSUME StackInv, NEW o \in Owners, Ledger!Apply(o)
      PROVE  row.owner = o
  BY <1>1, OwnersTakeTurns DEF Ledger!Apply, Ledger!Goto, AtWork
<1>2. StackInv /\ [Next]_vars =>
        [\A o \in Owners : Ledger!Apply(o) => row.owner = o \/ row.until <= clock]_vars
  BY <1>1
<1>3. StackInv /\ [Next]_vars => StackInv'
  BY NextStack
<1> QED
  BY <1>2, <1>3, InitStack, PTL DEF Spec, SkipsForeignLease

-----------------------------------------------------------------------------
(* What the ledger promises *)

\* What the ledger promises, whichever instance it is.
LEMMA PromisesOfParts ==
  /\ LedgerP!FilledWithinOrder => Ledger!FilledWithinOrder
  /\ LedgerP!LedgerBalanced => Ledger!LedgerBalanced
  /\ LedgerP!ExposureCapped => Ledger!ExposureCapped
  /\ LedgerP!SellBacked => Ledger!SellBacked
<1>1. LedgerP!FilledWithinOrder => Ledger!FilledWithinOrder
  BY DEF LedgerP!FilledWithinOrder, Ledger!FilledWithinOrder, LedgerP!Ids, Ledger!Ids
<1>2. LedgerP!Inventory = Ledger!Inventory
  BY DEF Ledger!Inventory, LedgerP!Inventory, Ledger!OpenPositions, LedgerP!OpenPositions,
         Ledger!SumOver, LedgerP!SumOver
<1>3. \A side : LedgerP!FilledOf(side) = Ledger!FilledOf(side)
  BY DEF Ledger!FilledOf, LedgerP!FilledOf, Ledger!SumOver, LedgerP!SumOver,
         LedgerP!Ids, Ledger!Ids
<1>4. \A side : LedgerP!QtyOf(side) = Ledger!QtyOf(side)
  BY DEF Ledger!QtyOf, LedgerP!QtyOf, Ledger!SumOver, LedgerP!SumOver, LedgerP!Ids, Ledger!Ids,
         Ledger!ActiveOf, LedgerP!ActiveOf, Ledger!ActiveIds, LedgerP!ActiveIds,
         Ledger!Active, LedgerP!Active
<1>5. LedgerP!LedgerBalanced => Ledger!LedgerBalanced
  BY <1>2, <1>3 DEF LedgerP!LedgerBalanced, Ledger!LedgerBalanced
<1>6. LedgerP!ExposureCapped => Ledger!ExposureCapped
  BY <1>2, <1>4 DEF LedgerP!ExposureCapped, Ledger!ExposureCapped
<1>7. LedgerP!SellBacked => Ledger!SellBacked
  BY <1>2, <1>4 DEF LedgerP!SellBacked, Ledger!SellBacked
<1> QED
  BY <1>1, <1>5, <1>6, <1>7

\* As long as no lease lapses, the ledger of any number of competing writers that
\* die and restart at any moment, and expire each other's intents at any moment, has
\* no order filled beyond its size, positions that add up to the fills, an exposure
\* within the limit and covered sells.
THEOREM LockKeepsLedgerSound ==
  ASSUME Releases = FALSE, MaxClock < Ttl, Fillers = {}
  PROVE  Spec => []LedgerSound
<1> DEFINE Inv == StackInv /\ LedgerP!SharedInv
<1>1. Init => Inv
  BY PartsAssumptions, InitStack, InitOfParts, LedgerP!InitShared
<1>2. Inv /\ [Next]_vars => Inv'
  BY PartsAssumptions, NextStack, OwnersTakeTurns, StepOfLedger, LedgerP!NextShared
<1>3. Inv => LedgerSound
  BY PartsAssumptions, LedgerP!SharedBounds, PromisesOfParts DEF LedgerSound
<1> QED
  BY <1>1, <1>2, <1>3, PTL DEF Spec

\* Whatever happens to the lock, and however late a cycle outlives its lease: no
\* stale decision or fill of any number of competing writers and paper-runners
\* makes an intent work again that has ended.
THEOREM EndedStaysEndedWithoutLock == Spec => Ledger!EndedStaysEnded
<1>1. Init => LedgerP!NamesInv
  BY PartsAssumptions, InitOfParts, LedgerP!InitNames
<1>2. LedgerP!NamesInv /\ [Next]_vars => LedgerP!NamesInv' /\ LedgerP!RowsGoOn
  BY PartsAssumptions, StepOfLedger, LedgerP!NextNames
<1>3. LedgerP!RowsGoOn =>
        \A id \in Ledger!Ids : intents[id].status # "NONE" =>
          /\ Ledger!Active(id)' => Ledger!Active(id)
          /\ intents'[id].side = intents[id].side
  BY DEF LedgerP!RowsGoOn, LedgerP!RowGoesOn, Ledger!Active, Ledger!Ids, LedgerP!Ids
<1>4. LedgerP!NamesInv /\ [Next]_vars =>
        [\A id \in Ledger!Ids : intents[id].status # "NONE" =>
           /\ Ledger!Active(id)' => Ledger!Active(id)
           /\ intents'[id].side = intents[id].side]_(Ledger!vars)
  BY <1>2, <1>3
<1> QED
  BY <1>1, <1>2, <1>4, PTL DEF Spec, Ledger!EndedStaysEnded
=============================================================================
