---------------------------- MODULE ShadowStack -----------------------------
(***************************************************************************)
(* The running stack of one symbol: writer processes that take the         *)
(* strategy lock and then run a strategy cycle on the ledger (run_forever, *)
(* run_ws_shadow_forever), and paper-runners.  The lock is checked once,   *)
(* before the cycle; nothing checks it again when the cycle writes.        *)
(*                                                                         *)
(* The loops go through several symbols, each with a lock of its own, but  *)
(* every cycle begins with expiring the due intents of all symbols: a      *)
(* process between its tries at this lock may be in a cycle of another     *)
(* symbol and expire this one's intents without the lock.                  *)
(***************************************************************************)
EXTENDS Integers, Sequences, FiniteSets

CONSTANTS
  Owners, NoOwner, Ttl, MaxLive, Releases, MaxClock,
  Fillers, PaperTrading, PartialFills, WantedQtys, QtyCap, QtyStep,
  MaxIntents, MaxFilled

\* The assumptions of the parts; no process is a writer and a paper-runner.
ASSUME StackAssumption ==
  /\ NoOwner \notin Owners
  /\ Owners \cap Fillers = {}
  /\ Ttl \in Nat \ {0}
  /\ {MaxLive, MaxClock, QtyCap, MaxIntents, MaxFilled} \subseteq Nat
  /\ QtyStep \in Nat \ {0}
  /\ WantedQtys \subseteq Nat
  /\ {Releases, PaperTrading, PartialFills} \subseteq BOOLEAN

VARIABLES
  row, clock, state, obs, seen, until,
  intents, filled, positions, nextId, pc, todo, txn, view, plan

lockVars == <<row, clock, state, obs, seen, until>>
ledgerVars == <<intents, filled, positions, nextId, pc, todo, txn, view, plan>>
vars == <<lockVars, ledgerVars>>

Lock == INSTANCE StrategyLock

Ledger == INSTANCE Ledger WITH Writers <- Owners, Operators <- {}, ManualQtys <- {}

Init == Lock!Init /\ Ledger!Init

\* The loop tries the lock; a refusal or a failure skips the symbol.
TryLock(o) ==
  /\ pc[o] = "idle"
  /\ \/ Lock!Acquire(o) \/ Lock!SelectRow(o) \/ Lock!Refuse(o) \/ Lock!Insert(o)
     \/ Lock!Update(o) \/ Lock!FailAcquire(o)
  /\ UNCHANGED ledgerVars

\* A step of the cycle; the one that ends it is the cycle's last.
Cycle(o) ==
  /\ state[o] = "writing"
  /\ Ledger!WriterStep(o)
  /\ IF pc'[o] = "idle" THEN Lock!EndCycle(o) ELSE UNCHANGED lockVars

\* What a cycle of another symbol does to this one, whoever holds this symbol's lock:
\* it reads the due intents and expires them, or fails.
Sweep(o) ==
  /\ state[o] = "idle"
  /\ \/ Ledger!BeginCycle(o)
     \/ Ledger!Expire(o) /\ pc'[o] = "idle"
     \/ Ledger!Abort(o)
  /\ UNCHANGED lockVars

DropCycle(o) == IF pc[o] = "idle" THEN UNCHANGED ledgerVars ELSE Ledger!Abort(o)

\* An exception in the cycle is logged and the loop goes on.
FailCycle(o) == Lock!EndCycle(o) /\ DropCycle(o)

Start(o) == Lock!Start(o) /\ UNCHANGED ledgerVars
Crash(o) == Lock!Crash(o) /\ DropCycle(o)

Next ==
  \/ Lock!Tick /\ UNCHANGED ledgerVars
  \/ \E o \in Owners : TryLock(o) \/ Cycle(o) \/ FailCycle(o) \/ Sweep(o) \/ Start(o) \/ Crash(o)
  \/ \E f \in Fillers : (Ledger!FillerStep(f) \/ Ledger!Abort(f)) /\ UNCHANGED lockVars
  \/ \E id \in 1..MaxIntents : Ledger!TtlPasses(id) /\ UNCHANGED lockVars

Spec == Init /\ [][Next]_vars

-----------------------------------------------------------------------------
(* Properties *)

\* Competing writers: the symbol never has two active intents.
AtMostOneActive == Ledger!AtMostOneActive

\* The race for the lock's first row has one winner.
FirstLeaseExclusive == Lock!FirstLeaseExclusive

\* Competing writers, though each may expire the intents of the other's symbol at
\* any moment, fill no order beyond its size, keep positions and fills in balance,
\* the exposure within the limit and every active sell backed.
LedgerSound ==
  /\ Ledger!FilledWithinOrder
  /\ Ledger!LedgerBalanced
  /\ Ledger!ExposureCapped
  /\ Ledger!SellBacked

\* A decision is written only while no other owner's lease is in force in the
\* lock's row.
SkipsForeignLease ==
  [][\A o \in Owners :
       Ledger!Apply(o) => row.owner = o \/ row.until <= clock]_vars
=============================================================================
