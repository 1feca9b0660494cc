---------------------------- MODULE StrategyLock ----------------------------
(***************************************************************************)
(* The soft lease of one strategy lock (one strategy_locks row, one        *)
(* symbol): BotRepository.acquire_strategy_lock as the writer loops call   *)
(* it through try_signal_writer_lock.                                      *)
(*                                                                         *)
(* An owner is one instance id, SERVICE_INSTANCE_ID or host name and pid,  *)
(* and runs as one process at a time.  A service may come back as another  *)
(* owner, or (a restarted container keeps host name and pid) as the same   *)
(* one, which then renews the lease its predecessor left.                  *)
(*                                                                         *)
(* An acquisition takes the time, reads the row in a transaction and       *)
(* commits an INSERT or an UPDATE of the columns that changed; the row is  *)
(* not locked between the read and the commit.  All the writers use one    *)
(* clock.                                                                  *)
(***************************************************************************)
EXTENDS Integers, FiniteSets

CONSTANTS
  Owners,       \* instance ids a writer may ever run under
  NoOwner,
  Ttl,          \* STRATEGY_LOCK_TTL_SECONDS, at least one
  MaxLive,      \* writer processes the deployment runs at a time
  Releases,     \* release_strategy_lock is called (no service calls it)
  MaxClock      \* bound: the clock stops here

ASSUME LockAssumption ==
  /\ NoOwner \notin Owners
  /\ Ttl \in Nat \ {0}
  /\ MaxLive \in Nat
  /\ Releases \in BOOLEAN
  /\ MaxClock \in Nat

VARIABLES
  row,     \* the strategy_locks row
  clock,
  state,   \* what each process is doing
  obs,     \* observed_at of a process's acquisition
  seen,    \* the row its transaction has read
  until    \* locked_until of its last successful acquisition

vars == <<row, clock, state, obs, seen, until>>

\* Before "fresh" nothing runs; "reading" and "retrying" are the two attempts
\* before their SELECT, "read" and "reread" after it; "writing" is the cycle.
States == {"fresh", "idle", "reading", "read", "retrying", "reread", "writing", "dead"}

Row == [owner : Owners \cup {NoOwner}, until : Nat, released : BOOLEAN]
NoRow == [owner |-> NoOwner, until |-> 0, released |-> FALSE]

Live == {o \in Owners : state[o] \notin {"fresh", "dead"}}

Init ==
  /\ row = NoRow
  /\ clock = 0
  /\ state = [o \in Owners |-> "fresh"]
  /\ obs = [o \in Owners |-> 0]
  /\ seen = [o \in Owners |-> NoRow]
  /\ until = [o \in Owners |-> 0]

Goto(o, from, to) == state[o] = from /\ state' = [state EXCEPT ![o] = to]

\* An attempt is over: its observed_at and the row it read are forgotten.
Leave(o, to) ==
  /\ state' = [state EXCEPT ![o] = to]
  /\ obs' = [obs EXCEPT ![o] = 0]
  /\ seen' = [seen EXCEPT ![o] = NoRow]

-----------------------------------------------------------------------------
(* The process *)

\* A service starts, under a new instance id or under one that has run before.
Start(o) ==
  /\ Cardinality(Live) < MaxLive
  /\ Goto(o, "fresh", "idle") \/ Goto(o, "dead", "idle")
  /\ UNCHANGED <<row, clock, obs, seen, until>>

\* A process dies at any point; a transaction it had open is rolled back.
Crash(o) ==
  /\ o \in Live
  /\ Leave(o, "dead")
  /\ UNCHANGED <<row, clock, until>>

-----------------------------------------------------------------------------
(* acquire_strategy_lock *)

\* observed_at is taken once, before the first attempt.
Acquire(o) ==
  /\ Goto(o, "idle", "reading")
  /\ obs' = [obs EXCEPT ![o] = clock]
  /\ UNCHANGED <<row, clock, seen, until>>

SelectRow(o) ==
  /\ \/ Goto(o, "reading", "read")
     \/ Goto(o, "retrying", "reread")
  /\ seen' = [seen EXCEPT ![o] = row]
  /\ UNCHANGED <<row, clock, obs, until>>

\* Slip: nobody looks whether the lease is in force ...
CanAlwaysTake(o, r) == r \in Row
\* ... or nobody looks whether it has lapsed.
CanNeverTakeOver(o, r) == r.owner = o \/ r.released

CanTake(o, r) == r.owner = o \/ r.released \/ r.until <= obs[o]

\* The lease of another owner is in force: the loop skips the symbol.
Refuse(o) ==
  /\ state[o] \in {"read", "reread"}
  /\ seen[o] # NoRow /\ ~CanTake(o, seen[o])
  /\ Leave(o, "idle")
  /\ UNCHANGED <<row, clock, until>>

\* The lock is held up to observed_at + ttl as far as the process knows.
Hold(o) ==
  /\ Leave(o, "writing")
  /\ until' = [until EXCEPT ![o] = obs[o] + Ttl]

\* Slip: the lease ends before it begins.
InsertRowBackwards(o) ==
  /\ row' = [owner |-> o, until |-> obs[o] - Ttl, released |-> FALSE]
  /\ Hold(o)

InsertRow(o) ==
  /\ row' = [owner |-> o, until |-> obs[o] + Ttl, released |-> FALSE]
  /\ Hold(o)

\* Slip: the conflict is taken for success.
InsertConflictIgnored(o) == Hold(o) /\ UNCHANGED row

\* The unique constraint is violated: the first attempt is retried, the second
\* gives up.
InsertConflict(o) ==
  /\ state' = [state EXCEPT ![o] = IF @ = "read" THEN "retrying" ELSE "idle"]
  /\ UNCHANGED <<row, obs, seen, until>>

\* No row was read, and one is inserted unless another process did so meanwhile.
Insert(o) ==
  /\ state[o] \in {"read", "reread"}
  /\ seen[o] = NoRow
  /\ IF row = NoRow THEN InsertRow(o) ELSE InsertConflict(o)
  /\ UNCHANGED clock

\* Slip: a release is not cleared by the next owner.
UpdatedStillReleased(o) == [owner |-> o, until |-> obs[o] + Ttl, released |-> row.released]

\* The row an UPDATE leaves: a column is written only if its new value differs
\* from the one that was read.
Updated(o) ==
  [owner    |-> IF seen[o].owner # o THEN o ELSE row.owner,
   until    |-> IF seen[o].until # obs[o] + Ttl THEN obs[o] + Ttl ELSE row.until,
   released |-> row.released /\ ~seen[o].released]

\* Renewal or takeover.
Update(o) ==
  /\ state[o] \in {"read", "reread"}
  /\ seen[o] # NoRow /\ CanTake(o, seen[o])
  /\ row' = Updated(o)
  /\ Hold(o)
  /\ UNCHANGED clock

\* The cycle ends, or fails, or its transaction's commit is refused; the lease
\* stays in the row.
EndCycle(o) ==
  /\ Goto(o, "writing", "idle")
  /\ UNCHANGED <<row, clock, obs, seen, until>>

\* The acquisition itself fails: the exception ends the cycle.
FailAcquire(o) ==
  /\ state[o] \in {"reading", "read", "retrying", "reread"}
  /\ Leave(o, "idle")
  /\ UNCHANGED <<row, clock, until>>

\* release_strategy_lock(owner=o); the process counts on the lease no more.
Release(o) ==
  /\ Releases
  /\ state[o] = "idle"
  /\ row.owner = o
  /\ row' = [row EXCEPT !.released = TRUE]
  /\ until' = [until EXCEPT ![o] = 0]
  /\ UNCHANGED <<clock, state, obs, seen>>

Tick ==
  /\ clock < MaxClock
  /\ clock' = clock + 1
  /\ UNCHANGED <<row, state, obs, seen, until>>

\* What the loop of a process does by itself.
LoopStep(o) ==
  \/ Acquire(o) \/ SelectRow(o) \/ Refuse(o) \/ Insert(o) \/ Update(o)
  \/ EndCycle(o)

Next ==
  \/ Tick
  \/ \E o \in Owners :
       Start(o) \/ Crash(o) \/ LoopStep(o) \/ FailAcquire(o) \/ Release(o)

\* Time passes, a live process keeps going round its loop, and its
\* transactions, tried again and again, do not fail for ever.
Fairness ==
  /\ WF_vars(Tick)
  /\ \A o \in Owners :
       /\ WF_vars(LoopStep(o))
       /\ SF_vars(SelectRow(o)) /\ SF_vars(Insert(o) \/ Update(o))

Spec == Init /\ [][Next]_vars
FairSpec == Spec /\ Fairness

-----------------------------------------------------------------------------
(* Properties *)

\* The lease that the row, the clock and the processes' beliefs should form.
Lease == INSTANCE AtomicLease

\* The lock's row and what the processes remember of it are well formed.
TypeOK ==
  /\ row \in Row
  /\ clock \in Nat
  /\ state \in [Owners -> States]
  /\ obs \in [Owners -> Nat]
  /\ seen \in [Owners -> Row]
  /\ until \in [Owners -> Nat]

\* At most one instance id, dead or alive, counts on a lease that is in force.  So
\* a service that comes back as another owner waits for the lease of the one it
\* replaces to lapse.
OneInForce ==
  \A o, p \in Owners : until[o] > clock /\ until[p] > clock => o = p

\* The race for a row that does not exist yet has one winner: as long as the
\* first lease cannot have lapsed, at most one process is in its cycle.
FirstLeaseExclusive ==
  clock < Ttl => \A o, p \in Owners : state[o] = "writing" /\ state[p] = "writing" => o = p

\* A lease outlives its owner by its time to live and no longer: while another
\* process is alive, the name of an owner that stays dead leaves the row.
DeadOwnerReplaced ==
  \A o, p \in Owners :
    (row.owner = o /\ state[o] = "dead" /\ p \in Live /\ row.until <= MaxClock)
      ~> (row.owner # o \/ state[o] # "dead" \/ p \notin Live)

\* With one writer process at a time, reading the row and writing it later is as
\* good as taking the lease in one step.
ImplementsLease == Lease!Spec
=============================================================================
