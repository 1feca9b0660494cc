------------------------- MODULE StrategyLockProofs -------------------------
(***************************************************************************)
(* Theorems about the strategy lock, for every set of processes, every     *)
(* time to live and every run of the clock.                                *)
(***************************************************************************)
EXTENDS StrategyLock, FiniteSetTheorems, TLAPS

-----------------------------------------------------------------------------
(* Type correctness *)

LEMMA InitType == Init => TypeOK
  BY DEF Init, TypeOK, NoRow, Row, States

\* An attempt that is over leaves its process a well-formed state.
LEMMA LeaveType ==
  ASSUME TypeOK, NEW o \in Owners, NEW to \in States, Leave(o, to)
  PROVE  /\ state' \in [Owners -> States]
         /\ obs' \in [Owners -> Nat]
         /\ seen' \in [Owners -> Row]
  BY DEF TypeOK, Leave, NoRow, Row

\* Holding the lock does too.
LEMMA HoldType ==
  ASSUME TypeOK, NEW o \in Owners, Hold(o)
  PROVE  /\ state' \in [Owners -> States]
         /\ obs' \in [Owners -> Nat]
         /\ seen' \in [Owners -> Row]
         /\ until' \in [Owners -> Nat]
<1>1. "writing" \in States
  BY DEF States
<1>2. obs[o] + Ttl \in Nat
  BY LockAssumption DEF TypeOK
<1> QED
  BY <1>1, <1>2, LeaveType DEF Hold, TypeOK

LEMMA NextType == TypeOK /\ [Next]_vars => TypeOK'
<1> SUFFICES ASSUME TypeOK, [Next]_vars
             PROVE  TypeOK'
  OBVIOUS
<1>1. CASE Tick
  BY <1>1 DEF TypeOK, Tick
<1>2. ASSUME NEW o \in Owners, Start(o)
      PROVE  TypeOK'
  BY <1>2 DEF TypeOK, Start, Goto, States
<1>3. ASSUME NEW o \in Owners, Crash(o)
      PROVE  TypeOK'
  BY <1>3, LeaveType DEF TypeOK, Crash, States
<1>4. ASSUME NEW o \in Owners, Acquire(o)
      PROVE  TypeOK'
  BY <1>4 DEF TypeOK, Acquire, Goto, States
<1>5. ASSUME NEW o \in Owners, SelectRow(o)
      PROVE  TypeOK'
  BY <1>5 DEF TypeOK, SelectRow, Goto, States
<1>6. ASSUME NEW o \in Owners, Refuse(o)
      PROVE  TypeOK'
  BY <1>6, LeaveType DEF TypeOK, Refuse, States
<1>7. ASSUME NEW o \in Owners, Insert(o), row = NoRow
      PROVE  TypeOK'
  <2>1. [owner |-> o, until |-> obs[o] + Ttl, released |-> FALSE] \in Row
    BY LockAssumption DEF TypeOK, Row
  <2> QED
    BY <1>7, <2>1, HoldType DEF TypeOK, Insert, InsertRow
<1>8. ASSUME NEW o \in Owners, Insert(o), row # NoRow
      PROVE  TypeOK'
  BY <1>8 DEF TypeOK, Insert, InsertConflict, States
<1>9. ASSUME NEW o \in Owners, Update(o)
      PROVE  TypeOK'
  <2>1. Updated(o) \in Row
    BY LockAssumption DEF TypeOK, Updated, Row
  <2> QED
    BY <1>9, <2>1, HoldType DEF TypeOK, Update
<1>10. ASSUME NEW o \in Owners, EndCycle(o)
       PROVE  TypeOK'
  BY <1>10 DEF TypeOK, EndCycle, Goto, States
<1>11. ASSUME NEW o \in Owners, FailAcquire(o)
       PROVE  TypeOK'
  BY <1>11, LeaveType DEF TypeOK, FailAcquire, States
<1>12. ASSUME NEW o \in Owners, Release(o)
       PROVE  TypeOK'
  BY <1>12 DEF TypeOK, Release, Row
<1>13. CASE UNCHANGED vars
  BY <1>13 DEF TypeOK, vars
<1> QED
  BY <1>1, <1>2, <1>3, <1>4, <1>5, <1>6, <1>7, <1>8, <1>9, <1>10, <1>11, <1>12, <1>13
  DEF Next, LoopStep

\* The row and what the processes remember of it are well formed.
THEOREM TypeCorrect == Spec => []TypeOK
  BY InitType, NextType, PTL DEF Spec

-----------------------------------------------------------------------------
(* One writer process at a time *)

\* Nobody but the one live process touches the row, so what it has read is what
\* the row still is when it writes.
AloneInv ==
  /\ TypeOK
  /\ \A o, p \in Live : o = p
  /\ \A o \in Owners : state[o] \in {"read", "reread"} => seen[o] = row
  /\ \A o \in Owners : obs[o] <= clock

\* A process starts only when no other lives.
LEMMA StartsAlone ==
  ASSUME MaxLive = 1, \A o, p \in Live : o = p, Cardinality(Live) < MaxLive
  PROVE  Live = {}
<1> SUFFICES ASSUME NEW o \in Live
             PROVE  FALSE
  OBVIOUS
<1>1. Live = {o}
  OBVIOUS
<1>2. Cardinality(Live) = 1
  BY <1>1, FS_Singleton
<1> QED
  BY <1>2

\* A step of one live process that does not read the row under another's eyes
\* keeps the invariant.
LEMMA NextAlone ==
  ASSUME MaxLive = 1, AloneInv, [Next]_vars
  PROVE  AloneInv'
<1>0. TypeOK /\ TypeOK'
  BY NextType DEF AloneInv
<1>1. CASE Tick
  BY <1>0, <1>1 DEF AloneInv, Tick, Live, TypeOK
<1>2. ASSUME NEW o \in Owners, Start(o)
      PROVE  AloneInv'
  <2>1. Live = {}
    BY <1>2, StartsAlone DEF AloneInv, Start
  <2>2. Live' \subseteq {o}
    BY <1>0, <1>2, <2>1 DEF Start, Goto, Live, TypeOK
  <2> QED
    BY <1>0, <1>2, <2>2 DEF AloneInv, Start, Goto, TypeOK
<1>3. ASSUME NEW o \in Owners, Leave(o, "idle") \/ Leave(o, "dead") \/ Leave(o, "writing"),
             o \in Live, UNCHANGED clock
      PROVE  AloneInv'
  <2>1. Live' \subseteq Live
    BY <1>0, <1>3 DEF Leave, Live, TypeOK
  <2>2. \A p \in Owners : state'[p] \in {"read", "reread"} =>
          p # o /\ state'[p] = state[p]
    BY <1>0, <1>3 DEF Leave, TypeOK
  <2>3. \A p \in Owners : state'[p] \notin {"read", "reread"}
    BY <1>0, <1>3, <2>2 DEF AloneInv, Live, TypeOK
  <2>4. \A p \in Owners : obs'[p] <= clock'
    BY <1>0, <1>3 DEF AloneInv, Leave, TypeOK
  <2> QED
    BY <1>0, <2>1, <2>3, <2>4 DEF AloneInv
<1>4. ASSUME NEW o \in Owners, Acquire(o)
      PROVE  AloneInv'
  BY <1>0, <1>4 DEF AloneInv, Acquire, Goto, Live, TypeOK
<1>5. ASSUME NEW o \in Owners, SelectRow(o)
      PROVE  AloneInv'
  BY <1>0, <1>5 DEF AloneInv, SelectRow, Goto, Live, TypeOK
<1>6. ASSUME NEW o \in Owners, Refuse(o)
      PROVE  AloneInv'
  BY <1>3, <1>6 DEF Refuse, Live
<1>7. ASSUME NEW o \in Owners, Insert(o), row = NoRow
      PROVE  AloneInv'
  BY <1>3, <1>7 DEF Insert, InsertRow, Hold, Live
<1>8. ASSUME NEW o \in Owners, Insert(o), row # NoRow
      PROVE  AloneInv'
  BY <1>8 DEF Insert, InsertConflict, AloneInv
<1>9. ASSUME NEW o \in Owners, Update(o)
      PROVE  AloneInv'
  BY <1>3, <1>9 DEF Update, Hold, Live
<1>10. ASSUME NEW o \in Owners, EndCycle(o)
       PROVE  AloneInv'
  BY <1>0, <1>10 DEF AloneInv, EndCycle, Goto, Live, TypeOK
<1>11. ASSUME NEW o \in Owners, FailAcquire(o)
       PROVE  AloneInv'
  BY <1>3, <1>11 DEF FailAcquire, Live
<1>12. ASSUME NEW o \in Owners, Crash(o)
       PROVE  AloneInv'
  BY <1>3, <1>12 DEF Crash
<1>13. ASSUME NEW o \in Owners, Release(o)
       PROVE  AloneInv'
  <2>1. \A p \in Owners : state[p] \notin {"read", "reread"}
    BY <1>0, <1>13 DEF AloneInv, Release, Live, TypeOK
  <2> QED
    BY <1>0, <1>13, <2>1 DEF AloneInv, Release, Live, TypeOK
<1>14. CASE UNCHANGED vars
  BY <1>0, <1>14 DEF AloneInv, vars, Live
<1> QED
  BY <1>1, <1>2, <1>4, <1>5, <1>6, <1>7, <1>8, <1>9, <1>10, <1>11, <1>12, <1>13, <1>14
  DEF Next, LoopStep

LEMMA InitAlone == Init => AloneInv
  BY InitType DEF Init, AloneInv, Live

\* An insertion takes a free lease.
LEMMA InsertTakes ==
  ASSUME AloneInv, NEW o \in Owners, Insert(o), row = NoRow
  PROVE  Lease!Take(o, obs[o])
  BY DEF AloneInv, TypeOK, Insert, InsertRow, Hold, NoRow, Lease!Take

\* An update takes a lease that is the owner's, released or lapsed.
LEMMA UpdateTakes ==
  ASSUME AloneInv, NEW o \in Owners, Update(o)
  PROVE  Lease!Take(o, obs[o])
<1>1. seen[o] = row /\ obs[o] <= clock
  BY DEF AloneInv, Update
<1>2. row' = [owner |-> o, until |-> obs[o] + Ttl, released |-> FALSE]
  BY <1>1 DEF Update, Updated, AloneInv, TypeOK, Row
<1>3. row.owner \in {o, NoOwner} \/ row.released \/ row.until <= obs[o]
  BY <1>1 DEF Update, CanTake
<1> QED
  BY <1>1, <1>2, <1>3 DEF Update, Hold, Lease!Take

\* Every step is a step of the lease or leaves it as it is.
LEMMA StepRefines ==
  ASSUME MaxLive = 1, AloneInv, [Next]_vars
  PROVE  [Lease!Next]_(Lease!vars)
<1>1. CASE Tick
  BY <1>1 DEF Tick, Lease!Next, Lease!Tick
<1>2. ASSUME NEW o \in Owners, (Insert(o) /\ row = NoRow) \/ Update(o)
      PROVE  Lease!Next
  <2>1. obs[o] \in 0..clock
    BY DEF AloneInv, TypeOK
  <2> QED
    BY <1>2, <2>1, InsertTakes, UpdateTakes DEF Lease!Next
<1>3. ASSUME NEW o \in Owners, Release(o)
      PROVE  Lease!Next
  BY <1>3 DEF Release, Lease!Next, Lease!Release
<1>4. ASSUME NEW o \in Owners,
             \/ Start(o) \/ Crash(o) \/ Acquire(o) \/ SelectRow(o) \/ Refuse(o)
             \/ (Insert(o) /\ row # NoRow) \/ EndCycle(o) \/ FailAcquire(o)
      PROVE  UNCHANGED Lease!vars
  BY <1>4 DEF Start, Crash, Acquire, SelectRow, Refuse, Insert, InsertConflict, EndCycle,
              FailAcquire, Lease!vars
<1>5. CASE UNCHANGED vars
  BY <1>5 DEF vars, Lease!vars
<1> QED
  BY <1>1, <1>2, <1>3, <1>4, <1>5 DEF Next, LoopStep

\* A deployment that runs one writer process at a time, restarted at any moment
\* as a new owner, takes the lease atomically.
THEOREM SoleWriterImplementsLease ==
  ASSUME MaxLive = 1
  PROVE  Spec => ImplementsLease
<1>1. Init => Lease!Init
  BY DEF Init, NoRow, Lease!Init, Lease!Free
<1>2. AloneInv /\ [Next]_vars => AloneInv'
  BY NextAlone
<1>3. AloneInv /\ [Next]_vars => [Lease!Next]_(Lease!vars)
  BY StepRefines
<1> QED
  BY <1>1, <1>2, <1>3, InitAlone, PTL DEF Spec, ImplementsLease, Lease!Spec

-----------------------------------------------------------------------------
(* The lease *)

\* An owner that counts on a lease in force is the one in the row.
LeaseInv ==
  /\ clock \in Nat /\ row \in Row /\ until \in [Owners -> Nat]
  /\ \A o \in Owners : until[o] > clock =>
       row.owner = o /\ row.until = until[o] /\ ~row.released

LEMMA LeaseInit == Lease!Init => LeaseInv
  BY DEF Lease!Init, Lease!Free, LeaseInv, Row

LEMMA LeaseStep == LeaseInv /\ [Lease!Next]_(Lease!vars) => LeaseInv'
<1> SUFFICES ASSUME LeaseInv, [Lease!Next]_(Lease!vars)
             PROVE  LeaseInv'
  OBVIOUS
<1>1. ASSUME NEW o \in Owners, NEW at \in 0..clock, Lease!Take(o, at)
      PROVE  LeaseInv'
  <2>1. at \in Nat /\ at <= clock /\ at + Ttl \in Nat
    BY LockAssumption DEF LeaseInv
  <2>2. row' = [owner |-> o, until |-> at + Ttl, released |-> FALSE] /\ row' \in Row
    BY <1>1, <2>1 DEF Lease!Take, Row
  <2>3. until' \in [Owners -> Nat] /\ until'[o] = at + Ttl
    BY <1>1, <2>1 DEF Lease!Take, LeaseInv
  <2>4. ASSUME NEW p \in Owners, p # o, until'[p] > clock
        PROVE  FALSE
    <3>1. until[p] > clock
      BY <1>1, <2>4 DEF Lease!Take, LeaseInv
    <3>2. row.owner = p /\ row.until = until[p] /\ ~row.released
      BY <3>1 DEF LeaseInv
    <3>3. row.owner \notin {o, NoOwner} /\ ~(row.until <= at)
      BY <2>1, <2>4, <3>1, <3>2, LockAssumption DEF LeaseInv
    <3> QED
      BY <1>1, <3>2, <3>3 DEF Lease!Take
  <2> QED
    BY <1>1, <2>2, <2>3, <2>4 DEF LeaseInv, Lease!Take
<1>2. ASSUME NEW o \in Owners, Lease!Release(o)
      PROVE  LeaseInv'
  <2>1. row' \in Row /\ until' \in [Owners -> Nat] /\ clock' = clock /\ clock \in Nat
    BY <1>2 DEF Lease!Release, LeaseInv, Row
  <2>2. \A p \in Owners : ~(until'[p] > clock)
    BY <1>2 DEF Lease!Release, LeaseInv
  <2> QED
    BY <2>1, <2>2 DEF LeaseInv
<1>3. CASE Lease!Tick
  BY <1>3 DEF Lease!Tick, LeaseInv
<1>4. CASE UNCHANGED Lease!vars
  BY <1>4 DEF Lease!vars, LeaseInv
<1> QED
  BY <1>1, <1>2, <1>3, <1>4 DEF Lease!Next

\* A lease that is taken in one step is in force for one owner at a time.
THEOREM LeaseExclusive == Lease!Spec => []OneInForce
<1>1. LeaseInv => OneInForce
  BY DEF LeaseInv, OneInForce
<1> QED
  BY <1>1, LeaseInit, LeaseStep, PTL DEF Lease!Spec

\* So is the strategy lock of a deployment that runs one writer process at a
\* time: a restarted service never counts on the lock together with the process
\* it replaces.
THEOREM SoleWriterOneInForce ==
  ASSUME MaxLive = 1
  PROVE  Spec => []OneInForce
  BY SoleWriterImplementsLease, LeaseExclusive, PTL DEF ImplementsLease

-----------------------------------------------------------------------------
(* The race for the first lease *)

\* A row that is there belongs to somebody and has not been released.
Lasting(r) == r # NoRow => r.owner \in Owners /\ r.until >= Ttl /\ ~r.released

\* Until the first lease can lapse its owner is the row's, in the row and in
\* what anybody has read of it, and nobody else is in a cycle.
FirstInv ==
  /\ TypeOK
  /\ Lasting(row)
  /\ \A o \in Owners : /\ Lasting(seen[o]) /\ obs[o] <= clock
                       /\ seen[o] # NoRow => row # NoRow
  /\ clock < Ttl =>
       \A o \in Owners : /\ seen[o] # NoRow => seen[o].owner = row.owner
                         /\ state[o] = "writing" => row.owner = o

LEMMA InitFirst == Init => FirstInv
  BY InitType DEF Init, FirstInv, Lasting

\* A step that leaves the row alone, reads it or not, and enters no cycle keeps
\* the invariant.
LEMMA RowUntouched ==
  ASSUME FirstInv, TypeOK', row' = row, clock' \in {clock, clock + 1},
         \A o \in Owners : /\ seen'[o] \in {seen[o], row, NoRow}
                           /\ obs'[o] \in {obs[o], clock, 0}
                           /\ state'[o] = "writing" => state[o] = "writing"
  PROVE  FirstInv'
<1>1. clock \in Nat /\ Ttl \in Nat
  BY LockAssumption DEF FirstInv, TypeOK
<1>2. \A o \in Owners : obs'[o] <= clock'
  <2>1. \A o \in Owners : obs[o] \in Nat /\ obs[o] <= clock
    BY DEF FirstInv, TypeOK
  <2> QED
    BY <1>1, <2>1
<1>3. Lasting(row) /\ \A o \in Owners : Lasting(seen[o])
  BY DEF FirstInv
<1>4. Lasting(NoRow)
  BY DEF Lasting
<1>5. Lasting(row)' /\ \A o \in Owners : Lasting(seen[o])'
  BY <1>3, <1>4 DEF Lasting
<1>6. \A o \in Owners : seen'[o] # NoRow => row' # NoRow
  BY DEF FirstInv
<1>7. clock' < Ttl => clock < Ttl
  BY <1>1
<1>8. clock' < Ttl =>
        \A o \in Owners : /\ seen'[o] # NoRow => seen'[o].owner = row'.owner
                          /\ state'[o] = "writing" => row'.owner = o
  BY <1>7 DEF FirstInv
<1> QED
  BY <1>2, <1>5, <1>6, <1>8 DEF FirstInv

\* A step that writes the row r of owner o, who enters its cycle, keeps it if
\* nobody had another owner's row before.
LEMMA RowTaken ==
  ASSUME FirstInv, TypeOK', NEW o \in Owners, Hold(o), UNCHANGED clock,
         Lasting(row'), row' # NoRow,
         clock < Ttl => row'.owner = o /\ (row = NoRow \/ row.owner = o)
  PROVE  FirstInv'
<1>1. /\ \A p \in Owners : p # o => /\ state'[p] = state[p]
                                    /\ seen'[p] = seen[p] /\ obs'[p] = obs[p]
      /\ seen'[o] = NoRow /\ obs'[o] = 0
  BY DEF FirstInv, TypeOK, Hold, Leave
<1>2. \A p \in Owners : obs'[p] <= clock'
  BY <1>1 DEF FirstInv, TypeOK
<1>3. Lasting(NoRow)
  BY DEF Lasting
<1>4. \A p \in Owners : Lasting(seen[p])'
  BY <1>1, <1>3 DEF FirstInv, Lasting
<1>5. ASSUME clock < Ttl, NEW p \in Owners
      PROVE  /\ seen'[p] # NoRow => seen'[p].owner = row'.owner
             /\ state'[p] = "writing" => row'.owner = p
  <2>1. CASE row = NoRow
    <3>1. seen[p] = NoRow
      BY <2>1 DEF FirstInv
    <3>2. state[p] # "writing"
      BY <2>1, <1>5, LockAssumption DEF FirstInv, NoRow
    <3> QED
      BY <1>1, <1>5, <3>1, <3>2
  <2>2. CASE row.owner = o
    BY <1>1, <1>5, <2>2 DEF FirstInv
  <2> QED
    BY <1>5, <2>1, <2>2
<1> QED
  BY <1>2, <1>4, <1>5 DEF FirstInv, Lasting

LEMMA NextFirst ==
  ASSUME Releases = FALSE, FirstInv, [Next]_vars
  PROVE  FirstInv'
<1>0. TypeOK /\ TypeOK'
  BY NextType DEF FirstInv
<1>1. CASE Tick \/ UNCHANGED vars
  BY <1>0, <1>1, RowUntouched DEF Tick, vars
<1>2. ASSUME NEW o \in Owners,
             \/ Start(o) \/ Crash(o) \/ Acquire(o) \/ SelectRow(o) \/ Refuse(o)
             \/ EndCycle(o) \/ FailAcquire(o)
      PROVE  FirstInv'
  <2>1. row' = row /\ clock' = clock
    BY <1>2 DEF Start, Crash, Acquire, SelectRow, Refuse, EndCycle, FailAcquire
  <2>2. \A p \in Owners : /\ seen'[p] \in {seen[p], row, NoRow}
                          /\ obs'[p] \in {obs[p], clock, 0}
                          /\ state'[p] = "writing" => state[p] = "writing"
    BY <1>0, <1>2 DEF Start, Crash, Acquire, SelectRow, Refuse, EndCycle, FailAcquire, Goto,
                      Leave, TypeOK
  <2> QED
    BY <1>0, <2>1, <2>2, RowUntouched
<1>3. ASSUME NEW o \in Owners, Insert(o), row # NoRow
      PROVE  FirstInv'
  BY <1>0, <1>3, RowUntouched DEF Insert, InsertConflict, TypeOK
\* The row is inserted: there was none, so nobody had read one.
<1>4. ASSUME NEW o \in Owners, Insert(o), row = NoRow
      PROVE  FirstInv'
  <2>1. row' = [owner |-> o, until |-> obs[o] + Ttl, released |-> FALSE] /\ Hold(o)
    BY <1>4 DEF Insert, InsertRow
  <2>2. obs[o] \in Nat /\ Ttl \in Nat /\ o # NoOwner
    BY <1>0, LockAssumption DEF TypeOK
  <2>3. row'.owner = o /\ row'.until >= Ttl /\ ~row'.released /\ row' # NoRow
    BY <2>1, <2>2 DEF NoRow
  <2> QED
    BY <1>0, <1>4, <2>1, <2>3, RowTaken DEF Insert, Lasting
\* The row is updated: as no lease can have lapsed, only by its owner.
<1>5. ASSUME NEW o \in Owners, Update(o)
      PROVE  FirstInv'
  <2>1. row' = Updated(o) /\ Hold(o) /\ clock' = clock /\ seen[o] # NoRow
        /\ CanTake(o, seen[o])
    BY <1>5 DEF Update
  <2>2. /\ row # NoRow /\ row.owner \in Owners /\ row.until >= Ttl /\ ~row.released
        /\ seen[o].until >= Ttl /\ ~seen[o].released
        /\ obs[o] <= clock
    BY <2>1 DEF FirstInv, Lasting
  <2>3. obs[o] \in Nat /\ Ttl \in Nat /\ clock \in Nat /\ seen[o].until \in Nat /\ row.until \in Nat
    BY <1>0, LockAssumption DEF TypeOK, Row
  <2>4. /\ row'.owner \in {o, row.owner}
        /\ row'.until \in {row.until, obs[o] + Ttl} /\ ~row'.released
    BY <2>1, <2>2 DEF Updated
  <2>5. Lasting(row') /\ row' # NoRow
    <3>1. row'.owner \in Owners /\ row'.until >= Ttl
      BY <2>2, <2>3, <2>4
    <3> QED
      BY <2>4, <3>1, LockAssumption DEF Lasting, NoRow
  <2>6. clock < Ttl => seen[o].owner = o /\ row.owner = o
    BY <2>1, <2>2, <2>3 DEF CanTake, FirstInv
  <2> QED
    BY <1>0, <2>1, <2>4, <2>5, <2>6, RowTaken
<1>6. ASSUME NEW o \in Owners, Release(o)
      PROVE  FALSE
  BY <1>6 DEF Release
<1> QED
  BY <1>1, <1>2, <1>3, <1>4, <1>5, <1>6 DEF Next, LoopStep

\* However many processes race to insert the first row, and fail, die and come
\* back on the way: until that lease can lapse one of them at most is in a cycle.
THEOREM FirstRaceHasOneWinner ==
  ASSUME Releases = FALSE
  PROVE  Spec => []FirstLeaseExclusive
<1>1. FirstInv /\ [Next]_vars => FirstInv'
  BY NextFirst
<1>2. FirstInv => FirstLeaseExclusive
  BY DEF FirstInv, FirstLeaseExclusive
<1> QED
  BY <1>1, <1>2, InitFirst, PTL DEF Spec
=============================================================================
