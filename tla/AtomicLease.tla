---------------------------- MODULE AtomicLease -----------------------------
(***************************************************************************)
(* What a lease promises: it is taken in one step, by its owner again or   *)
(* when it is free, and an owner counts on it until it lapses.             *)
(***************************************************************************)
EXTENDS Integers

CONSTANTS Owners, NoOwner, Ttl

VARIABLES row, clock, until

vars == <<row, clock, until>>

Free == [owner |-> NoOwner, until |-> 0, released |-> FALSE]

Init ==
  /\ row = Free
  /\ clock = 0
  /\ until = [o \in Owners |-> 0]

\* The lease is taken as of a moment that is not in the future.
Take(o, at) ==
  /\ at <= clock
  /\ row.owner \in {o, NoOwner} \/ row.released \/ row.until <= at
  /\ row' = [owner |-> o, until |-> at + Ttl, released |-> FALSE]
  /\ until' = [until EXCEPT ![o] = at + Ttl]
  /\ UNCHANGED clock

Release(o) ==
  /\ row.owner = o
  /\ row' = [row EXCEPT !.released = TRUE]
  /\ until' = [until EXCEPT ![o] = 0]
  /\ UNCHANGED clock

Tick == clock' = clock + 1 /\ UNCHANGED <<row, until>>

Next ==
  \/ Tick
  \/ \E o \in Owners : Release(o) \/ \E at \in 0..clock : Take(o, at)

Spec == Init /\ [][Next]_vars

\* At most one owner counts on a lease that is in force.
OneInForce ==
  \A o, p \in Owners : until[o] > clock /\ until[p] > clock => o = p
=============================================================================
