----------------------------- MODULE OrderBook -----------------------------
(***************************************************************************)
(* The local order book of one symbol, LocalOrderBook, which the WebSocket *)
(* cache and the replay keep from the exchange's orderbook topic, and the  *)
(* exchange's side of that topic as far as the book relies on it: a        *)
(* snapshot of the best StreamDepth levels per side, then the changes.     *)
(*                                                                         *)
(* Messages wait while the service is busy with a strategy cycle.  A       *)
(* connection that ends also ends the service, which is restarted with an  *)
(* empty book.  Update ids, sequence numbers and times are left out; the   *)
(* book only compares an update id with 1.                                 *)
(***************************************************************************)
EXTENDS Integers, FiniteSets, Sequences

CONSTANTS
  Prices,
  Qtys,
  StreamDepth,  \* levels per side of the topic
  Depth,        \* LocalOrderBook.depth
  MaxPending    \* bound: messages that wait

ASSUME BookAssumption ==
  /\ Prices \subseteq Nat \ {0}
  /\ IsFiniteSet(Prices)
  /\ Qtys \subseteq Nat \ {0}
  /\ StreamDepth \in Nat \ {0}
  /\ Depth \in Nat \ {0}
  /\ MaxPending \in Nat \ {0}

VARIABLES
  market,   \* the exchange's book
  online,   \* there is a connection
  pending,  \* messages sent and not yet handled
  book,     \* bids and asks
  ready

vars == <<market, online, pending, book, ready>>

Sides == {"BUY", "SELL"}

\* One side of a book: the quantity at each price, 0 for no level.
Levels == [Prices -> Qtys \cup {0}]
NoLevels == [p \in Prices |-> 0]
Empty == [s \in Sides |-> NoLevels]

Present(levels) == {p \in Prices : levels[p] > 0}
Better(side, p, q) == IF side = "BUY" THEN p > q ELSE p < q

\* How many of a side's levels are better than p.
Ahead(side, on, p) == Cardinality({q \in on : Better(side, q, p)})

\* The n best levels of a side.
Best(side, levels, n) ==
  LET on == Present(levels)
  IN [p \in Prices |-> IF Ahead(side, on, p) < n THEN levels[p] ELSE 0]

Crossed(b) == \E p \in Present(b["BUY"]), q \in Present(b["SELL"]) : p >= q

\* What the exchange's book may be.
Markets == {m \in [Sides -> Levels] : ~Crossed(m)}

\* A message: per side, the prices it names with their quantities; first says
\* that its update id is 1.
Changes == UNION {[on -> Qtys \cup {0}] : on \in SUBSET Prices}
Message == [type : {"snapshot", "delta"}, first : BOOLEAN, levels : [Sides -> Changes]]

-----------------------------------------------------------------------------
(* The exchange *)

Window(m) == [s \in Sides |-> Best(s, m[s], StreamDepth)]

Snapshot(m) ==
  LET w == Window(m) IN [s \in Sides |-> [p \in Present(w[s]) |-> w[s][p]]]

\* The prices whose level in the window changes from v to w.
Moved(v, w) == {p \in Prices : v[p] # w[p]}

\* The message about a market that was m and is n: what moved in its window.  Levels
\* that others pushed out of the window may be left out (those of mute).
Delta(m, n, mute) ==
  LET v == Window(m)
      w == Window(n)
      pushed(s) == {p \in mute : w[s][p] = 0 /\ n[s][p] > 0}
  IN [s \in Sides |-> [p \in Moved(v[s], w[s]) \ pushed(s) |-> w[s][p]]]

Init ==
  /\ market \in Markets
  /\ online = FALSE
  /\ pending = <<>>
  /\ book = Empty
  /\ ready = FALSE

Room == Len(pending) < MaxPending
Send(m) == pending' = Append(pending, m)

\* Subscribers first get a snapshot.
Connect ==
  /\ ~online
  /\ online' = TRUE
  /\ Send([type |-> "snapshot", first |-> FALSE, levels |-> Snapshot(market)])
  /\ UNCHANGED <<market, book, ready>>

\* Orders come, go and match; what is moved in the window is sent.
Trade ==
  /\ Room
  /\ market' \in Markets
  /\ IF online /\ Window(market') # Window(market)
       THEN \E mute \in SUBSET Prices :
              Send([type |-> "delta", first |-> FALSE,
                    levels |-> Delta(market, market', mute)])
       ELSE UNCHANGED pending
  /\ UNCHANGED <<online, book, ready>>

\* The exchange's service restarts, with what is left of its book, and counts its
\* updates from 1 again.
Recount ==
  /\ online /\ Room
  /\ \E kept \in SUBSET Prices :
       market' = [s \in Sides |-> [p \in Prices |-> IF p \in kept THEN market[s][p] ELSE 0]]
  /\ \E type \in {"snapshot", "delta"} :
       Send([type |-> type, first |-> TRUE, levels |-> Snapshot(market')])
  /\ UNCHANGED <<online, book, ready>>

-----------------------------------------------------------------------------
(* LocalOrderBook *)

\* Slip: update id 1 is nothing special.
IsSnapshot(m) == m.type = "snapshot"
IsReset(m) == m.type = "snapshot" \/ m.first

\* Slip: a level of no quantity is not removed.
MergeKeeping(levels, changes) ==
  [p \in Prices |-> IF p \in DOMAIN changes /\ changes[p] > 0 THEN changes[p] ELSE levels[p]]

\* Slip: a quantity is taken for a change.
MergeAdding(levels, changes) ==
  [p \in Prices |-> IF p \in DOMAIN changes THEN levels[p] + changes[p] ELSE levels[p]]

\* _apply_delta
Merge(levels, changes) ==
  [p \in Prices |-> IF p \in DOMAIN changes THEN changes[p] ELSE levels[p]]

\* _trim_depth
Trim(side, levels) == Best(side, levels, Depth)

\* apply_message on a book b and whether it is ready.
Applied(m, b) ==
  LET base == IF IsReset(m) THEN Empty ELSE b.book
      new == [s \in Sides |-> Trim(s, Merge(base[s], m.levels[s]))]
  IN IF IsReset(m) THEN [book |-> new, ready |-> new # Empty]
     ELSE IF b.ready THEN [b EXCEPT !.book = new]
     ELSE b

\* The next message is handled.
Handle ==
  /\ pending # <<>>
  /\ LET after == Applied(Head(pending), [book |-> book, ready |-> ready])
     IN book' = after.book /\ ready' = after.ready
  /\ pending' = Tail(pending)
  /\ UNCHANGED <<market, online>>

\* The connection ends or the service dies; its successor knows nothing.
Restart ==
  /\ online
  /\ online' = FALSE
  /\ pending' = <<>>
  /\ book' = Empty
  /\ ready' = FALSE
  /\ UNCHANGED market

Next == Connect \/ Trade \/ Recount \/ Handle \/ Restart

Spec == Init /\ [][Next]_vars

-----------------------------------------------------------------------------
(* Properties *)

\* The local book has only levels that the exchange's may have, one per price.
TypeOK ==
  /\ market \in Markets
  /\ online \in BOOLEAN
  /\ pending \in Seq(Message)
  /\ book \in [Sides -> Levels]
  /\ ready \in BOOLEAN

\* What is shown once everything sent has been handled.
CaughtUp ==
  LET shown[i \in 0..Len(pending)] ==
        IF i = 0 THEN [book |-> book, ready |-> ready]
                 ELSE Applied(pending[i], shown[i - 1])
  IN shown[Len(pending)]

\* A book that is ready is the exchange's, as deep as it was asked for, but for
\* the messages that still wait: no level is lost, left over or of another size.
MirrorsStream ==
  LET b == CaughtUp
  IN b.ready => \A s \in Sides : b.book[s] = Best(s, market[s], Depth)

\* The strategy never sees a crossed book, whatever still waits.
NotCrossed == ~Crossed(book)
=============================================================================
