---------------------------- MODULE Instruments ----------------------------
(***************************************************************************)
(* A symbol's instrument filters on their way from the exchange to the     *)
(* strategy: instrument-sync fetches and stores them, a strategy writer's  *)
(* client keeps what it has fetched once, and every cycle stores what it   *)
(* uses as the newest row.  A set of filters is represented by a version.  *)
(***************************************************************************)
EXTENDS Integers

CONSTANTS
  Writers,     \* strategy writers
  Syncs,       \* instrument-sync processes
  LastVersion  \* bound: versions the exchange publishes

VARIABLES
  exchange,  \* the filters in force at the exchange
  stored,    \* the newest row of instrument_specs, 0 for no row
  client,    \* a writer's BybitRestClient._instrument_cache, 0 for no entry
  pc,
  loaded,    \* what get_instrument_info returned
  used       \* the filters of a writer's latest cycle, 0 for the fallback

vars == <<exchange, stored, client, pc, loaded, used>>

Procs == Writers \cup Syncs
Versions == 1..LastVersion

TypeOK ==
  /\ exchange \in Versions
  /\ stored \in Versions \cup {0}
  /\ client \in [Writers -> Versions \cup {0}]
  /\ pc \in [Procs -> {"idle", "save"}]
  /\ loaded \in [Procs -> Versions \cup {0}]
  /\ used \in [Writers -> Versions \cup {0}]

Init ==
  /\ exchange = 1
  /\ stored = 0
  /\ client = [w \in Writers |-> 0]
  /\ pc = [p \in Procs |-> "idle"]
  /\ loaded = [p \in Procs |-> 0]
  /\ used = [w \in Writers |-> 0]

Loaded(p, version) ==
  /\ pc[p] = "idle"
  /\ loaded' = [loaded EXCEPT ![p] = version]
  /\ pc' = [pc EXCEPT ![p] = "save"]
  /\ UNCHANGED <<exchange, stored, used>>

\* get_instruments_info with its default use_cache: an entry never expires.
LoadCached(w) ==
  /\ client[w] # 0
  /\ Loaded(w, client[w])
  /\ UNCHANGED client

LoadFetched(w) ==
  /\ client[w] = 0
  /\ Loaded(w, exchange)
  /\ client' = [client EXCEPT ![w] = exchange]

\* The exchange does not answer: the newest row, or the fallback.
LoadFailed(w) ==
  /\ pc[w] = "idle"
  /\ client[w] = 0
  /\ used' = [used EXCEPT ![w] = stored]
  /\ UNCHANGED <<exchange, stored, client, pc, loaded>>

\* instrument-sync passes the client's cache by.
Fetch(s) ==
  /\ Loaded(s, exchange)
  /\ UNCHANGED client

\* save_instrument_spec inserts a row with the time of the insertion.
Save(p) ==
  /\ pc[p] = "save"
  /\ stored' = loaded[p]
  /\ loaded' = [loaded EXCEPT ![p] = 0]
  /\ pc' = [pc EXCEPT ![p] = "idle"]
  /\ used' = [w \in Writers |-> IF w = p THEN loaded[p] ELSE used[w]]
  /\ UNCHANGED <<exchange, client>>

\* A crash and restart, or a transaction that fails: the latter keeps the
\* client.
Restart(p) ==
  /\ pc' = [pc EXCEPT ![p] = "idle"]
  /\ loaded' = [loaded EXCEPT ![p] = 0]
  /\ \/ UNCHANGED client
     \/ client' = [w \in Writers |-> IF w = p THEN 0 ELSE client[w]]
  /\ UNCHANGED <<exchange, stored, used>>

ChangeFilters ==
  /\ exchange < LastVersion
  /\ exchange' = exchange + 1
  /\ UNCHANGED <<stored, client, pc, loaded, used>>

Next ==
  \/ \E w \in Writers : LoadCached(w) \/ LoadFetched(w) \/ LoadFailed(w)
  \/ \E s \in Syncs : Fetch(s)
  \/ \E p \in Procs : Save(p) \/ Restart(p)
  \/ ChangeFilters

Spec == Init /\ [][Next]_vars

\* The loops go on.
Fairness ==
  /\ \A w \in Writers : WF_vars(LoadCached(w) \/ LoadFetched(w) \/ LoadFailed(w)) /\ SF_vars(Save(w))
  /\ \A s \in Syncs : WF_vars(Fetch(s)) /\ SF_vars(Save(s))

FairSpec == Spec /\ Fairness

-----------------------------------------------------------------------------
(* Properties.                                                             *)

\* Filters the exchange has put in force reach the strategy, now that
\* instrument-sync fetches and stores them again and again
\* (run_instrument_loop).
RefreshReachesStrategy ==
  \A v \in Versions : \A w \in Writers : (exchange >= v) ~> (used[w] >= v)
=============================================================================
