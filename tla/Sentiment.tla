----------------------------- MODULE Sentiment -----------------------------
(***************************************************************************)
(* The cached Fear & Greed index: the table of daily values, the processes *)
(* that refresh it from Alternative.me (fng-sync, and a strategy writer    *)
(* whose cached value has become old), and what a writer's cycle is told.  *)
(*                                                                         *)
(* A refresh is two calls and then one transaction per value; the rows are *)
(* shared and nobody holds a lock.  A value is represented by its day, and *)
(* a row by the time its value was fetched.  A tick of the clock is longer *)
(* than a call: an answer's values are those of the tick it is stamped     *)
(* with.                                                                   *)
(***************************************************************************)
EXTENDS Integers, Sequences

CONSTANTS
  Writers,       \* strategy writers (bot-rest, ws-shadow)
  Syncs,         \* fng-sync processes
  RefreshAfter,  \* FNG_REFRESH_SECONDS
  HistoryLimit,  \* FNG_HISTORY_LIMIT; 0 asks for all days
  NoRow,         \* no row for a day
  LastDay,       \* bound: days that are published
  Horizon,       \* bound: ticks of the clock
  MaxFaults      \* bound: crashes, failed transactions, malformed answers

ASSUME SentimentAssumption ==
  /\ Writers \cap Syncs = {}
  /\ RefreshAfter \in Nat \ {0}
  /\ HistoryLimit \in Nat
  /\ NoRow \notin Nat
  /\ LastDay \in Nat \ {0}
  /\ Horizon \in Nat
  /\ MaxFaults \in Nat

VARIABLES
  now,
  dayAt,   \* the newest day the provider had published by each time
  rows,    \* sentiment_fng: when the row of a day was fetched
  pc,
  batch,   \* what a refresh has fetched and not yet saved
  found,   \* what save_fear_greed_value's SELECT found
  asked,   \* the time of the snapshot a writer's cycle is about
  kept,    \* the day of the context a writer read before it asked the provider
  told,    \* the day a writer's cycle goes on with, and where it comes from
  faults

vars == <<now, dayAt, rows, pc, batch, found, asked, kept, told, faults>>
world == <<now, dayAt, faults>>

Procs == Writers \cup Syncs
Days == 1..LastDay
Times == 0..Horizon
Values == [day : Days, at : Times]
Sources == {"nothing", "cache", "provider", "fallback"}
Nothing == [day |-> 0, from |-> "nothing"]

TypeOK ==
  /\ now \in Times
  /\ dayAt \in [Times -> 0..LastDay]
  /\ rows \in [Days -> Times \cup {NoRow}]
  /\ pc \in [Procs -> {"idle", "ask", "history", "latest", "save", "write", "told"}]
  /\ batch \in [Procs -> Seq(Values)]
  /\ found \in [Procs -> BOOLEAN]
  /\ asked \in [Procs -> Times]
  /\ kept \in [Procs -> 0..LastDay]
  /\ told \in [Procs -> [day : 0..LastDay, from : Sources]]
  /\ faults \in 0..MaxFaults

Init ==
  /\ now = 0
  /\ dayAt = [t \in Times |-> IF t = 0 THEN 1 ELSE 0]
  /\ rows = [d \in Days |-> NoRow]
  /\ pc = [p \in Procs |-> "idle"]
  /\ batch = [p \in Procs |-> <<>>]
  /\ found = [p \in Procs |-> FALSE]
  /\ asked = [p \in Procs |-> 0]
  /\ kept = [p \in Procs |-> 0]
  /\ told = [p \in Procs |-> Nothing]
  /\ faults = 0

Published == dayAt[now]

Saved == {d \in Days : rows[d] # NoRow}

\* FearGreedContext.current: the newest day with a row, 0 for no context.
Newest == CHOOSE d \in Saved \cup {0} : \A e \in Saved : e <= d

-----------------------------------------------------------------------------
(* What a refresh asks for.                                                *)

\* One call for the history unless one value is all that is wanted, and one
\* for the latest value.
FirstCall == IF HistoryLimit = 1 THEN "latest" ELSE "history"

HistoryLength ==
  IF HistoryLimit = 0 \/ HistoryLimit > Published THEN Published ELSE HistoryLimit

\* Slip: the values arrive, and are saved, oldest first.
HistoryOldestFirst ==
  [k \in 1..HistoryLength |-> [day |-> Published - HistoryLength + k, at |-> now]]

\* The provider lists the newest day first, and the values keep that order.
History == [k \in 1..HistoryLength |-> [day |-> Published - k + 1, at |-> now]]

\* Slip: a value is dated with the day of its next update.
LatestDatedNext == [day |-> Published + 1, at |-> now]

Latest == [day |-> Published, at |-> now]

-----------------------------------------------------------------------------
(* A writer's cycle.                                                       *)

TakeSnapshot(w) ==
  /\ pc[w] = "idle"
  /\ asked' = [asked EXCEPT ![w] = now]
  /\ pc' = [pc EXCEPT ![w] = "ask"]
  /\ UNCHANGED <<world, rows, batch, found, kept, told>>

Fresh(w) == Newest # 0 /\ asked[w] - rows[Newest] < RefreshAfter

\* A value fetched recently enough is taken from the cache.
TellCached(w) ==
  /\ pc[w] = "ask"
  /\ Fresh(w)
  /\ kept' = [kept EXCEPT ![w] = Newest]
  /\ told' = [told EXCEPT ![w] = [day |-> Newest, from |-> "cache"]]
  /\ pc' = [pc EXCEPT ![w] = "told"]
  /\ UNCHANGED <<world, rows, batch, found, asked>>

AskProvider(w) ==
  /\ pc[w] = "ask"
  /\ ~Fresh(w)
  /\ kept' = [kept EXCEPT ![w] = Newest]
  /\ pc' = [pc EXCEPT ![w] = FirstCall]
  /\ UNCHANGED <<world, rows, batch, found, asked, told>>

\* The rest of the cycle: the strategy decides with what it was told.
Decide(w) ==
  /\ pc[w] = "told"
  /\ pc' = [pc EXCEPT ![w] = "idle"]
  /\ kept' = [kept EXCEPT ![w] = 0]
  /\ told' = [told EXCEPT ![w] = Nothing]
  /\ UNCHANGED <<world, rows, batch, found, asked>>

-----------------------------------------------------------------------------
(* refresh_fear_greed_cache, by a writer or by fng-sync.                   *)

\* Slip: fng-sync fills an empty cache only.
WakeOnce(s) ==
  /\ pc[s] = "idle"
  /\ Newest = 0
  /\ pc' = [pc EXCEPT ![s] = FirstCall]
  /\ UNCHANGED <<world, rows, batch, found, asked, kept, told>>

\* fng-sync wakes up; how long it slept is left open.
Wake(s) ==
  /\ pc[s] = "idle"
  /\ pc' = [pc EXCEPT ![s] = FirstCall]
  /\ UNCHANGED <<world, rows, batch, found, asked, kept, told>>

FetchHistory(p) ==
  /\ pc[p] = "history"
  /\ batch' = [batch EXCEPT ![p] = History]
  /\ pc' = [pc EXCEPT ![p] = "latest"]
  /\ UNCHANGED <<world, rows, found, asked, kept, told>>

FetchLatest(p) ==
  /\ pc[p] = "latest"
  /\ batch' = [batch EXCEPT ![p] = Append(@, Latest)]
  /\ pc' = [pc EXCEPT ![p] = "save"]
  /\ UNCHANGED <<world, rows, found, asked, kept, told>>

\* What a process forgets when its cycle ends before its time.
Forget(p) ==
  /\ pc' = [pc EXCEPT ![p] = "idle"]
  /\ batch' = [batch EXCEPT ![p] = <<>>]
  /\ found' = [found EXCEPT ![p] = FALSE]
  /\ kept' = [kept EXCEPT ![p] = 0]
  /\ told' = [told EXCEPT ![p] = Nothing]
  /\ UNCHANGED <<now, dayAt, rows, asked>>

\* fng-sync survives a call that fails and sleeps until its next turn.
SyncHttpError(s) ==
  /\ pc[s] \in {"history", "latest"}
  /\ Forget(s)
  /\ UNCHANGED faults

\* Slip: the writer's call is not guarded, and ends its cycle.
WriterHttpErrorRaised(w) ==
  /\ pc[w] \in {"history", "latest"}
  /\ Forget(w)
  /\ UNCHANGED faults

\* A writer goes on with the context it had.
WriterHttpError(w) ==
  /\ pc[w] \in {"history", "latest"}
  /\ batch' = [batch EXCEPT ![w] = <<>>]
  /\ told' = [told EXCEPT ![w] = [day |-> kept[w], from |-> "fallback"]]
  /\ pc' = [pc EXCEPT ![w] = "told"]
  /\ UNCHANGED <<world, rows, found, asked, kept>>

\* save_fear_greed_value, one transaction per value: SELECT the row ...
Select(p) ==
  /\ pc[p] = "save"
  /\ batch[p] # <<>>
  /\ found' = [found EXCEPT ![p] = rows[Head(batch[p]).day] # NoRow]
  /\ pc' = [pc EXCEPT ![p] = "write"]
  /\ UNCHANGED <<world, rows, batch, asked, kept, told>>

\* ... and UPDATE what was found, or INSERT.
Conflict(p) == ~found[p] /\ rows[Head(batch[p]).day] # NoRow

Write(p) ==
  /\ pc[p] = "write"
  /\ ~Conflict(p)
  /\ rows' = [rows EXCEPT ![Head(batch[p]).day] = Head(batch[p]).at]
  /\ batch' = [batch EXCEPT ![p] = Tail(@)]
  /\ found' = [found EXCEPT ![p] = FALSE]
  /\ pc' = [pc EXCEPT ![p] = "save"]
  /\ UNCHANGED <<world, asked, kept, told>>

\* Another process has inserted the row meanwhile: the unique constraint
\* raises, which no refresh catches.  What was saved before stays.
InsertConflict(p) ==
  /\ pc[p] = "write"
  /\ Conflict(p)
  /\ Forget(p)
  /\ UNCHANGED faults

\* Everything is saved: a writer reads the context again.
TellRefreshed(w) ==
  /\ pc[w] = "save"
  /\ batch[w] = <<>>
  /\ told' = [told EXCEPT ![w] = [day |-> Newest, from |-> "provider"]]
  /\ pc' = [pc EXCEPT ![w] = "told"]
  /\ UNCHANGED <<world, rows, batch, found, asked, kept>>

SleepAgain(s) ==
  /\ pc[s] = "save"
  /\ batch[s] = <<>>
  /\ pc' = [pc EXCEPT ![s] = "idle"]
  /\ UNCHANGED <<world, rows, batch, found, asked, kept, told>>

-----------------------------------------------------------------------------
(* The surroundings.                                                       *)

\* A crash and restart, a transaction that fails, or an answer that is no
\* list of values (AlternativeMeApiError): the cycle ends, wherever it is.
Fault(p) ==
  /\ pc[p] # "idle"
  /\ faults < MaxFaults
  /\ faults' = faults + 1
  /\ Forget(p)

Publish ==
  /\ Published < LastDay
  /\ dayAt' = [dayAt EXCEPT ![now] = @ + 1]
  /\ UNCHANGED <<now, rows, pc, batch, found, asked, kept, told, faults>>

Tick ==
  /\ now < Horizon
  /\ now' = now + 1
  /\ dayAt' = [dayAt EXCEPT ![now + 1] = Published]
  /\ UNCHANGED <<rows, pc, batch, found, asked, kept, told, faults>>

Refresh(p) ==
  \/ FetchHistory(p)
  \/ FetchLatest(p)
  \/ Select(p)
  \/ Write(p)
  \/ InsertConflict(p)

WriterStep(w) ==
  \/ TakeSnapshot(w)
  \/ TellCached(w)
  \/ AskProvider(w)
  \/ WriterHttpError(w)
  \/ TellRefreshed(w)
  \/ Decide(w)
  \/ Refresh(w)

SyncStep(s) ==
  \/ Wake(s)
  \/ SyncHttpError(s)
  \/ SleepAgain(s)
  \/ Refresh(s)

Next ==
  \/ \E w \in Writers : WriterStep(w)
  \/ \E s \in Syncs : SyncStep(s)
  \/ \E p \in Procs : Fault(p)
  \/ Publish
  \/ Tick

Spec == Init /\ [][Next]_vars

\* The loops go on; nothing is asked of the provider.
Fairness ==
  /\ \A w \in Writers : WF_vars(WriterStep(w))
  /\ \A s \in Syncs : WF_vars(SyncStep(s))

FairSpec == Spec /\ Fairness

-----------------------------------------------------------------------------
(* Properties.                                                             *)

\* What a cycle is told is not older than what was cached when it asked, and,
\* unless the provider failed it, not older than what the provider had
\* RefreshAfter before the cycle's snapshot, although the row that makes the
\* cache look fresh may have been written by a refresh that is not finished,
\* was cut short, or overwrote a later one (get_fear_greed_context_for_strategy).
ToldRecentDay ==
  \A w \in Writers : pc[w] = "told" =>
    /\ told[w].day >= kept[w]
    /\ (told[w].from # "fallback" /\ asked[w] >= RefreshAfter)
         => told[w].day >= dayAt[asked[w] - RefreshAfter]

\* fng-sync's calls do not fail for ever: the loop repeats them for ever.
SyncAnswered == \A s \in Syncs : SF_vars(FetchHistory(s)) /\ SF_vars(FetchLatest(s))

\* If fng-sync is answered, a day the provider publishes is cached in the end,
\* or a newer one is, whatever conflicts, failures and crashes the refreshes
\* meet (run_fng_loop).
CatchesUp == SyncAnswered => \A d \in Days : (Published >= d) ~> (Newest >= d)

\* A provider that answers no writer's call does not keep a writer from
\* deciding again and again (get_fear_greed_context_for_strategy).
CyclesGoOn == \A w \in Writers : []<>(pc[w] = "told")
=============================================================================
