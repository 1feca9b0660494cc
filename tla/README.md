# Formal model of the adaptive Bybit signal bot

This directory specifies the state-keeping core of the bot in TLA+, checks it
with TLC on small instances and proves its main invariants with TLAPS. Paths
below are relative to the repository; `P` is `src/adaptive_bybit_bot`.

    tlc -workers 2 -config LedgerSerial.cfg MCLedger     # a run
    tlapm LedgerProofs.tla                               # a proof

## 1. The system

The bot watches a spot market, decides limit orders ("order intents"), and either
leaves them to a human or simulates their fills. Its services are separate
processes (`compose.yaml`) that meet only in one Postgres database. Every call of
`BotRepository` (`P/data/repositories.py`) is one transaction (`session_scope`),
at the database's default isolation, and none locks the rows it reads: two calls of
one cycle, and even the SELECT and the UPDATE within one call, interleave with the
other processes. That is the source of nearly everything that is hard here.

| Component | State | Operations | Hard because | Correct if |
|---|---|---|---|---|
| Order ledger (`repositories.py`) | `order_intents`, `order_events`, `paper_fills`, `positions` | `expire_stale_intents`, `mark_intent_filled` (+ `_apply_fill_to_position`), `apply_signal`, the active-intent and position queries | writers, paper-runner and operator act on rows they read earlier; an update is by primary key and ignores the status | one active order per symbol, fills within the order, positions equal the fills, exposure and sells backed |
| Strategy decisions (`P/strategy/strategy.py`) | none | `evaluate` on features, position, active intents | its inputs come from three transactions | never a second active order, sizes within the limit |
| Writer loops (`P/services/market_loop.py`, `ws_shadow.py`) | the cycle's local data | lock, expire, paper fills, read, evaluate, apply; skip, fail, go on | a cycle has slow HTTP calls and may outlive its lease | only the lease owner writes |
| Strategy locks (`repositories.py`, `P/services/runtime.py`) | one `strategy_locks` row per symbol | acquire (with a retry), renew, take over, release | crash and restart, under the same id or another, race for the first row, unlocked takeover | one owner in force; a dead owner is replaced |
| Paper fills (`P/services/paper_trading.py`, `maintenance.py`) | none | list the active intents, match, `mark_intent_filled` | the same code runs in writers and in paper-runner | an order is filled once |
| Operator CLI (`P/cli.py`) | none | `mark-filled` | races the services | as the ledger |
| Market replay (`P/recording/replay.py`), backtest (`P/backtesting/engine.py`) | account, two intent slots, candles, book | per event: fills, expiry, decision; forced close | several trades per message, out of order; ids handed on by reprices | the account adds up, is never overdrawn, positions are round trips |
| Market recorder (`P/recording/recorder.py`, `jsonl.py`) | session row, file and its buffers | write, flush, progress, heartbeat, finish | kill, cancellation, failing close, files of one second | the row never promises more than the file has; a completed recording can be replayed |
| Local order book, WebSocket cache (`P/market_data`) | levels per side, ready; trades; tickers | snapshot, delta, reset, trim | no gap detection: depends on connection handling | a ready book is the exchange's |
| Sentiment cache and policy (`P/sentiment`) | `sentiment_fng`, a row per day | refresh, read, policy | values are saved one transaction each by two services; a row that makes the cache look fresh may be of a refresh cut short | a cycle is told a recent day, and the cache catches up |
| Instrument filters (`P/exchange/bybit_client.py`, `market_loop.py`, `maintenance.py`) | `instrument_specs`, a cache in each client | load, save, refresh | two caches, and who writes the newest row | a refreshed filter reaches the strategy |
| Service loops, heartbeats (`maintenance.py`, `runtime.py`, `account_sync.py`) | `service_heartbeats` | emit, sleep, refresh, sync | which exceptions end a loop | a live service looks alive |
| Historical data (`P/backtesting/historical.py`), candle building (`P/recording/replay.py`) | candles | page through klines; add a trade | gaps, short pages, a cursor that must move; trades out of order | all candles once, termination; a candle is that of its trades |
| Features, policy and prices, API, database session, configuration | - | arithmetic on floats, GET handlers, I/O | - | - |

How they interact: a writer takes the symbol's lock through `try_signal_writer_lock`,
then calls the ledger several times, first to expire the due intents of all symbols, whoever holds their locks; paper-runner and the CLI call the ledger without
the lock; fng-sync and the writers refresh the same sentiment rows, instrument-sync and the writers
the same instrument rows; ws-shadow feeds WebSocket messages to the cache and evaluates it; the
recorder writes what the replay reads; replay and backtest run the same
`StrategyEngine` on an account of their own.

## 2. Modules

| Module | Models | Role |
|---|---|---|
| `Sizing` | quantities of `_build_buy_intent`, `_build_sell_intent`, `_normalize_exit_qty` | used by `Ledger` and `Simulation` |
| `Ledger` | the ledger of one symbol and the processes on it | component |
| `PaperLedger` | a book whose operations happen at once | abstract specification of `Ledger` |
| `StrategyLock` | one lock row and the processes that acquire it | component |
| `AtomicLease` | a lease taken in one step | abstract specification of `StrategyLock` |
| `ShadowStack` | loops with lock, cycle and ledger | composes `StrategyLock` and `Ledger` |
| `Simulation` | replay and backtest | component |
| `Recorder` | recorder, session row, file, reader | component |
| `OrderBook` | `LocalOrderBook` against the exchange's topic | component |
| `Sentiment` | the cached Fear & Greed days, their refreshes, what a cycle is told | component |
| `Candles` | the download of candles and `_TradeCandleBuilder` | component, against reference definitions |
| `Instruments` | instrument filters between exchange, sync and writers | component |
| `MCLedger`, `MCLock`, `MCStack`, `MCSentiment` | names of processes for TLC | |
| `LedgerProofs`, `StrategyLockProofs`, `ShadowStackProofs`, `SimulationProofs`, `RecorderProofs`, `OrderBookProofs`, `CandlesProofs`, `SentimentProofs` | lemmas and theorems | |

A definition preceded by "Slip:" is not part of the system: it is a plausible bug in the
definition that follows it. `PROJECT.json` ("mutants") says which property notices it.

### Ledger

A symbol's tables are `intents` (a function from names in the order of `created_at`; the
name `nextId` is drawn when the decision is taken, like `created_at`), `filled` (the fill
events of each intent, added up) and `positions` (in the order of `opened_at`). A process
is a program counter `pc` with its local data `todo`, `txn`, `view`, `plan`.

| Action | Code |
|---|---|
| `BeginCycle`, `Expire` | `expire_stale_intents`: the SELECT, and the UPDATE of what it read |
| `ListActive`, `StartFill`, `EndFills` | `simulate_snapshot`'s loop over the listed intents |
| `StartFill`/`MarkFilled`, `ReadPosition`, `CommitFill` | `mark_intent_filled`: intent read, position read, commit |
| `ReadHeld`, `ReadActiveBuy`, `Evaluate` | `get_position_state`, `active_intent` twice, `StrategyEngine.evaluate` |
| `Apply` | `apply_signal` |
| `Abort` | any call fails or the process dies: rollback, the cycle is dropped |
| `TtlPasses` | the clock passes `expires_at` |

`CommitFill` and `Apply` write only the columns the code assigns, by primary key, whatever the
row has become. `Apply` and `Expire` are single steps as far as the tables go:
`apply_signal` reads the old row only to write it, and what an old read changes is
in `todo` and `plan`. Whether the market crosses a limit, whether a draft is an order
and whether a price has moved past the reprice threshold are choices. Prices, average
entries, `strategy_signals` and event texts are left out.

`Book` is the refinement mapping to `PaperLedger`: an order's status and side are its row's, what
remains of it is the row's quantity while the row is `ACTIVE` and nothing afterwards, and the
inventory is the sum of the open positions.

### StrategyLock and ShadowStack

`row` is the lock's row, `seen` the row a transaction has read, `obs` the `observed_at` taken
before the first attempt, `until` what the process believes it holds. `Insert`
(with `InsertConflict`: the unique constraint; the first attempt is retried, the second gives up)
and `Update` are the ways an attempt commits. `Update` writes the columns that differ from
the ones read: SQLAlchemy emits no others. An owner is an instance id (`SERVICE_INSTANCE_ID`, or host name and
pid) that runs as one process at a time. `Start` may bring a dead owner back, as a restarted container keeps host name
and pid, or bring a new one. `ShadowStack` joins
the two: `TryLock`, then `Cycle` steps of `Ledger`, then the loop again; `FailCycle` and
`Crash` drop the rest of the cycle. No step of a cycle looks at the lock, as in the code. The lock is a symbol's, but
`expire_stale_intents` is not limited to one: `Sweep` is the expiry in a cycle of another symbol, which a process may be in whenever
it has no cycle of this one, and needs no lock of this one. The rest of such a cycle does not touch the symbol; in `Ledger`, `Expire`
may therefore be the last step of a cycle.

### Simulation

One event at a time: `ReadEvent`; then `ReplayTrade` per trade of the message or `RunCandle`;
`Expire`; and `Skip` or one of the decisions; `Finish` sells what is left. `slots`
are `active_buy` and `active_sell`, `acct` the account with the ids filled so far.
Money is exact: amounts are integers in units of `1/FeeUnit`; the average entry and the
released part of the entry cost are integer quotients, where the code has floats.
`runner` says which of the two programs runs, `model` its fill model; both are fixed in `Init`.

### Recorder

A session goes `Start` (row committed), `Open` (file emptied), then `Write`, `CheckProgress`,
`NoteProgress`, `Beat` per payload, and ends by `EndStream`/`LastFlush`, `Cancel` or `Fail`,
`Close` or `CloseFails`, `Finish` or `FinishFails`; `Kill` may come anywhere. Data is counted in
pieces of a line, and a write may spill any part of the buffers to the file. Row and file of a
second session that begins in the same second and the same format share the path, as `recording_file_path` names files by
the second (`Names`). `Readable` and `Yielded` are `read_market_events`: it raises where a gzip stream was cut off and at half a line,
and has yielded the lines before.

### OrderBook

`Connect`, `Trade` and `Recount` are the exchange (external code): snapshot on
subscription, then what moves among the best `StreamDepth` levels, and messages with update id 1.
The levels that others push out of the window may be announced, all or any of them, or not. `Message` is what can
be sent, and `CaughtUp` the book after all that waits. `Handle` is
`apply_message` for the next waiting message; `Restart` is the end of a connection, which
ends `ws-shadow` too: the compose file starts it again with an empty book.

### Sentiment

`rows` is the table, a day with the time its value was fetched; `dayAt` remembers what the provider had
published by each time. A writer's cycle (`get_fear_greed_context_for_strategy`) is `TakeSnapshot`,
then `TellCached` or `AskProvider` with a refresh, then `TellRefreshed` or `WriterHttpError`, then `Decide`;
fng-sync is `Wake`, a refresh, `SleepAgain` or `SyncHttpError`. A refresh (`refresh_fear_greed_cache`) is
`FetchHistory`, `FetchLatest` and, per value, `Select` and `Write` of `save_fear_greed_value`.
`InsertConflict` is the unique constraint, `Fault` everything else that ends a cycle: a crash, a failed
transaction, an answer that is no list of values. The answers (external code) list the newest day first.

### Candles and Instruments

`EmptyPage` and `NextPage` are the rounds of `fetch_historical_klines`, for every set of candles the exchange
may have; `UpdateTrade` is `_TradeCandleBuilder.update_trade` and `Built` its `candles()`, which `BuiltExactly` compares with
the trades on the tape (`TradesOf`: an interval's, by their place in it).
In `Instruments` a set of filters is a version: `LoadCached`, `LoadFetched`, `LoadFailed` and `Save` are
a writer's cycle (`market_loop.py`), `Fetch` and `Save` are instrument-sync, `client` is the cache in
`BybitRestClient`.

## 3. Runs

Every run is exhaustive within its bounds; with two workers the passing ones take 4 s to 2 minutes. Distinct states:
`LedgerSerial` 146 000, `LedgerShared` 577 000, `LockRestarts` 25 000, `StackNoLapse` 842 000, `Simulated` 1 059 000,
`RecorderRestarts` 1 349 000, `BookMirror` 610 000, `SentimentRefresh` 191 000, `CandleSources` 35 000.

| Run | Question | Bounds, and why they are enough |
|---|---|---|
| `LedgerSerial` | Does one writer with paper trading and partial fills keep the books? | 3 intents: an order, its replacement, and an exit; quantities 3 and 7, cap 4, step 2: rounding and the cap both bite, and odd remainders arise from partial fills |
| `LedgerShared` | What survives when a writer, paper-runner and an operator share the ledger? | 2 intents; an intent filled in full opens no further fill, but fills opened before that still commit: all interleavings of three programs |
| `LedgerDoubleFill` | (violated) Is an order filled at most for its size? | the smallest stack that fills twice |
| `LockRestarts` | One writer at a time, restarted at will: is the lease safe, atomic and never stuck? | 3 owners, each of which may come back, ttl 2, clock to 6: each lease can lapse once |
| `StackNoLapse` | Do competing writers that expire each other's intents keep one active intent and sound books until a lease can lapse? | 2 owners, 3 intents: a buy, its exit, a third; the clock stops at 1 with a ttl of 2; fills in full (partial ones exceed the time, and are in the theorem) |
| `Simulated` | Do replay and backtest keep their accounts? | 5 events, 2 trades per message, 5 prices, 2 sizes, fee 20%: buy, partial data, exit and a second round trip; the fee is large so that forgetting one shows |
| `SimPastCandles` | (violated) Does a touched limit fill in a backtest of past candles? | wall clock after the last candle |
| `RecorderRestarts` | What do a session row and its file promise after failures and kills? | 2 sessions, each compressed or not, 5 events, a flush every 2, 2 seconds: shared and separate files |
| `BookMirror` | Is a ready book the exchange's? | 3 prices per side, 2 quantities, depth 2, 2 waiting messages: levels pushed out and coming back, changes that cancel |
| `SentimentRefresh` | What is a cycle told while two services refresh, fail and crash? Does the cache catch up? | a writer and fng-sync, 2 days, history of 2 days, time to 2 with a refresh period of 1: an old and a new day, a refresh cut short between them, one crash or malformed answer, any number of calls that fail |
| `CandleSources` | Does a download end with the candles of its range? Are built candles those of their trades? | all sets of candles at 5 times, all ranges, pages of 1 to 3 of which the exchange gives 2; all recordings of 3 trades over 3 intervals, prices 0 to 2 |
| `InstrumentsKept` | (violated) Do refreshed filters reach the strategy? | a writer, instrument-sync, one change |

What the passing runs show:

- `AtMostOneActive` holds with one writer however many fillers and operators interfere, because the
  only steps that activate an intent are `Apply` steps of a decision that saw no other, and
  nothing but a writer activates one in between. With two writers it rests on the lease alone.
- `FilledWithinOrder`, `LedgerBalanced`, `ExposureCapped`, `SellBacked` and `ImplementsBook` hold
  for a writer that is alone, including after failures between any two of its calls. They
  do not hold with a second filler (see 6), so `LedgerShared` does not claim them.
- `ImplementsBook` is the strongest: each committed transaction is one operation of `PaperLedger` on a
  working order, or nothing. It is a statement about a writer that runs alone. Competing writers are not one atomic book: one of them
  may, in the cycle of another symbol, expire an intent that the lock's owner has listed and goes on to fill, or write `EXPIRED` over
  `FILLED`. What the lock still gives them is `AtMostOneActive` and `LedgerSound` (the four promises above), because a sweep
  only takes intents out of the active set and touches neither fills nor positions.
- `EndedStaysEnded` holds with every process on the ledger: a row that was read as `ACTIVE` may have been filled, stopped or
  replaced by the time it is written, and none of those writes makes it work again. It is what remains of the order
  of calls when nothing serialises them.
- `DueIntentLeaves`, `DeadOwnerReplaced`: due intents leave the book and dead owners the lock row.
- `FirstLeaseExclusive`, `SkipsForeignLease`: the race for the first row has one winner, and no
  decision is applied under another owner's lease while no lease lapsed.
- `AccountBalanced`, `NeverOverdrawn`, `OpenedWithPosition`, `FilledOnce`, `OneRoundTrip`,
  `TargetExitProfits` relate cash, cost, profits, opening time and ids over whole runs.
- `CountBacked`, `BytesWithinFile`, `CompletedReplayable` relate the session row to its file after any stop. `LossBounded` is what is
  left of a recording that is killed: all but the last `FlushEvery` events are yielded before the reader raises. It does not say that
  the recording can be replayed (see 6).
- `ToldRecentDay`: no cycle decides with an older day than its cache had, nor, unless the provider failed it,
  than the provider had one refresh period before, although the newest row may come from a refresh that never
  finished. It rests on the history being saved newest first: the mutant that saves the oldest first breaks it.
- `CatchesUp`, `CyclesGoOn`: what is published is cached in the end if fng-sync's calls do not fail for ever, and
  a provider that never answers does not stop the writer.
- `DownloadExact`, `DownloadEnds`, `BuiltExactly` compare paging and building with what they should return.
- `MirrorsStream`, `NotCrossed`: once everything that waits is handled, the local book is the
  exchange's best levels, and it is uncrossed at every moment in between.

`CHECK_DEADLOCK FALSE` is given where the model stops by design: the bounded clock, the end
of a recording, the last session.

### Fairness

- `Ledger`: weak fairness of a writer's next step (its loop is `while True` and survives exceptions)
  and strong fairness of `Expire` (the first call of a cycle does not fail for ever). Nothing
  is assumed of fillers, operators, failures or clocks.
- `StrategyLock`: time passes, a live process keeps going round its loop, and its SELECT and its commit
  do not fail for ever though each may fail again and again.
- `Sentiment`: weak fairness of the next step of a writer and of fng-sync. Both loops are `while True` and log
  what their cycle raises, and compose restarts a container that ends (`restart: unless-stopped`). That fng-sync's
  calls do not fail for ever (`SyncAnswered`, strong fairness of its two fetches) is nobody's promise, so it is
  a hypothesis of `CatchesUp` and not part of the specification; `CyclesGoOn` does without it.
- `Candles`: a download that is not interrupted asks for its next page.
- `Instruments`: the loops go on, and a save does not fail for ever. The violated property fails all the same.
- The other specifications have no liveness properties and no fairness.

## 4. Proofs

All theorems hold for every value of the constants that the modules' named `ASSUME`s allow
(`SizingAssumption`, `LedgerAssumption`, `LockAssumption`, `StackAssumption`, `SimulationAssumption`,
`RecorderAssumption`, `BookAssumption`, `CandlesAssumption`, `SentimentAssumption`): any number of processes, intents, ticks, events, prices.

- `LedgerProofs!TypeCorrect`: `TypeOK` is inductive by itself; the difficult step is `CommitFill`, where
  the new position must not be negative (`FilledPositionsType`).
- `LedgerProofs!SingleWriterOneActive`: with at most one writer, `AtMostOneActive`. It is not
  inductive: when a writer applies a decision, nothing in the tables says that no other intent is
  active. `OneActiveInv` adds what a writer knows (`WriterKnows`): after its read of the active buys there is no
  other active buy than the one in its `view`, and when it is about to apply a plan that creates an intent,
  nothing is active but the intent that the plan replaces. `NothingActivated` covers all steps of fillers and
  operators at once: they can only take intents out of the active set.
- `LedgerProofs!LoneWriterFillsWithinOrder`: with one writer and no other process on the ledger, `FilledWithinOrder`, in however many
  parts an order is filled. `FillInv` says that an active row still asks for its original quantity less its fills
  (`RowFilled`) and that what the writer has listed or read is still so up to its commit (`ListedIsCurrent`).
  The latter is exactly what a second filler breaks (`LedgerDoubleFill`).
- `LedgerProofs!LoneWriterImplementsBook`: under the same hypotheses `Ledger` implements `PaperLedger` by the mapping
  `Book`. `BookInv` joins `OneActiveInv`, `FillInv` and `Sound`: at most one position is open, every active intent
  is `Backed` (a buy by the rest of the cap, a sell by what is held), and all a writer has read still
  holds (`SeesTables`), in particular the decision it is about to apply (`PlanFits`). Then `Expire`, `CommitFill` and
  `Apply` are `Stop`, `Fill` and `Place`, `Replace` or `Stop` (`StopStep`, `FillStep`, `PlaceStep`, `ReplaceStep`), and every
  other step stutters (`ReadingStep`, `ClockStep`). The inventory is a recursive sum; as at most one position is open it is that of
  at most one element (`SumOfOne`).
- `LedgerProofs!LoneWriterCapsExposure`, `LoneWriterBacksSells`, `LoneWriterBalanced`: from `SharedInv`, which is weaker than `BookInv` and
  so survives other processes' expiries: what the working writer has read of an intent is true of its quantity and its fills (`Fillable`,
  `WorkFits`) whether the intent still works or not, and every active intent is backed. `NextShared` asks for `WorksAlone` (at most
  one writer is past its expiry), not that writers take turns. `SharedBounds` gives the promises.
- In `LoneWriterBalanced` what is bought and sold are sums over any number of intents. The library folds a sum over a finite set by a
  function that it chooses; the section on sums shows that this function exists and what it gives when one element is added or
  changed. `CommitFill` changes one intent's fills and one position, by the same quantity, because the position it read is the one
  that is there.
- `LedgerProofs!EndedForGood`: `EndedStaysEnded` for any number of writers, paper-runners and operators. `NamesInv`: processes
  remember only rows that exist, and a plan's new row is no other process's and does not exist yet, so `Apply` never
  creates over a row; every other write gives a status that has ended, or leaves the row working if it was (`RowGoesOn`).
- The lemmas about several writers ask only for `WorksAlone`, which a lone writer gives trivially and the lock gives competing
  ones: `ShadowStackProofs` instantiates both components' lemmas, shows that a step of the stack is one of each or none (`StepOfLock`,
  `StepOfLedger`) and that, while no lease can lapse, who is past the expiry of a cycle owns the row (`StackInv`, `OwnersTakeTurns`); a
  `Sweep` never gets past it. So `LockKeepsOneActive`, `LockSkipsForeignLease` and `LockKeepsLedgerSound` hold for any number of
  competing writers that die and restart at any moment and expire each other's intents, as long as `MaxClock < Ttl` and nothing releases
  the lock (the writers never do); the last also needs that no paper-runner fills beside them.
  `StackFirstLease` needs no bound on the clock, and `EndedStaysEndedWithoutLock` nothing at all.
- `StrategyLockProofs!SoleWriterImplementsLease`: with `MaxLive = 1`, `StrategyLock` implements `AtomicLease`
  under the mapping that keeps `row`, `clock` and `until`. `AloneInv` says that the row a live process
  has read is the row as it is, as nobody else can write it; then `Update` and `Insert` are
  `Take` as of `observed_at` and every other step is a release, a tick or a stutter.
- `StrategyLockProofs!LeaseExclusive`, `SoleWriterOneInForce`: `OneInForce` for the abstract lease (from
  `LeaseInv`: who counts on a lease in force is the row's owner, up to the row's time), and through the refinement
  for the lock. `FirstRaceHasOneWinner`: any number of processes, from `FirstInv` (until the first lease can have lapsed, who
  holds it is in the row, and whoever read "no row" meets the unique constraint).
- `SimulationProofs`: `TypeCorrect`, `AlwaysBalanced`, `AgeKnown`, `NeverShort` all follow from `SimInv`
  (types and `Sound`: the identity of cash, profits and pending cost, an empty position costs nothing, the
  opening time is known). `BoughtSound` and `SoldSound` are its two halves;
  `FeeWithinGross` is why a sale never lowers the cash. `NoIdFilledTwice` adds `IdsDrawn`: working intents have ids that are
  drawn and unfilled, also after a reprice hands an id on. `AlwaysOneRoundTrip` and `TargetExitNeverLoses` need `TripInv`, which adds
  `RoundTrip`: a position is that of one buy, no buy works beside it, and a working sell is for all of it, at a target that was taken
  from its own average entry unless it is a risk exit. The properties are about fills; the invariant carries what
  sized an order from the decision, through reprices, to its fill (`FirstBuy`, and the exit at a target that `Covers` both fees).
- `RecorderProofs`: `TypeCorrect`, `CountAlwaysBacked`, `BytesAlwaysThere`, `CompletedIsReplayable`, `LossAlwaysBounded` from
  `RecorderInv`: rows are backed by files that are still theirs (`RowsBacked`, `OwnersKnown`), and the running session's
  counters agree with its buffer and file at each point of the loop (`SessionRuns`). `LinesAtLeast` turns pieces into lines that the
  file has and the reader yields.
- `OrderBookProofs`: `TypeCorrect`, `MirrorExact`, `NeverCrossed` and `ShallowBookTrue` from `BookInv`, which says more than the properties: after
  every single message that waits, the book would be a `Sound` picture of a market the exchange had (`Mirror`: a sequence of books and a
  sequence of markets, `Follows`). Handling a message drops the first of both, sending one adds to the end. A book is `Sound`
  when it shows nothing but what is in the window and knows all but at most `StreamDepth - Depth` of its levels; a delta
  and the trimming after it keep it so, whether or not levels pushed out are announced (the section on messages). As the market is
  not crossed, no part of it is. Why a level that comes
  back is not lost is an argument about ranks (`Ahead`) and cardinalities. `MirrorExact` needs `Depth = StreamDepth`, `NeverCrossed`
  and `ShallowBookTrue` need `Depth <= StreamDepth`.
- `CandlesProofs!BuilderExact`: `BuiltExactly` for recordings of any length. It is inductive once an empty builder has no
  completed candles (`BuildInv`); a trade is ignored, extends the current candle or opens the next (`TradeIgnored`, `TradeExtends`,
  `TradeOpens`), and each of the three keeps one candle per interval (`OnePerInterval`), their order (`Ascending`) and
  each candle that of its trades (`EachExact`).
- `CandlesProofs!DownloadGoesBack`: each page that does not end a download moves its cursor back by a candle or more, within the range. That is
  the rank by which `DownloadEnds` holds; only its last step, from the rank to the end of the download, is left to TLC.
- `CandlesProofs!DownloadComplete`: `DownloadExact` for every set of candles, range and page length; `DownloadInv` says that
  what was got is the part of the range behind the cursor.
- `SentimentProofs!AlwaysToldRecentDay`: any number of writers and syncs. `SentimentInv`: days only grow; whenever
  a row was fetched at `t`, the newest cached day is at least the newest that had been published before `t`
  (`RowsTrusted`); and what each process still has to save is in that order (`ProcSound`).

Recursion and sums: an operator declared RECURSIVE is beyond the prover, so recursion is by functions and folds. Where a fact about one
holds for all sizes (sums over intents, volumes of a tape, the messages a book has still to handle) it is shown by the least
counterexample (`WFMin`), including that the recursive function exists.

Only model-checked: liveness under fairness (`DueIntentLeaves`, `DeadOwnerReplaced`, `CatchesUp`, `CyclesGoOn`, `DownloadEnds`), which is
beyond the prover. Every invariant and every action property of every passing run is a theorem. The violated
properties are claims of the documents, not theorems. A theorem with hypotheses states them, and each has
a run that meets them: `LedgerSerial` (a lone writer), `LedgerShared` (one writer among others), `LockRestarts` (one live owner at a
time), `StackNoLapse` (no lapse, no release, no paper-runner), `BookMirror` (a book as deep as its topic).

## 5. Not modelled

- Real-valued arithmetic: features, indicators, regime, prices, average entries, the multipliers of the sentiment policy. TLC and
  the provers' integers cannot express it; its results enter the models as choices.
- The trade-crossing rule of the paper simulator and the cache's trades: which listed intent is crossed, and by how much, is a
  choice of `Ledger`, which covers every rule; only a property about the rule itself would need it.
- Account sync and heartbeats: rows that no decision reads. The status pages show them.
- Pure I/O (HTTP, WebSocket framing, database session and start-up), read-only handlers (API, dashboard), reports and
  statistics, configuration (the settings that matter are CONSTANTS).

Bounds are in the `Max...`, `Last...` and `Horizon` constants of each module; `MaxFilled`
bounds how often an already filled intent is filled again, `MaxPending` how far ws-shadow lags, `MaxFaults` the
crashes a sentiment refresh meets.

## 6. Where the code disagrees with what is said of it

Three have a run that ends in a counterexample, a fourth contradicts a docstring; `PROJECT.json` ("findings") quotes both sides.

- `LedgerDoubleFill`: `mark_intent_filled` does not look at the intent's status. With
  `PAPER_TRADING_ENABLED` both the writer's cycle and paper-runner fill what they listed.
- `SimPastCandles`: a backtest intent is stamped with the wall clock, so candles of the past never reach it.
- `InstrumentsKept`: a writer's client never drops the filters it fetched first, and every cycle stores them over the row that
  instrument-sync refreshed.
- `jsonl.py:15-16` says that "JSONL keeps the recording replayable even if the process is stopped mid-session". It is not. Of a session
  that is killed or stopped by a signal, the default gzip file lacks its trailer and a plain one may end within a line; `read_market_events`
  raises there (`EOFError`, `JSONDecodeError`) and `MarketReplayRunner.run_file` passes that on, so the replay has no result. The docstring is
  `StoppedReplayable` in `Recorder`; in `RecorderRestarts` it is false after `Start`, `Open`, `Write`, in either format, so no configuration lists
  it. Only a completed recording is claimed to be replayable; of a killed one, `LossBounded`.

The rest are limits of what the models claim, seen while writing them:

- The lease is checked once per cycle. Once one can lapse, two processes may both be within a cycle and create two active
  intents; hence `MaxClock < Ttl` in `StackNoLapse` and in the theorems about the stack.
- `FilledWithinOrder`, `LedgerBalanced`, `ExposureCapped`, `SellBacked` and the refinement are false as soon as a second process fills.
- `expire_stale_intents` (`P/data/repositories.py:918`) has no symbol filter, while locks are per symbol. Competing writers are
  therefore no atomic book even before a lease lapses: an intent may be filled after it was expired, and a `FILLED` row may end as `EXPIRED`.
- `run-once` (`P/cli.py:169`) runs a cycle without the lock. Nothing is claimed for it beside running services; the theorems on a lone
  writer are about the only process that runs cycles, of any symbol, on the database.
- The replay keeps 50 levels whatever was recorded (`P/recording/replay.py:176`), and loses levels of a deeper topic that come
  back; `MirrorsStream` is for a book as deep as its topic. `ShallowBookTrue` says what is left: the replay's book shows no
  false level, and lacks at most as many as the topic is deeper. A book deeper than its topic promises neither: levels pushed out
  without notice stay in it.
- `DownloadExact` leaves out the candle at the very start of the range (`while cursor_end > start_utc`,
  `P/backtesting/historical.py:42`) and page limits above what the exchange returns, where a clamped page looks like the last
  one; the CLI cannot ask for that.
- Of what a sentiment refresh may raise, a writer catches HTTP errors alone: a conflicting insert or a malformed answer ends its
  cycle (`InsertConflict`, `Fault`), and the loop goes on with the next.

## 7. Plan

Done, in this order: `Sizing`, `Ledger` with `PaperLedger`, `StrategyLock` with `AtomicLease`, `ShadowStack`,
`Simulation`, `Recorder`, `OrderBook`; then `Sentiment`, `Candles`, `Instruments`; then the proofs of section 4, of which the
refinements (lease, book) and the stack were the goal.

Left, models: the paper crossing rule over the cache's trades, with a fill ratio below one; account sync with its batch of
executions; heartbeats, if something but a page comes to read them. A changed design would be modelled first: a status check in
`mark_intent_filled`, a lease that is checked again when the cycle writes, and an expiry limited to the cycle's symbol would turn
`LedgerDoubleFill` into a passing run, lift `MaxClock < Ttl` and make competing writers one book again.

Left, proofs: the safety of each run is proved; what could be added are theorems beyond the runs. A lease that may lapse needs the changed
design above first. For `Instruments`, that a filter the exchange has withdrawn is never stored again would hold only if writers
read through their cache. For liveness, the ranks behind `DueIntentLeaves` and `DeadOwnerReplaced`, as `DownloadGoesBack` is the one behind `DownloadEnds`.
