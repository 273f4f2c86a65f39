# aibot: TLA+ specifications

aibot watches Solana DEX trades of a pool of "smart money" wallets, decides
which of them to follow, buys on paper, and exits what it bought with stop
losses, take profits and trailing stops. Several processes share a handful of
JSON documents; there is no database. The questions worth a model are what
happens between two reads and writes of those documents, and what happens when a
process stops in the middle.

All paths below are relative to the repository (`src/` is its Python package).

## 1. The system

### Processes (`ecosystem.config.js`)

| process | what it runs | documents it changes |
|---|---|---|
| `aibot-monitor` | `monitor.run_forever`, observer and archive tasks of `observation_tracker`, wallet performance loop | paper ledger, observations, shadow trades, wallet documents, global metrics |
| `aibot-risk-manager` | `risk_manager.run_risk_loop` | paper ledger, observations |
| `aibot-dashboard` | NiceGUI pages; manual close | paper ledger, observations |
| `wallet_feeder` | one refresh of the wallet pool, started by hand or by the monitor | wallet documents |
| `main.py` (not under PM2) | event queue, heartbeat and a second risk loop | paper ledger |

### Components

For each: its state, its operations, who it talks to, what is hard, and what
makes it correct.

**State store** (`src/state_store.py`). State: every JSON document, its `.lock`
sidecar, its temporary files. Operations: `exclusive_file_lock`,
`atomic_write_json`, `update_json` (with or without `expected_version`),
`migrate_json`, `claim_global_interval`, accessors. Used by everything else.
Hard: concurrent read-modify-write, death of a lock holder, failed writes, lock
timeouts, cleanup of temporary files that may still be in use. Correct when every
operation is atomic and its caller is told the truth.

**Paper ledger and risk exits** (`src/risk_manager.py`). State:
`data/paper_trades.json` (cash, open positions, event log, sequence number), and
in each process the positions it read and the exit it is working on. Operations:
buy, rejection, RPC skip, exit claim and release, sale, mark, quote failure, risk
loop, manual close. Calls the quote API between ledger operations and marks
observations afterwards. Hard: decisions on stale reads, two processes exiting one
position, claims that outlive their owner, rounding of partial sales, trimming of
the log. Correct when money and tokens are conserved, stops sell losers and only
losers, and no position is stuck.

**Signal pipeline** (`src/monitor.py`, `_process_paper_signal_control`). State: per
signal, where it is; ledger and observation rows. Discovery, cooldown, analysis,
filters, quotes, decision, buy, marks. Hard: two signals in flight, failure at
every step, redelivery of a signature. Correct when the ledger and the observation
of a signal agree in the end and no signal is bought twice.

**Signal delivery** (`src/monitor.py`, `src/collectors/helius_ws.py`). State: the
wallets subscribed to and the file time noted with them, the mode of the connection
(Helius or standard), the signature window, the buys that accumulate per wallet and
token, the tasks that process signals, whether the service is stopping. Operations:
load the list, subscribe, reconnect, watch the list, refresh, handle a notification,
stop. Creates deliveries of the signal pipeline. Hard: one trade told by several
subscriptions and again after a reconnect; a list written between the read of its
contents and of its time; a stop while notifications still come in. Correct when a
clean stop loses no signal, the subscriptions come to follow the list, and a fallback
ends.

**Momentum route** (`src/monitor.py`, route B). State: the poll under way, cooldowns of
entries and captures, the gap between captures, capture tasks. Asks the screener,
confirms unknown whales by RPC under a time limit, asks again, signals. Hard: what was
seen before the awaits is used after them; cooldowns are dated back. Correct when a
mint is not signalled again inside its cooldown and no poll hangs.

**Observation tracker** (`src/observation_tracker.py`) with **research archive**
(`src/research_archive.py`) and **shadow trade ledger**
(`src/shadow_trade_ledger.py`). State: observation rows with four status fields
and samples, immutable archive records, shadow trades, batches pending in memory.
Hard: tasks interleaving at every await, an archive pass over rows that change, a
capacity limit that trims, side effects after a commit. Correct when a finished
row is archived as it finished before it is trimmed, and exactly once.

**Wallet pool** (`src/wallet_performance.py`, `src/wallet_feeder.py`, the loops for
them in `src/monitor.py`). State: `wallet_performance.json` (status, samples, wins and
losses), `wallets.json`, `wallet_candidates.json`, the interval of the feeder.
Operations: observe a buy, reject an unsafe one, evaluate, cool down, replace, recover,
trigger and run the feeder. Hard: a wallet cooled down in one document and replaced in
another; a feeder that replaces the list without the lock after minutes of RPC; an
interval claimed before a start that fails; a redelivered buy is known by the last 100
samples only. Correct when no recent buy is judged again, a cooldown ends, and a short list gets a feeder.

**RPC provider** (`src/solana_rpc.py`). State, shared by all processes: per provider a
circuit, its cooldown and lease, for heavy methods one for each, and the pace. Operations:
reserve a slot, send, record a success or failure, go to the next provider, raise. Hard:
answers of requests sent before the circuit changed, probes of several processes, a
budget that earlier providers use up. Correct when a recovering provider gets one probe
at a time and a call that raises has tried every provider.

**Live execution** (`src/executor.py`, live branch of `run_risk_loop`). State: the shared
Jupiter slot and reset; the ledger's positions, the wallet on the chain, bundles under
way. Hard: a bundle whose fate is unknown when the loop gives up, exits of two processes
from one wallet, resets published while others sleep. Correct when nothing is booked as
sold that is still owned, slots are spaced, and every quote ends.

**Analyzer** (`src/analyzer.py`). State: the cache, the tasks in flight, who waits for
them. Hard: callers cancelled while they share a task, a cache at its limit, fields that
are absent. Correct when a token is analysed by one task at a time and entered only on
what is known of it.

**Entry telemetry** (`src/research/entry_telemetry*.py`,
`scripts/entry_telemetry_cutover.py`, `scripts/local_paper_runner.py`). State: captures,
three bounded queues, files of identities and rows, the acknowledgement of a stop;
epochs, the active one, the snapshot, the sessions of the processes. Hard: two files per
record and a death between them; commands interrupted after any write, and services that
trade meanwhile. Correct when whoever reads an epoch can join it, an acknowledged stop
has lost nothing unaccounted for, and an epoch begins where the ledger is.

**N3 shadow strategy** (`src/research/n3_shadow.py`). State: immutable files of entries,
sells, completions, the closure and the report; the observer's saved cursor. Hard: the
observer dies between any two writes and replays; snapshots come late or never. Correct
when a replay never contradicts what is on disk and the report is of the whole cohort.

**Research coverage** (`src/research/coverage_telemetry.py`). State: counts in memory, a
document of buckets, a document of hours. Hard: a heartbeat cancelled at a reconnect
leaves its flush running while the next one starts; flushes that fail put their counts
back; buckets and dimensions have limits. Correct when nothing is counted twice or lost,
and a finished window stays as it was reviewed.

**Operations scripts** (`.github/workflows/deploy.yml`, `scripts/storage_retention.py`,
`scripts/deploy_contract.py`). State: backups, their markers, the installed and the
deployed revision. Hard: deployments that fail at any step, also while backups are
removed. Correct when the deployed revision can always be restored.

**Hypothesis registry** (`future_validation.py`): published by compare-and-swap.
**Offline reports** (`src/research/`): batch statistics over archived rows.
**Dashboard**, **health and diagnostics**: rendering and measurement.

`PROJECT.json` lists every component with its sources and status, and every hazard
at its line with the properties that cover it.

## 2. Modules

| module | models |
|---|---|
| `PaperLedger` | `risk_manager.py`: the ledger, risk loops, dashboards, the monitor's buys and rejections |
| `MCPaperLedger` | instances for TLC |
| `PaperLedgerProofs` | type correctness; the order of the log; no stranded exit; stop losses at a loss; with one risk loop, one take profit and the trailing peak of what it left; the books and every round trip add up |
| `SumTheorems` | lemmas: sums over finite sets, as `Functions` defines them |
| `AtomicDocument` | what the state store promises, without locks, copies or files |
| `StateStore` | `state_store.py` and `_publish_evaluation` step by step; refines `AtomicDocument` |
| `MCStateStore` | instances for TLC, and two risk loops of `PaperLedger` under fairness |
| `StateStoreProofs` | refinement and the store's invariants, the published report among them |
| `ObservationLedger` | `observation_tracker.py` with the archive and the shadow ledger: every operation on the rows, the observer, the archive task and their faults, with no order among callers |
| `SignalPipeline` | extends it with the deliveries of signals through `_process_paper_signal_control`, the sale, crashes, the next-state relation and the properties |
| `MCSignalPipeline` | instances for TLC |
| `SignalProofs` | type correctness; nothing is forgotten before it is archived; the limit of active rows; shadow trades; the observer's memory fits a batch |
| `SignalDelivery` | `monitor.py`: wallet list, connection, accumulation filter, signal tasks, clean stop |
| `MomentumRoute` | `monitor.py`: route B, from the screener to the signal or the capture |
| `WalletPool` | `wallet_performance.py`, `wallet_feeder.py` and the monitor's loops for them |
| `JupiterQuotes` | `executor.py`: the rate slot, resets and retries of `jupiter_quote` |
| `MCMonitor` | the four above in one run, with their fairness |
| `RpcRouter` | `solana_rpc.py`: order, circuits, leases, retries, schema 4 |
| `LiveExecution` | the live branch of `run_risk_loop` and `execute_sell`, with the chain |
| `TokenAnalysis` | `analyzer.py`: single flight, cache, verdict and route |
| `TelemetryRecorder` | `entry_telemetry.py` and `entry_telemetry_join.py`: queues, worker, files, join, stop |
| `TelemetryCutover` | `entry_telemetry_epoch.py` and the two scripts: epochs, snapshots, sessions |
| `N3Observer` | `n3_shadow.py`: the observer's pass, write by write |
| `CoverageTelemetry` | `coverage_telemetry.py`: counts, overlapping flushes, buckets, hours, review |
| `StorageRetention` | `deploy.yml`, `storage_retention.py`, `deploy_contract.py`: backups and markers |
| `MCServices` | the eight above in one run, and `WalletPool` with more buys of a wallet than samples are kept |
| `MCAnalysis` | `TokenAnalysis` of a token with a market that cannot be read |
| `ServiceProofs` | `TokenAnalysis`, `LiveExecution` and `RpcRouter`: types and safety |
| `MonitorProofs` | `JupiterQuotes`, `SignalDelivery`, `WalletPool` and `MomentumRoute`: safety |
| `SidecarProofs` | `TelemetryCutover`, `StorageRetention` and `TelemetryRecorder`: safety |
| `ResearchProofs` | `N3Observer`: replay, completeness and the report; `CoverageTelemetry`: no count is lost or doubled |

`PaperLedger` and `ObservationLedger` take from `StateStore` exactly what
`AtomicDocument` promises: a ledger operation is one action, and one that times out
on its lock did nothing.

The modules of `MCMonitor`, and those of `MCServices`, share no variable. A behaviour of
these runs is a behaviour of one of the modules, named by `part`, while the variables of
the others stay as they are initially: the run explores the sum of the parts, not their
product, and each property speaks of one part. What connects them in the system is left
open on both sides: `SignalDelivery` creates signals whose fate is a choice, and
`SignalPipeline` takes any deliveries; a quote of `LiveExecution` may have any result.
In `MCStateStore` the behaviours without callers are those of the ledger, in the same way.

Some modules state more than a run lists, for readers and as steps of proofs: their
`...TypeOK`, `SessionsAreCurrent` (which is proved) and `CancelIsPrivate`.

A definition named `X_Y` is `X` with the bug `Y` in it. No specification uses it;
each property is shown to fail when some `X` is replaced by its `X_Y`
(`PROJECT.json`, "mutants").
`ServicesGoOn` has six conjuncts and one mutant there, `RefreshIsDue_Never`, which breaks
that subscriptions come to follow the list; the other conjuncts fail in the same run with
`NextTry_Same`, `FailedRoute_Postpones`, `MayCool_Again`, `IntervalOver_Never` and
`MayTimeOut_Never` respectively.

### PaperLedger

| state | code |
|---|---|
| `cash`, `positions`, `events`, `nextSeq` | the document: `cash_lamports`, `positions`, `events`, `next_event_seq` |
| `todo[p]` | the positions a risk loop read at the start of its round and has not evaluated yet |
| `pc[p]`, `job[p]` | where a process is in `evaluate_paper_position`, `_execute_paper_exit` or `close_paper_position`, and its local variables |
| `faults`, `realized` | the model's own count of faults; the sum of all realized PnL ever logged |

Every `update_json` call is one action (`Buy`, `LogSkip`, `Claim`, `Sell`,
`Release`, the marks inside `QuoteOk` and `RecordFailure`). Between them a process
works with `job[p].view`, the position as it last read it, however old. A quote
is a price out of `Prices`, in lamports per raw token; or it fails. `Crash` loses
`pc`, `todo` and `job`; `LockTimesOut` makes the operation at hand raise, with
the handler the code has at that place.

Abstracted: addresses and uuids (a position's id is the sequence number of its
BUY, an exit id is the process that claimed), timestamps (whether the last good
quote is ten seconds old is a choice), the wording of reasons, statistics kept on
a position that no decision reads. `NO_ROUTE` is kept as `DEGRADED`.

### StateStore

Every call is an element of `Ops` with a control state `pc`. `Start` … `Release`
are the steps of `update_json` in the order of the code: take the lock or time
out, read, check the version, mutate in memory, write the temporary file (after
unlinking stale ones), rename, unlock. `Abort` is an exception anywhere in
between, `Crash` the death of the process, after which the operating system drops
the lock. A publisher reads the document in `Start`, before the lock, and its
mutator writes the report (`ReportOf`). The content of a document is the set of
operations whose effect it carries and its version.

### ObservationLedger and SignalPipeline

| state | code |
|---|---|
| `rows`, `order` | the list of `signal_observations.json`: its rows by identity, and the relation "before in the list" among them |
| `archive` | the records of `research_archive/records`, by identity: the samples they hold |
| `shadow` | the identities in `shadow_trades.json` |
| `phase`, `asked`, `unsaved`, `uncounted`, `emit` | `observation_loop`: where it is, the batch being quoted, `pending_finalized`, `pending_sample_attempts`, the completed snapshots of `record_sample_batch` |
| `pass`, `marks`, `startup` | `_run_archive_maintenance_loop`: where it is, the markers to persist, `startup_pending` |
| `step[d]` | where `_process_paper_signal_control` is for delivery `d` |
| `bought`, `open`, `unclosed` | `PaperLedger` reduced to one signal: bought, held, sold with its CLOSED still to be written |
| `faults`, `seen` | the model's own account of faults |

Every `update_json` of the observation ledger is one action, with the expiry and the
retention that its mutator ends in (`Expired`, `Retain`). The archive pass reads and
writes records in one action (nobody else reads them) and marks rows in another, after
whatever happened meanwhile. What analysis, filters and quotes decide, which samples
are due and when a horizon has passed are choices. A write of the observer that times
out on its lock changes nothing and is tried again, so it is a stutter, except where
the failure changes what is in memory (`AttemptTimesOut`, `EmitTimesOut`).

The two modules are apart so that other compositions (a dashboard that marks rows, the
retention script) can use the ledger's operations with an order of their own.

### The monitor's other loops (`SignalDelivery`, `MomentumRoute`, `WalletPool`)

One event loop: what is between two awaits is one action. Times are the time left until a
moment, or the time since one, up to where no decision can tell the difference; `Tick`
actions let one unit pass.

| state | code |
|---|---|
| `list`, `conn` | the version of `wallets.json`; `run_forever`: where it is, the version it subscribed to and the file time it noted, the age of the subscriptions, `WalletWsRouteState` |
| `inbox`, `seen`, `ahead` | notifications per subscription, `SignatureWindow`, trades to come |
| `history`, `basis` | `_whale_buy_history` of the pair; what the latest approval rests on |
| `work`, `service` | `_signal_tasks`, `_shadow_signal_tasks`, those created while the stop waits; `_run_service_tasks` |
| `route`, `cooling`, `gap`, `captures`, `since` | the poll under way and how late it is; the cooldowns; the interval and tasks of captures; the model's own stop-watch per mint |
| `perf`, `listed`, `spare` | the three wallet documents |
| `monitor`, `feeder`, `sinceFed` | the evaluation round and its owed replacements; the feeder process with what it read; `last_wallet_feeder_run_time` |

`WalletPool` has the feeder's lock-free overwrite and the two documents as they are: a
wallet that cools down may stay in the list, or come back to it, until the next
replacement or feeder. README.md:62 of the repository says that it is replaced at once;
no property claims it.

`complete_observation` keeps the last 100 samples of a wallet (`SampleLimit`, `Kept`), its
wins and losses count all. `observe_buy` knows a buy by the pending observations and these
samples, so a buy that is delivered again after 100 later evaluations of its wallet is
judged again; `RecentBuysJudgedOnce` says that it takes that many.

### The shared services (`RpcRouter`, `JupiterQuotes`, `LiveExecution`, `TokenAnalysis`)

| state | code |
|---|---|
| `wide`, `scoped`, `pace`, `held` | the provider's document: its circuit, the circuits of heavy methods, the next slot, its lock |
| `call[c]` | the local variables of `solana_rpc_call`: place in the order, attempts, the lease it was given |
| `blamed`, `lost`, `hush` | the model's own account of failures that concern a whole provider, of calls that vanish, of promised silence |
| `slots`, `limiter`, `quote[c]` | `jupiter_rate_limit.json`, its lock, a `jupiter_quote` |
| `book`, `wallet`, `bundles`, `plan`, `exit` | the positions, the chain's balance, every bundle and its fate, what a loop has read, where it is |
| `cached`, `flight`, `task`, `asker` | `_analysis_cache`, `_analysis_flights`, tasks, callers |

`Reserve` reads and decides under the lock of a provider's document, `Send` writes it; an
answer is recorded by a later action, whatever became of the circuit meanwhile. A provider
is to blame (`blamed`) once a failure is counted as its own: one of a light method, or an
HTTP error or timeout of any. `UnblamedIsAvailable` is about the others.

A quote takes the slot's lock and sleeps (`TakeSlot`), stamps its slot and lets go
(`GrantSlot`), and sends the request once the event loop is back from the thread
(`SendRequest`). What is kept apart is the slots; a reset that is published after the
grant does not hold the request back.

`LockedPercent` takes the smallest of the shares that can be read, as the code does;
`EntersOnEvidence` says that of these, `EveryMarketLocked` that of all markets.

The chain lands or
drops a bundle at any time, also after `execute_sell` has given it up.

### The sidecars (`TelemetryRecorder`, `TelemetryCutover`, `N3Observer`, `CoverageTelemetry`, `StorageRetention`)

| state | code |
|---|---|
| `capture`, `queues`, `worker`, `index`, `rows`, `counted`, `ending` | captures of the trading thread; the bounded queues; the worker between its two files; those files; `_health`'s drops; the stop |
| `procs`, `acked`, `snapshot`, `epochs`, `active`, `command`, `checkout` | the process registry, stop acknowledgements, `cutover_snapshot.json`, markers, `active.json`, the operator's command, the code |
| `log`, `captured`, `aged`, `entered`, `sold`, `completed`, `closure`, `saved`, `report`, `observer` | the ledger's events, snapshots, and one variable per kind of file; the pass under way |
| `pending`, `flush[f]`, `raw`, `hourly` | `_pending_buckets`, a flush with the view it holds, the two documents |
| `backups`, `marker`, `source`, `deployed`, `deploy` | directories, `latest-<sha>.txt`, what is installed, `.deployed-sha`, the workflow under way |

The marker of a backup is emptied by the shell before it is written (`TruncateMarker`,
`WriteMarker`), also that of the deployed revision, if it is deployed again. A deployment
that dies in between leaves a backup that no marker finds, and retention refuses to plan;
`DeployedCanBeRestored` excepts the marker in that case, not the backup.

Each write is a step, and the process may die, or the command be interrupted, after it.
A file with other contents than a replay would write is `blocked` in `N3Observer`: the
code raises, and every later pass would.

## 3. Runs

| run | instance | shows |
|---|---|---|
| `ledger_desk` | a risk loop and a dashboard, two signals (routes A and B) on one token, a log of two events | `TypeOK`, tokens and cost of every round trip (`RoundTripAccounted`), one take profit (`TakeProfitOnce`), the log forgets oldest first |
| `ledger_loops` | two risk loops, one position, two faults | the books (`LedgerReconciles`), `StopLossSoldAtLoss`, `PendingExitHasHolder` |
| `ledger_claims` | a loop and a dashboard | finding 1: `OneExitPerPosition` is violated |
| `ledger_peak` | two risk loops, one position | finding 2: `PeakOfRemainder` is violated |
| `store` | two claims and two migrations, or one of each against a merge, or three publishers, or two and a merge; or two risk loops on one position; each under its fairness | refinement of `AtomicDocument` (`ImplementsAtomic`), truthful outcomes, one claim granted, temporary files, a report never older than the registry, the winner's report stands, every call ends; every claimed exit ends (`ExitResolves`) and a position beyond its stop is sold (`StopEventuallySells`) |
| `signals` | two signals, limits of one row and one active row, one crash of the monitor | `ActiveBounded`, `ShadowComplete` |
| `signals_again` | one signal delivered twice, no room for ended rows, one fault of any kind, under fairness | `TypeOK`, `PendingFitsBatch`, `ForgottenRowsArchived`, `PendingEnds`, `CapRestored` |
| `signals_archive` | one signal delivered twice, no faults | finding 3: `ArchivedAsEnded` is violated |
| `signals_closed` | one signal delivered twice, no faults | finding 4: `SoldIsClosed` is violated |
| `services` | eight modules of shared services and sidecars, and the wallet pool with three buys, one module per behaviour | one probe of a recovering provider at a time (`ProbesApart`), no provider left out (`EveryProviderReached`), none refused for what heavy methods met there (`UnblamedIsAvailable`), no owned token written off (`WalletIsBooked`), `OneAnalysisPerToken`, `EntersOnEvidence`, joinable files and honest acknowledgements (`EvidenceIsWhole`), replay and report of the experiment (`ObserverIsFaithful`), `DeployedCanBeRestored`, `CountsAddUp`, `EpochStartsAtLedger`, `ReviewStands`, and `RecentBuysJudgedOnce`, before and after samples are dropped |
| `monitor` | quotes, delivery, wallet pool and momentum route, one per behaviour, under fairness | `StopLosesNoSignal`, `SlotsAreSpaced`, `MintsAreSpaced`, and that all four go on (`ServicesGoOn`: every quote ends, the subscriptions come to follow the list, a fallback ends, a cooldown ends, a shortage is answered, the route polls on) |
| `analysis_pools` | one caller, a token with a locked market and one that cannot be read | finding 5: `EveryMarketLocked` is violated |

### Findings

1. `claim_position_exit` says it claims "the one allowed exit action for a
   position across all processes". `record_quote_failure` writes `DEGRADED` over
   `EXIT_PENDING` without looking, so an evaluation that began before the claim and
   whose quote fails after it reopens the position: two exits of it are then in
   flight. `record_paper_sell` still checks `exit_id`, so nothing is sold twice
   (`RoundTripAccounted`, `LedgerReconciles` hold); the earlier exit is lost.
2. `docs/PAPER_MVP.md` sells what a take profit left at half of its peak after that.
   `record_position_mark` does not compare the amount that was quoted with the amount
   there is. Of two risk loops (`main.py` starts a second one) one may quote the whole
   position, the other take profit, and the mark of the whole becomes the peak of the
   rest, which is sold at the next look. With one loop it cannot happen
   (`PeaksAreOfRemainder` is proved for that).
3. The README says that completed and expired rows are preserved in the archive
   before the operational trim. A signature that is delivered again restarts an
   observation that ended without an executable quote, and `existing.update(payload)`
   keeps its archive marker. The restarted observation is taken for archived when it
   completes, and its samples never reach the archive. (Its identity does have a
   record: `ForgottenRowsArchived` holds and is proved.)
4. `docs/research-engine-v1.md` says that the paper status becomes `CLOSED` when the
   whole position is sold. The status is written by three callers in any order: a fast
   sale writes `CLOSED` before the buyer writes `OPENED`, and a second delivery that
   fails writes `NOT_ELIGIBLE` over either.
5. `locked_percentage` says that without an aggregate "every discovered market must
   satisfy the threshold". Markets without a readable share are left out, so that one
   locked market and one unknown are as good as one locked market.

Two more statements are not what the code does, without a run of their own:

* `test_cost_basis_accounting_invariant` reconciles cash, open cost and the realized PnL
  of the SELL events in the document. The log is trimmed to 2,000 events of any kind
  whenever a rejection is logged, so after enough signals the document no longer holds
  what the reconciliation needs. `LedgerReconciles` sums over all SELLs ever.
* `_defer_jupiter_until_sync` publishes a cooldown "so every local PM2 process observes
  it". A process whose slot was granted just before sends its request all the same: the
  request is sent (`SendRequest`) after the lock is let go of, without another look.
  `SlotsAreSpaced` is about slots, not about requests.

### Bounds, and why they are enough

* One token. Operations on different tokens meet only in `cash` and in the cap of
  open positions; two signals on one token is where they collide. `MaxOpen` is 1 so
  that the cap binds.
* Ten tokens for 21 lamports: prices 1, 3 and 4 cross every threshold (stop,
  flat, take profit); 80% of ten leaves two and then one, and 21 does not divide.
  One token for two lamports: 80% of it is nothing.
* `MaxSeq` bounds buys and rejections, not sales or rounds: risk loops run for
  ever. `MaxEvents` 2 makes every third event trim.
* Two processes of each kind that can meet, and `MaxFaults` 2, so that a fault may
  hit each of them.
* In the store every call is made once, by the callers of one of four groups
  (`Groups`). A conflict needs two calls, a publisher that loses to one and
  whose report a third replaces needs three. `CHECK_DEADLOCK FALSE`: the set of
  calls is finite and really ends. The risk loops of the same run are without faults, with
  six events and two prices, 0 and 1 a token: below the stop of ten tokens for 21 lamports
  and of one for two. `ledger_desk` and `ledger_loops` check deadlock: risk loops poll for ever.
* Signals: two rows over limits of one make every decision about age (expiry,
  retention, oldest first in the archive pass) bind; one row over a limit of zero
  makes every archived row go at once, so that a second delivery meets a row that is
  gone. Two deliveries of one signal may overlap or follow one another; the semaphore
  admits two. One horizon and a batch of one: horizons of a row interact only in its
  completion, batches only in their size, which `MemoryFitsBatch` proves for all.
  Two attempts (`signals_again`): one that fails and is followed by another.
  One fault, of each kind. `CHECK_DEADLOCK FALSE`: deliveries are finite, and with
  no row pending both background tasks rest.
* RPC: two calls, one heavy, that try two providers in opposite orders, a threshold of
  one failure and a lease of two ticks, as long as the cooldown, so that circuits open, probes go out
  and old answers come back while they do; a budget of three for two providers is where
  the local retries of one compete with the other. `MaxLost` 1.
* Live: two loops on one position of five tokens (half of five is rounded), three bundles,
  so that one may be given up, a second sent, and the first land.
* Analysis: two callers, two tokens, a cache of one entry, four findings: locked as a
  whole, one of two pools unlocked, one of two pools unknown, nothing known.
* Telemetry: one signal and queues of one, as streams of different signals share only the
  queue's place, and one crash. Cutover: two code versions, two epochs, three events,
  three processes (`MaxBorn`): one of an old epoch, one that is asked to stop, one new.
* N3: two entries that age out in turn, four events of which the ledger keeps three, caps
  on both trades and days.
* Backups: three revisions, four backups, one kept, so that the deployed revision is not
  among the latest.
* Coverage: two flushes, symmetric, two retained buckets of two hours, one key for each
  dimension, so that all limits bind; two counts and one fault.
* Monitor: one trade below the target that two of its programs tell, which together reach
  it; a list of two wallets, one place of it for an elite; one buy, lost or won and evaluated once
  (`MaxVerdicts`), two rejections; two mints, one capture at a time; two quotes and resets shorter and longer than what is waited for.
* Wallets in `services`: two samples and three buys, so that one is forgotten while the others
  are kept, and five evaluations of a wallet (`MaxVerdicts`), so that it can be judged again and
  another be forgotten; the list is never short there, and the feeder always starts.
* `services` and `monitor` have `CHECK_DEADLOCK FALSE`: counters end, a stopped service
  stays stopped. Symmetry is used for the loops of `ledger_loops` and the flushes of
  `services` only (no liveness there).

### Fairness

`PaperLedger`: `WF(ProcStep(p))`, a process is scheduled and each of its waits ends
(client sessions have timeouts); `SF` on `QuoteOk(p)`, a quote asked for again
and again is answered again and again. Nothing is assumed of the monitor, of
users or of faults (`MaxFaults` is 0 in `MCStateStore`: a claim has no expiry, so a crash can
strand a position for ever, which is the code's behaviour and listed as a hazard).
`StoreSpec` has it for the behaviours of `MCStateStore` in which the two risk loops run.

`StateStore`: `WF(Step(op))` of every call, because each wait in
`exclusive_file_lock` is a poll with a deadline and nothing else waits. Who gets
the lock is free, and so are crashes. `StoreSpec` has it for the calls of the group.

`SignalPipeline`: `WF` of the observer, which ticks every 15 seconds and which
`observation_supervisor` starts again after any exception; `WF` of the rest of an
archive pass, which is in a loop that survives exceptions; `SF` of an archive pass that
writes every record it read, since a failing write is tried again in the next pass.
That a record is written some day is an assumption on the disk, not on the code.
Nothing is assumed of deliveries, quotes or sales.

`MonitorSpec`, for the part a behaviour is of. Quotes: time passes, and each quote goes
on; its waits are bounded by the lock's timeout and the client's. Delivery: time passes,
`run_forever` goes on after every failure, the watcher and the refresh timer fire.
Nothing is assumed of notifications, and the list may be written at any time up to its
bound. Wallets: time passes and the evaluation goes on; `SF` of the recovery and of the
feeder's trigger, which the monitor repeats in a loop that other work may get ahead of
each time. A start that fails is bounded (`MaxStartFaults`). Momentum: time passes, the
time limit of a confirmation fires, and requests are answered, or fail.

## 4. Proofs

`tlapm` checks these for every value of the constants that satisfies the named
assumptions, one or two per module (`ConstantAssumption`, `KindAssumption`,
`ObservationAssumption`, `AnalysisAssumption`, `LiveAssumption`, `RpcAssumption`,
`DocumentAssumption`, `OrderAssumption`, `QuoteAssumption`, `DeliveryAssumption`,
`WalletAssumption`, `MomentumAssumption`, `CutoverAssumption`, `RetentionAssumption`,
`RecorderAssumption`, `ItemAssumption`, `N3Assumption`, `CoverageAssumption`): any number of tokens, signals,
processes, lots, prices, calls, providers, wallets, backups, epochs. They ask for numbers
that are natural and limits that are positive, for marker values that differ from the
values they stand beside, and for four things more:

* `Cooldown >= LeaseTime` (`RpcAssumption`): `solana_rpc.py` takes the lease no longer
  than the cooldown;
* `OrderAssumption`: what `ordered_providers` selects of an order is a sequence of
  providers. That follows from the definition of `SelectSeq`, but its recursion is closed
  to the provers;
* `CoverageAssumption`: the funnel stages (`FUNNEL_STAGES`) and the flushes that may be
  running at once are finitely many;
* `DocumentAssumption`: a document of schema 4 has an availability, a method and a
  category of failure, which the migration reads.

| theorem | property | argument |
|---|---|---|
| `TypeCorrect` | `TypeOK` | inductive as it stands; the work is in `Sell`: `cost * sold \div amount` never reaches `cost` while tokens remain, so a position never has tokens and no cost |
| `PendingExitsHeld` | `PendingExitHasHolder` | inductive with `TypeOK`: an exit id on a position is a process at work on that very position, and only its owner, or a later claim, removes it |
| `StopLossesAtLoss` | `StopLossSoldAtLoss` | `StopLossInv`: identities are never reused; a remembered view with the id and amount of the live position also has its cost and signal (cost only changes with the amount); an exit of a stop at its sale has a detection quote for the whole amount and beyond the stop |
| `OldestIsForgotten` | `LogForgetsOldest` | `LogInv`: sequence numbers in the log go up and stay below `next_event_seq`, so what `LastOf` keeps, the end of the log (`LastOfIsEnd`), is the young one |
| `OneTakeProfit`, `PeaksAreOfRemainder` | `TakeProfitOnce`, and `PeakOfRemainder`, which fails for two loops (finding 2) | for `RiskLoops = {r}`, any dashboards, crashes and timeouts. `OneLoopInv`: what the loop has read of a position has the tokens and the `tp_done` of that position for as long as it is there (`LoopKnows`), because dashboards only sell out and only the loop sells a part; an exit that still holds its claim sells its reason's part of the tokens there are (`ExitFits`); a position of whose take profit the log tells says so itself (`ProfitIsNoted`), and identities are not used twice (`IdsDiffer`) |
| `BooksReconcile` | `LedgerReconciles` | `BooksInv`: the open positions are finite and the books reconcile. A buy puts into the sum what it takes from cash (`BuyPutsIn`), a sale takes out of it what its profit is counted against (`SaleTakesOut`): the rounded share, or all that is left when the position is sold out; nothing else moves cash, cost or profit (`OnlySalesMove`) |
| `RoundTripsAddUp` | `RoundTripAccounted` | `TripInv`, with `LogInv`: a sale is younger than the buy it sells of, so a log that forgets its oldest events and still has the buy has all of its sales; an identity names one position, so a sale is entered in one account only |
| `StoreImplementsAtomic` | `ImplementsAtomic` | refinement mapping `Outcome`: an operation takes effect at `Replace`; every other step maps to a told outcome or a stutter |
| `CallersAreToldTheTruth` | `OutcomeIsTruthful` | `StoreInv`: one lock holder (`Exclusive`), its copy extends the file as it is (`CopyCurrent`), a snapshot of the same version is the same document (`SnapshotNamed`), what was replaced stays in effect (`InEffect`) |
| `ClaimsAreExclusive` | `ClaimGrantedOnce` | `StoreInv` and: at most one claim is in effect |
| `FilesAreCleanedUp` | `OnlyTheDeadLeaveFiles` | `StoreInv`: cleaning happens under the lock, so no other call can be writing |
| `LosersNeverPublish` | `ReportIsNewest` | `ReportInv`: the report's version is at least the document's version for published effects, and one ahead only while its writer holds the lock |
| `WinnersReportStands` | `PublishedReportStands` | `WinnerInv`, on top of `StoreInv`: from its mutator to its rename a publisher's report is the one on disk; once it has told its caller so, the report is its own or of a later version than its document |
| `SignalTypes` | `TypeOK` | needs all of the invariants below: that what an answer marks is a row, that batches are finite and that `order` is a strict total order of exactly the rows |
| `ForgottenArchived` | `ForgottenRowsArchived` | `RecordsFirst`: a marker, in the ledger or about to be written, is never ahead of its record. Retention keeps every ended row without a marker (`KeptRows`), so what a step drops has a record; the work is that every operation ends in the retention of well-formed rows whose markers it did not invent |
| `MemoryFitsBatch` | `PendingFitsBatch` | `Fits`, with `RecordsFirst` for the finiteness of what is due: an answer moves between the three sets and never adds to them (`Moved`), and a scan waits until two of them are empty |
| `ActiveRowsAreBounded` | `ActiveBounded` | `BoundInv`: rows are ordered (`Ordered`), a row whose trade is open or closed is a bought one (`TradesBought`), and the limit. What is kept when the oldest expire are rows with fewer than `MaxActive` younger ones, and the number of younger ones is different for each (`YoungestAreFew`); an operation that does not expire adds no row to the active ones |
| `ShadowsAreComplete` | `ShadowComplete` | `ShadowInv`: no step makes a row eligible but the batch that completes it, which puts it among those the observer is about to write (`TradesKept`); what is about to be written outlives every other step, and a death of the monitor owes the backfill |
| `AnalysesAreShared` | `OneAnalysisPerToken` | `FlightsInv`: a running task of a token is the one in the table (`InTable`), so a second one is never started beside it; what is fresh in the cache is finite and within its limit (`CacheInLimit`), as the oldest goes when one is added |
| `EntriesRestOnEvidence` | `EntersOnEvidence` | inductive with types: a finding that was given is one of `Findings`, and route and verdict are functions of it. The shares it is about are the readable ones (finding 5) |
| `SoldHasLanded` | `WalletIsBooked` | `SalesInv`: from the claim to its end the position is the claimant's and stays as it was claimed (`Owns`); a bundle takes its share of a wallet that held no more than that (`TakesPart`), and only one that has landed is booked (`OwnBundle`). A bundle that lands after it was given up only makes the wallet smaller |
| `BudgetReachesAll` | `EveryProviderReached` | `ReachInv`: the attempts that are left are at least the providers that are, because a local retry is only made with one to spare for each |
| `OneProbeAtATime` | `ProbesApart` | `ProbesInv`: as long as a probe's lease runs, the circuit of its provider is blocked for at least that long, unless an answer has closed it; one that was closed and opened again rests for a cooldown, which is no shorter than the lease |
| `UnblamedStaysAvailable` | `UnblamedIsAvailable` | `UnblamedInv`: a probe of the whole provider only goes to one that is to blame, so a rate limit or RPC error of a heavy method never reaches the circuit of one that is not, neither by an answer nor by the migration. Nothing is said of a provider that is to blame, by a timeout of a heavy method for example |
| `SlotsStaySpaced` | `SlotsAreSpaced` | `QuoteInv`: what is promised is covered by the document (`DocumentCovers`) or by the sleep of whoever was told it (`SleeperHolds`), so its slot is granted when nothing is promised any more (`GrantedWhenQuiet`). Not about the request that follows (see after the findings) |
| `CleanStopLosesNone` | `StopLosesNoSignal` | `StopInv`: the loops end before their tasks are awaited (`LoopsFirst`), nothing is created after that (`NoneLate`), and what was created is waited for or done (`NoneForgotten`) |
| `ShadowTasksAreFew` | | the same invariant: never more than `MaxShadows` shadow tasks |
| `RecentBuysAreJudgedOnce` | `RecentBuysJudgedOnce` | `VerdictInv`: every row is one of `JudgedRows`: as many samples as verdicts up to the limit, of different buys, none of them pending. An evaluation adds one of a buy that was pending, and what is kept is the end of that (`KeptIsTheEnd`, `KeptAreDifferent`), whatever cooldowns, replacements and feeders do to the wallet in between |
| `MintsStaySpaced` | `MintsAreSpaced` | `MomentumInv`: a cooldown and the stop-watch of its mint add up to the interval at least (`TimesAddUp`), less the time of one poll, by which cooldowns are dated back; what the poll under way may still signal is rested (`PollKnowsTheRested`), because nobody else signals |
| `EpochsStartAtLedger` | `EpochStartsAtLedger` | `CutoverInv`: when the command comes to the activation, nobody is up and the ledger is where the command has read it (`StillStopped`); a process that is down has no session (`DownIsUnbound`) |
| `SessionsStayCurrent` | `SessionsAreCurrent` | `CutoverInv` |
| `DeployedStaysRestorable` | `DeployedCanBeRestored` | `RetentionInv`: markers name backups of their revision (`MarkersFit`); the deployment under way has a backup of its own revision, valid before its marker is written (`OwnBackupFits`, `ManifestIsWritten`), and is what is installed from then on (`OwnIsInstalled`); retention spares what the deployment's marker names (`OwnIsKept`), and what it is removing is no longer valid (`RemovedIsInvalid`). An empty marker names nothing, and the plan is empty as long as there is one |
| `EvidenceStaysWhole` | `EvidenceIsWhole` | `RecorderInv`: a record has the same contents in the queue, in the worker's hand, in its identity and in its row, which is written last (`RecordsInv`); while the process lives a finished decision is in one of them or counted as dropped (`NoneIsLost`); at an acknowledged end nothing is under way (`QuietEnd`) |
| `ObserverStaysFaithful` | `ObserverIsFaithful` | `ObserverInv`: nothing is left to do for the events before any cursor (`CursorsAreHandled`), entries are written in their turn (`EnteredInTurn`), no event but the last has reached a cap while the cohort is open (`OpenBelowCap`), and what was saved is what a recount gives (`SavedIsCounted`), so a replay never finds another file than it would write. The lemma `PrefixStays` is what it needs: once the first n events are handled, nothing that is counted of them (trades of a day, budget, open legs) changes, whatever is written for later ones |
| `NoCountIsLost` | `CountsAddUp` | `CountsInv`: all documents are buckets of times up to now (`HoldingsOK`), a flush holds counts only between taking and saving them (`FlushOK`), and at every retained time what is held is what was recorded (`Balanced`). A merge of two buckets stands for what both stand for, overflow included (`MergeAdds`); a merge of two documents forgets no retained time (`MergedAdds`, `NewestKeep`). So each step of a flush moves counts (`MoveStep`), a record adds the same to both sides (`CountStep`), a death moves what the process held to what died (`RestartStep`), and nothing is held of a time that has not come (`TimeStep`) |

Sums are the recursion of the community module `Functions`. The induction theorems of the
library take an operator and cannot be used; `SumTheorems` proves the same by a smallest
counterexample (`WFMin`): of the subsets on which two sums differ, one has none below it
(`SmallestSet`). So a sum does not depend on the order in which elements are chosen, and
changes by the term that changes (`TotalWithOneMore`, `TotalWithOther`, `TotalWithOneLess`),
and the sum of a merge is the sum of what is merged (`TotalOfPlus`, `TotalOfMerge`).

`LiveTypesHold`, `RpcTypesHoldAlways` and `MomentumTypesHold` state the types of their
modules. All inductive invariants were checked by TLC, on the instances of section 3 or
on smaller ones, before they were proved. Two proofs changed the model. The order of
the observation rows was a sequence; as a relation it can be reasoned about without
induction, and the list is the same. `ActiveBounded` said that a row leaves the active
ones for good when its trade is closed. With three deliveries of one signal and one of
another it does not: a delivery whose buy is refused writes `SKIPPED` over the status of
a trade that another delivery opened, the row is active again, and nothing expires until
the next decision. The bound now excepts these rows (`CameBack`), and is proved with
them excepted.


Only model-checked:

* `ReviewStands` is about hours, which are folds of buckets, and about which of them are made
  of more buckets than are left;
* `TakeProfitOnce` and `PeakOfRemainder` are proved for one risk loop, which is how PM2
  runs it (`aibot-risk-manager`). With two, which `main.py` beside it would make, the
  second is violated (`ledger_peak`) and nothing is claimed of the first. All other theorems on the ledger hold for any number of loops;
* liveness (`ExitResolves`, `StopEventuallySells`, `EveryCallEnds`, `PendingEnds`,
  `CapRestored`, `ServicesGoOn`), which is out of the prover's reach.

## 5. Not modelled, and what is left to prove

Left out for good:

* dashboard, health and diagnostics: rendering, cookies, measurement and logging, whose
  failures are swallowed where they are called. The manual close is in `PaperLedger`;
* offline research reports, the evaluation of the N3 experiment, scores and strengths:
  floating-point statistics without state. Where a decision rests on one it is a choice,
  or a small number;
* parsing of transactions and the polling collectors of other exchanges, HTTP, signing;
* `execute_buy`, `ensure_break_even_floor`, `pipeline.consume_events`: nobody calls the
  first two in a loop, the third does nothing; schema migrations, but for the one of the
  RPC document, whose result a circuit rests on;
* the gates and acceptance checks of the scripts, which read and print;
* the loss of a rename when the machine rather than the process dies
  (`atomic_write_json` syncs the file, not the directory).

Hazards the code has and no property excludes (notes in `PROJECT.json`): a live sale that
lands after it was given up leaves the ledger with more than the wallet; two probes of one
heavy method after a light request's success; one trade told by two programs accumulates
twice; a stale coverage flush replaces a finished hour until the next refresh; an N3
observer behind the events that the ledger keeps stops for good; a removal of a backup
that is interrupted, or a marker that was emptied and not written, stops all later
retention; a buy that is delivered again after 100 others is judged again; cooldowns of route B
are forgotten at a restart.

Left to prove: `CancelIsPrivate`, and the part of `ReviewStands` that says a
ready window stays ready.
