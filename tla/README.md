# FiniexTestingIDE: formal models

TLA+ modules, TLC configurations and TLAPS proofs kept beside FiniexTestingIDE:
from the tick to the decision, from the decision to the order and the money
behind it, in the backtest and in the live session, and the offline work that
feeds both. Paths are relative to `src/python/framework/` unless they start with
`src/`. `PROJECT.json` maps every definition to the lines it models.

## 1. The system

A *decision logic* is run once per tick on bars, indicator results and signals,
and calls `DecisionTradingApi`, which forwards to one of two executors behind
`AbstractTradeExecutor`: `TradeSimulator` plays the broker on recorded ticks,
`LiveTradeExecutor` talks to a broker adapter through `LiveRequestProcessor` and
its worker thread. A backtest is a scenario of a batch, run in a process of a
pool on data mounted by the main process; a live session is started by
`AutotraderMain` around a tick source's thread.

| Component | State | Operations | Interacts with | What makes it correct |
|---|---|---|---|---|
| Trade simulator (`trading_env/simulation/`) | latency queue, resting orders, scheduled changes, history, counters | open, close, cancel, modify; tick, heartbeat; end | portfolio, listeners | one outcome per order, settled book, lots conserved |
| Portfolio (`trading_env/portfolio_manager.py`) | positions with cached marks, balances, history | open, close, mark, swap, reset | both executors | the ledger is the trades; no money made or lost |
| Order guard (`trading_env/order_guard.py`) | rejection counters, cooldown, stale flag | validate, record | outcome callbacks | blocks what the history justifies, and ends |
| Live executor (`trading_env/live/`) | pending and resting orders, outbox, inbox | calls; drain, poll, time out; shutdown | worker thread, broker | one outcome, nothing forgotten, true prices |
| Reconciler, drift auditor (`trading_env/live/`) | last result, open audits | compare, audit | executor, broker | finds what was lost and nothing else; ends |
| Broker adapters and configuration (`trading_env/adapters/`, `broker_config.py`) | nonce, last request, simulated orders; symbols, fees, permissions | three tiers per call; judge, ship, charge | exchange | nonces rise, limit kept, harmless dry run |
| AutoTrader session (`autotrader/`) | stale and safety flags, episodes | boot, passes, stop, shutdown | feed thread, state file | durable state, true gates, it ends |
| Tick sources (`autotrader/tick_sources/`) | connection, delay | connect, receive, watch, back off | tick queue | a dead link is left |
| State store (`persistence/`) | snapshot file | save, load | disk | old or new snapshot, never a torn one |
| Event dispatcher (`decision_logic/`) | buffer | submit, drain | executor, hooks | once, in order, at a boundary |
| Bars, workers, signal feed (`bars/`, `workers/`, `signal_data/`) | bars, cached results, inbox | render, compute, poll | tick loop, poll thread | the decision reads what is current |
| Decision logics (`decision_logic/core/`) | what each remembers of its orders | compute, send, hooks | executor | no double exposure, true certificate |
| Batch and sweeps (`batch/`, `process/`) | validity, mounts, results | validate, load, mount, run, collect | process pool | own data, own slot, it ends |
| Archives (`src/python/data_management/`, `signal_data/`) | files, indexes | import, render, index | disk | archive = what was collected |
| Discoveries, windows (`discoveries/`, `src/python/scenario/`) | cache files; cuts | report; split | bar files | a served report is current; windows avoid gaps |
| Scenario setup (`src/python/configuration/`, `validators/`) | merged scenarios | cascade, validate, sweep | batch | the process runs what the file says |
| Reporting, command line, API, MQL5 collectors | - | - | - | not modelled (section 7) |

Hard behaviours: an order's fate is decided long after the call that sent it,
while further calls, ticks, heartbeats and the end interleave; live answers come
late, about references that were replaced, or not at all; timeouts race answers;
files are written in place and processes are killed between two steps; caches,
marks and gates are stale when used. The hazards in `PROJECT.json` give each its
line and the properties that cover it.

## 2. Modules and the code

| Module | Models | Used by |
|---|---|---|
| `OrderLifecycle` | abstract: what any executor promises about an order | implemented by the two executors |
| `OrderPricing`, `TradeSimulator` | price conditions; `TradeSimulator`, `OrderLatencySimulator`, the shared part of `AbstractTradeExecutor`, the loop's order of events | `MCTradeSimulator` |
| `PortfolioManager` | the portfolio, funds checks and closes | `MCPortfolio` |
| `OrderGuard`, `BrokerAdapter`, `BrokerRules`, `MockBroker`, `SessionBoot` | the guard; Kraken adapter and dry run; configurations, permissions, fees; the mock; the start of a session with its cached configuration | `MCBroker` |
| `LiveAudits`, `LiveTradeExecutor` | reconciler and drift auditor; main thread, worker thread, broker | the live runs |
| `TickSource`, `AlgoStateStore`, `AutoTraderSession` | feed thread; state file; the session around both | `MCSession` |
| `BarRenderer`, `SignalFeed`, `WorkerOrchestrator`, `DecisionEvents`, `StaleStress` | bars; live signals; the algorithm pass; the event channel; outages | `MCPipeline` |
| `TradingDesk`, `Strategies`, `TrendChannel`, `BacktestLogics`, `FieldStudy` | the executor as a logic sees it, and the logics on it | `MCLogics` |
| `DataArchive`, `SignalArchive`, `DataPreparation`, `BatchExecution`, `DiscoveryCache`, `ScenarioWindows`, `ScenarioSetup` | tick and signal archives; what is loaded; batches and sweeps; caches; calendar and windows; from the set file to the process | `MCData` |
| `*_proofs`, `LiveTradeExecutor_mirror` | theorems (section 4) | |

Definitions whose comment starts with "Mutant" are variants with a plausible bug,
used by no specification; they show that each property notices.

**TradeSimulator.** `on_tick` resolves scheduled changes, drains the latency
queue, matches limits, matches stops, checks SL/TP; a heartbeat does the first
two. `phase` is the program counter, each phase an action over all orders it
concerns; the algorithm calls in phase `idle`. `results` is what the history says
of an opening. Stress rejections and refused fills are choices. Prices are small
integers, lots volume steps.

**PortfolioManager.** One account, margin or spot. A position keeps fee, gross and
net P&L per lot (exact: all are linear in the lots). `dirty` makes valuation lazy,
so what a close sees depends on the calls before it on the same tick.

**LiveTradeExecutor.** The main thread runs `StartCycle`, drains answers one by
one, polls market orders on a tick, handles timeouts, and queues queries of limit
orders. The worker takes one job at a time; the broker fills and drops at any
moment. A reference is a place in the broker's book; an edit gives a new one if
`TRUE \in Replaces`. `LostAnswers` names the calls that may fail although the
broker acted. A market order may time out before its submission is answered; it is
then reported rejected in every cycle until the answer comes, which may be that it
filled. The portfolio may refuse a stop the broker has taken, as it validates it
against its own price (`portfolio_manager.py:726`, `:749`) and the handler does not look
(`live_trade_executor.py:616`). Which answers were lost, which reports came early and which stops
were refused is kept in the history variables `lost`, `premature` and `refused`, for
the properties alone. Every order fills in full.

**Logics.** `TradingDesk` is the executor as a logic sees it. A modification, a cancel or
a close that was accepted may still be refused - by the portfolio, whose answer the
simulator ignores (`trade_simulator.py:1186`), or by the broker - and the logic is told of
none of the three. `refused` notes which kinds of request of an order were.

**Bars.** A session starts at `SessionStart`, which need not be the start of a period.
`WarmupBars` has the two kinds: the live fetch drops the unfinished bar, a simulation takes
every bar that starts before its start, also the one it starts in.

**AutoTraderSession.** `pc` is the main thread: boot, restore, passes, shutdown
steps. Ticks, heartbeats, signals of the operator, failing saves, kills and the
next boot interleave with the feed thread; `delay` is the reconnect delay, doubled
up to its cap.

**Offline.** Every import is read, write, rename, index, with a failure or a kill
between any two; `imp.brokers` are the broker types a run has processed, whose bars and index it
refreshes. Bars last `BarLength` instants and are known by their start. A batch goes through config, availability, requirements, load,
quality and mount; a sweep builds a mount from a base set and reuses it where the
data identity agrees. A cache file records the version of the bars it is about
and the time stamped on it.

## 3. Runs

| Run | Bounds | Shows |
|---|---|---|
| `book` | 2 orders, prices 1..4, bids 1..3, delays 1 and 2, 3 ms | Types, one outcome, settled book, agreeing counters, clean end, `OrderLifecycle`; every order is decided. |
| `positions` | 2 orders, volumes 2..4, closes of 0, 1, 3, 5, all | Lots conserved, no dust. |
| `accounts` | 2 positions, bids 2 and 4, history of 3, 1 night | Ledger, fees, balances; equity kept by closes, opens funded. |
| `broker` | 3 orders in flight, threshold 2; 4 dry and 3 live calls; 3 days, 2 sessions, 13 profiles; 28 configurations; 2 mock orders | Guard, adapter, boot, rules and mock, one part at a time; blocks and calls end. |
| `live_orders` | 2 orders, 3 calls, edits that replace, lost answers to submit and edit, refused stops | One outcome, books mirror the broker's, `OrderLifecycle`. |
| `live_fair` | 1 order, 3 calls, lost answers to every call | True local price; requests resolved; lost orders reported. |
| `session` | 2 mock ticks, queue of 1, save every 2 ticks or 1 time unit, 1 failed save | Durable state, true gates; a stop ends the process, silence is noticed. |
| `pipeline` | 2 timeframes, start at 1, history of 2, 2 envelopes, 4 events, clock of 7 | Bars, signals and outages as the decision reads them; events once. |
| `logics` | 2 orders at the desk, refused requests, 4 RSI values, 3 bands, 2 mids | Exposure, certificate, ratcheting stops; the study ends. |
| `data` | 2 brokers, 3 import runs, 1 failure; 2 workers, bars of 2 instants; 2 versions, 2 requests; 2 signal runs | Both archives, batches, caches, windows and coverage, setups; all jobs end. |
| `poll_errors`, `halted_boot` | as above | The two findings (violations). |

Bounds. Containers are keyed by id and a step concerns one id, or all of them
independently, so two orders let one disturb another. Delays around the heartbeat
interval let an order arrive before, on and after a tick; three submissions or
edits allow submit, edit, close; a threshold below the orders in flight allows a
rejection inside a block; a history shorter than the trades forgets some; one
failing save against a two-tick interval shows the lag grow and shrink; three
import runs with one failure allow a repeat of a half-done import and one after; with two
brokers the repeat may be about the other one. Bars of two instants and starts at every
instant give aligned and unaligned windows, and so does a start at 1 among timeframes of
different length.

Fairness. Weak fairness of what is sequential code of a running thread: the
simulator's phases, the live cycle and the start of the next (the loop's
`queue.get` has a timeout and a heartbeat follows), the worker and adapter threads
(HTTP calls have timeouts), the session's main and feed threads, the batch's
coordinator, its processes, windows and setup. Weak fairness of clocks and of an
order's timeout. Strong fairness of the scenario's end (its tick list is finite),
of polling a limit order and of the reconciler, whose intervals elapse again and
again. None of the algorithm, the broker, the network, the exchange or the
operator. Deadlock checking is off in `broker`, `data`, `halted_boot`, `logics`,
`pipeline` and `session`, whose systems end.

## 4. Proofs

Each theorem holds for every value of the constants that satisfies the named
assumptions of its module (sizes are naturals, sets of prices and delays are
sets of naturals, `Replaces` is a set of Booleans, and the like); the bounds of
the runs are constants there.

| Module | Theorems |
|---|---|
| `TradeSimulator_proofs` | `TypeCorrect`, `EveryOrderOneOutcome`, `NoLotLost`, `ScenarioEndsClean`, `NoDustEver`, `BookAlwaysSettled`, `StatisticsAgree`, `SimulatorImplementsLifecycle` |
| `LiveTradeExecutor_proofs` | `LiveOneOutcome`, `LiveImplementsLifecycle`, `LivePriceTrue` |
| `LiveTradeExecutor_mirror` | `LiveMirrorsBroker` |
| `Broker_proofs` | `GuardTypeCorrect`, `BlocksAreJustified`, `GuardIsExact`, `AdapterKeepsFaith`, `SessionsStartSound` |
| `AutoTraderSession_proofs` | `SessionStateDurable`, `SessionGatesTrue` |
| `Pipeline_proofs` | `ChannelDelivers`, `BarsAlwaysTrue`, `SignalsAlwaysTrue`, `StalenessAlwaysTold` |
| `Logics_proofs` | `LogicsKnowTheirExposure`, `LogicsOnlyLowerRisk`, `RearmNeverDoubles` |
| `Data_proofs` | `CachesServeCurrent`, `EveryScenarioOneResult`, `ArchivesAlwaysSound` |

**Simulator.** `OneOutcome` is not inductive: it does not say that the next id is
unused, nor that a fill finds an order without lots. `OrderInv` adds `Fresh` (an
id not drawn yet is nowhere) and `LotsFollowOutcome` (an undecided order has no
lots, a position belongs to an executed order) to one outcome, lots and clean end.
`NoDust` needs `DustInv`: what is queued for a close leaves nothing or at least
the minimum. `BookSettled` speaks of the moment after a tick; `SettleInv` says
phase by phase what is already settled. `CountersAgree` rests on `Tally`, which
counts the outcomes not yet reported as well. The refinement is shown step by
step: every action maps to one lifecycle step per order or to a stutter.

**Live.** The invariant is `Shapes`, `OrderInv` (one outcome; an order without
reference is `Unsent` or has exactly one answer to its submission on the way;
`Held` in one place) and, while the session runs, `AnswersDue` and `Visits`. That a submission is answered at
most once is a fact about three sequences - outbox, worker, inbox - carried through
every append and tail. Timeouts before the answer are included: `EndsOnce` says that an
order leaves the store with its one end, and `EarlyReportsLate` that a report ahead of
the end is a rejection of a market order that is late in the latency store. `LivePriceTrue` adds `PriceInv`: of every limit
order at most one request - submission, edit or cancel - or its answer is on the wire
(`RequestedOnce`), it says what its order waits for (`JobTrue`, `AnswerTrue`), and
an order whose modification is not on its way and of which no answer to an edit was lost
refers to a broker order of its own price (`RefTrue`).

**Mirror.** `LiveMirrorsBroker` excepts order by order what a lost answer makes
unknowable: `Heard` are the orders all of whose own answers arrived. `BrokerMirrored` says
nothing about orders on the wire; `MirroredInv` does. Besides the parts above it has
`StopInv` and `CloseInv` (at most one modification of a position and one close of an
order are on the wire, and the stop is the broker's unless one is, its answer was lost or
the portfolio refused the level), `MirrorInv` (the
answers in the inbox, applied in their order, lead from what is known here to what the
broker has made of the order), `NothingForgotten`, and of the types `LoopShapes`,
`CountInv` (an order at the broker took a call) and `RefsKnown` (no reference is made up).
A market order that timed out is excluded from the outcomes, as the code does report it
rejected and the broker may fill it.

**Guard.** `WithinHistory` (the counter never exceeds the streak, a cooldown never
outlasts the newest rejection) and, while no rejection was missed, the same as
equalities (`FollowsHistory`).

**Adapter.** `AdapterInv` is `CallsInv` (what each thread holds between two steps),
`TimeInv` (lock, clocks and last request), `WireInv` (of the requests on the wire each
later one has a higher nonce and its distance in time), `BookInv` (the exchange has
only orders that were placed), `ToldInv` (what was told of an order is what the
exchange or the dry run's simulator had made of it) and `OrdersReadBack`. That pairs
are told apart is the named assumption `AdapterConstants`: were two symbols to share a
pair, an order would be read back as another's.

**Events.** `EventInv`: events are `Numbered` in the order of submission, `Placed`
(delivered, in the batch being drained, or in the buffer), and a request for the end is `Honoured`
at the next boundary.

**Bars and signals.** `PipelineInv`: `BarInv` and `PassInv` say of each timeframe which
periods were closed and what the cache and the bar-close workers are of - in order and each
once, but for the period an unaligned session starts in, which a simulation has twice
(`InTurn`; that no period with a tick is left out is not stated); `FeedInv` that
what is fetched, in the inbox and journalled is in the publisher's order with nothing
left out (`FeedOrder`, `NothingLost`) and that the health probe has seen one journal
unless it notes a change (`ProbeInv`);
`SignalInv` what a worker serves at the moment of the pass and when it tells an outage.

**Outages.** `StaleInv` follows the driver through the plan, whose windows may overlap
or touch: which windows were entered (`DriverInv`), that ticks are flagged exactly
inside them (`StaleInWindows`), that a run of stale ticks is one episode (`RunInv`,
`EpisodeInv`), and that each was probed once (`ProbedInv`). That the windows of a plan
are not empty and sorted by their start is the named assumption `WindowsSorted`: the
code refuses the empty and sorts.

**Session.** `SessionInv`: types; `NeverTorn` (only damage from outside makes the
file unreadable, whatever step a kill hits); `Lag` (state in memory, last
snapshot, saves failed since); `Gates` (the three staleness flags and the safety
block, place by place).

**Caches.** `CacheInv`: a readable file is about the version whose time it carries
unless its save was overtaken (`FilesTrue`); a request has seen every version
current since it began, and what it analysed or found valid is one of them
(`RequestTrue`).

**Logics.** `LogicsInv` relates what a logic remembers to what the executor has, unless
the very request was refused; such a refusal is an exception for its own order only.
`StrategyInv`: there is one order, resting entry or position at most - stop-limits that
have triggered apart - of the kinds its logic sends (`Alone`, `OwnKinds`), and a break-even
remembered is that of the position that is open or was last (`EvenOnly`, `EvenKept`).
`TrendInv`: the stop has moved only in the trade's direction, also counting the answers
on their way (`Ratchets`), and every working entry is remembered or being cancelled
(`Tracked`). `ProbeInv`: a scripted trade's close is asked for once and remembered.
`StudyInv`: an abort has asked for the end. `RearmNeverDoubles` rests on `EntryInv`: an
order belongs to a phase that has acted, one of a limit_open phase is never in transit,
and if it filled while its phase is on it is the open position nobody closes (`Sound`);
of such a phase's orders that rest or have filled there is one at most (`Single`).

**Batch.** `SlotsInv`: nothing is handed to the pool while the batch is prepared, and the
scenarios the loop has passed are settled: done, under way or refused, each in its slot.
The hypothesis of the theorem is that a sweep's variants of a list are lists.

**Archives.** `ArchiveInv`: `KeptAt` (what is on the disk is of good exports; what is torn
or was deleted waits in the inbox; index and bars name nothing else), `FilesAt` (what a
run has passed without an error is in the archive), `IndexAt` and `BarsAt` (after the step
that makes them, index and bars are of all of it; a run that finishes makes the bars of the
brokers it saw, and those of another keep lacking what a killed run left). Of the validation it is proved what its
passing means: in every stretch of an accepted file that has one anchor the least lag is
within its bounds, and files of which the check of order finds nothing follow one another
in time, within its tolerance. `SigInv` says the same of
the signals: every file can be made again from a journal file that is kept, and a run
with override that has noted no error has repaired what it has passed
(`SigGoing`). That a run is served right rests on the journal being cut by periods
(`BucketsApart`): the file before the window, if it is loaded, holds the newest of all
earlier envelopes, and what the trim leaves has the newest at each moment. Where an
induction over a file's ticks would come in, the proofs take a least tick instead
(`LeastNumber`, from the well-foundedness of the naturals).

**Boot.** `BootInv` says what each stage has settled: a fetched configuration
before the adapter, the symbol from the adapter on, funds from the executor on, a
flat account from the preflight on. `ProfileAssumption` says that a profile's `dry_run` is
unset, yes or no and that the broker's entry has one.

Only model-checked, and why:

- liveness (`EveryOrderDecided`, `BoundaryLive`, `RequestsResolved`, `Reconciled`,
  `SessionLive`, `StudyTerminates`, `JobsEnd`): the prover has neither fairness nor
  ENABLED;
- `BooksBalance` and `StepsFunded`: sums over positions and trades are folds, and
  what a fold computes needs induction over data; so do the sums of fees in
  `RulesKept`, the gaps counted by the signal report and the cuts of the generator in
  `CoverageSound`, and the cascades and sorts behind `SetupSound`;
- `BatchSound`, except that every scenario gets one result (`ResultsComplete`, proved):
  which ticks and bars a scenario runs on is computed by filters and sorts of
  sequences;
- of `StudySound` the certificate: it holds for plans like those shipped, not for
  every sequence of phases. That no phase enters twice is proved.

## 5. Findings

1. `poll_errors` (`trading_env/live/live_request_processor.py:875`): a transport error
   of a status query becomes a REJECTED answer, and a working limit order is
   removed and reported rejected.
2. `halted_boot` (`autotrader/autotrader_main.py:521`): a boot refused because the state
   file is stale or corrupt overwrites that file in its own shutdown.

## 6. Observations without a run

Met while modelling; the models follow the code. No run asks about them, because
no document contradicts the code, the reading is arguable, or the data involved is
left out.

*Simulator.* `heartbeat` never resolves a scheduled change (`trade_simulator.py:332`);
two ticks of one millisecond fill an order in the tick it was sent in (`:140`);
`total_filled` also counts orders that went to the book or were refused (`:319`); a
stress rejection is not announced (`:362`); a margin SL/TP close stores the level as
exit price and realizes the cached P&L of the tick (`portfolio_manager.py:419`, `:930`);
`AbstractTradeExecutor.reset` leaves the latency queue; a spot SHORT whose fee exceeds
its proceeds would make the quote balance negative; `order_guard.py:106` calls the
simulator's status always fresh although stress windows make it stale; an open
outage at the end of a run keeps no end.

*Live.* The answer to the cancel of a timed-out order is not looked at
(`live_trade_executor.py:325`); a market order timing out before its submission is answered
is rejected on every cycle (`:340`), and opens its position when it was filled after all; a
stop the broker took may be refused by the portfolio, whose answer `:616` drops, and
then differs until the next modification; a second `close_position` sends a second order;
the local funds check may refuse what the broker filled; shutdown closes positions in
the portfolio only; `check_timeouts` covers market orders only (`:790`); `None` as a
level means "no change" where the docstring says "remove"; stop orders can be
modified and cancelled but the list stays empty (`:1296`, `:1447`); the reconciler
compares `limit_price`, which live orders do not store, and so never sees a price
diverge (`:941`); `reconcile` is called without a handler in the tick loop.

*Session.* An interrupt before the loop runs is overwritten (`autotrader_main.py:371`,
`:716`); an exhausted mock may end the loop with ticks in the queue
(`autotrader_tick_loop.py:257`); a heartbeat before the first tick runs with the
safety block never evaluated; events submitted during the final drain are not
delivered; the state file is renamed without an fsync; the display reads `dry_run`
from the market configuration, the adapter from the profile (`autotrader_main.py:804`);
the cache's age is that of the whole file; a failed write in place leaves nothing to
fall back on (`kraken_config_fetcher.py:610`); a pipeline that fails late leaves its
request worker running.

*Pipeline.* The end requested in a simulation is looked at only in the event drain
(`process_tick_loop.py:315`); ghost decisions read signal results of the last tick;
live staleness counts from the receipt; a tick behind the clock after a heartbeat may
be served an older envelope; duplicates within one batch of envelopes are kept; envelopes
without a number all count as one (`signal_poll_source.py:231`). A scenario that starts
within a period has that period in its warm-up (`data_preparation/shared_data_preparator.py:815`
takes bars by their start) and renders it again from its own ticks
(`process/process_startup_preparation.py:161`, `bars/bar_renderer.py:156`): the period is twice in the history,
and the first of the two shows the scenario what its own window will bring, up to the end of that one
period. The shipped `src/configs/scenario_sets/ETHUSD_blocks_robustness_20260624_2028.json` starts
at 14:20 with M30 bars. `BarsTrue` and `BatchSound` except that period and no other.

*Logics.* No logic is told that its accepted modification, cancel or close was refused
afterwards: `CautiousMacd` does not retry a refused break-even (`cautious_macd.py:698`),
`TrendChannel` forgets an entry whose cancel is refused and may then hold two
(`trend_channel_reference.py:735`), a scripted logic forgets the position whose close is
refused. `ExposureKnown` excepts exactly these. A stop-limit of `CautiousMacd` that
triggered and rests is not seen, so a second entry is possible (`cautious_macd.py:489`);
`TrendChannel` keeps an entry refused at its fill
(`:687`); `MultiPosition` and `MarginStress` drop an
expired position whose close is pending; in the field study SUBMIT of LIMIT_OPEN has
no timeout, and the certificate accepts `inconclusive`
(`field_study_certificate.py:36`).

*Adapters.* A cancelled dry-run order is reported FILLED (`dry_run_simulator.py:112`);
the mock answers CANCELLED after a fill (`mock_broker_adapter.py:555`); MT5's
`validate_order` raises where Kraken's answers; a configuration without
`fee_structure` is accepted and cannot be shipped (`broker_data_preparator.py:252`).

*Offline.* A crash between write and rename of an import leaves the export in the
inbox as a duplicate and its bars unrendered; bars are rendered for the broker types a run
has processed (`src/python/data_management/importers/tick_importer.py:334`, `:669`), so those a
killed run left out stay missing until that broker is imported again; a missing sequence
number is noted as an error of the signal import and the file is imported all the same; a
discovery analysis whose own save is overtaken by a rendering is served as current; an emptied archive keeps its old index;
deletions are not detected; a scenario failing `validate_loaded_data` keeps its
package and ends a batch with mount reuse (`batch_orchestrator.py:491`); ticks are
looked up by scenario name where packages use the symbol
(`scenario_data_validator.py:538`); `execute_parallel` passes no `run_group`; a
sweep with mount reuse mutates its base (`optimization_runner.py:74`); cache files
carry the time of the save; volatility windows can exceed `max_block_hours`; worker
paths are resolved against different directories when validated and when run
(`scenario_validator.py:598`); run ids are seconds, so two combinations of one second
are merged (`optimization_analysis.py:36`).

## 7. Not modelled

Floating-point arithmetic of indicators, P&L, conversion and slippage (prices and
money are small integers; fees are whole numbers); HTTP, signing and message formats
beyond what the adapter model tells apart; logging, reports, display, command line and
API, which read state and change none of it; the MQL5 collectors, which run outside
the program; a snapshot replaced twice between two polls (A-B-A); envelopes without a
number after the first; partial fills in the live executor; file statistics and the content of
discovery reports; experiments and tools under `src/python/experiments`.

## 8. Plan

Every part above marked with a module is modelled and checked. What could be proved
further: of `BooksBalance` and `RulesKept` the conjuncts without sums; of `BatchSound`
that a mount's data is that of its scenarios (`RunsOnOwnTicks`); the certificate of
`StudySound` under an assumption on the shape of plans. What stays out of the prover's
reach is in section 4. To be modelled further: partial fills in the live executor, and
the content of the discovery reports.
