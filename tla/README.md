# Verification of the SEP trader

TLA+ modules, TLC configurations and TLAPS proofs kept beside the repository:
the live trading loop (`scripts/trading/`), the services around it
(`scripts/trading_service.py`, `scripts/tools/`) and the code that replays history
to choose its parameters (`scripts/research/`). Paths are relative to the
repository root.

## 1. The system

Candles come from OANDA into Valkey (`stream_candles.py`). A regime service turns
windows of candles into *gates*, also in Valkey, and the trading service runs a
loop over the enabled instruments that closes tickets which hit their stop, their
target or their hold time, and opens a trade when a gate is admitted. Orders go to
OANDA over HTTP. A web console and operators act on the same account through the
service's HTTP API, and a health daemon watches the account through Valkey.

The parameters of the loop are chosen offline: a store of historical candles feeds
a derivation of historical gates, a GPU sweep scores thousands of parameter sets on
them, a second replay writes the trades of the winner, and a backtest runs the
winner through the live engine on simulated fills.

Two things are hard here.

**Bookkeeping.** One position is recorded in four ledgers, changed by different calls
with a request to the broker in between, which may be refused, be answered without
a fill, be lost, or be sent again although it was filled. No lock spans two of them.

| ledger | code | what it is read for |
|---|---|---|
| the account at OANDA | external | the truth |
| inventory | `RiskManager._positions` | limits, size of the next order |
| tickets | `TPSLPositionTracker` | which ticket to close, at which index |
| trades | `TradeStateStore` | the planned target, the hold clock, the last signal |

**Parity.** The same rule is written several times: a gate is made by the live service and
by the replay of history, an exit is checked live, in tensors and in a list of
slots, a peak of tension is found by the loop, the filter and the tensor builder. The
parameters are only worth something where the copies agree.

### Components

| component | state | operations | interacts through | what makes it correct |
|---|---|---|---|---|
| Execution loop (`portfolio_manager.py`, `execution_engine.py`, `trade_stack.py`) | gates of the cycle, per-pass copies of trades and work lists | `loop_once`, `enforce_time_exits`, `process_trade_stack`, `execute_allocation` | calls into every other component, from one thread | a position grows only through an admitted entry, shrinks only through exits; every cycle ends |
| Exposure tracker and broker connector (`exposure_tracker.py`, `oanda.py`, `retry_utils.py`) | tickets, price cache | `execute_delta`, `close_ticket`, `sync_risk_manager`, `reconcile_portfolio` | HTTP requests with up to 3 attempts | inventory and tickets agree whatever the broker answers |
| Ticket book (`position_tracker.py`) | tickets with entry price and TP/SL state | `sync_to_net_position`, `add`, `pop_ticket` | indices shared with the trade store | reaches the target; no ticket offsets another |
| Risk limits (`risk_limits.py`) | inventory and caps | `can_add`, `record_fill`, `flatten` | caps derived from the balance in each cycle | the account stays inside the caps |
| Planner and trade state (`trade_planner.py`, `trade_state.py`) | trades, pending close, last signal | `plan_allocation`, `snapshot`, `restore`, `replace_trades` | snapshot taken before an order, restored after a rejection | one trade per signal; a rejection leaves no trace |
| TP/SL (`tpsl/`) | best price, breakeven latch of a ticket | `check_intra_candle` | candles of the stream, reconciles | no exit that is due goes missing |
| Trading service, API, kill switch (`trading_service.py`, `api.py`, `state_manager.py`) | running flag, kill switch flag | `start`, `stop`, `place_order`, `close_position`, `set_kill_switch` | API thread next to the loop thread; `ops:kill_switch` in Valkey | trading resumes on the operator's word only |
| Health daemon (`health_check_service.py`, `circuit_breaker.py`) | peak, first equity of the day, last exposure, tripped | `_gather_and_check`, `check`, `engage_kill_switch` | reads `ops:risk_summary`, writes `ops:kill_switch` | trips for a reason, and is heard |
| Candle streamer (`stream_candles.py`) | cursor, sessions | fetch, normalise, write, trim, refresh | `md:candles:*` in Valkey | no hole, no forming candle, catches up |
| Regime service, gate loader (`regime_manifold_service.py`, `gate_loader.py`, `gate_validation.py`) | signature history, calibration samples, last window; gates with a lifetime | one evaluation per closed candle, load per cycle | `gate:last:*`, `gate:index` in Valkey | no window is counted or judged twice; a gate follows every candle in the end |
| History store (`data_store.py`) | a file of candles, a file of signatures | `load_candles`, `sync_signatures` | files that outlive the process | no traded candle is lost between two loads |
| Backtest manager (`backtest_manager.py`) | one job, its status, result and error files | trigger, job thread, `latest_results` | background thread, files | one job at a time, it ends, and its result is the one shown |
| Signal derivation (`signal_deriver.py`, `st_filter.py`, `tensor_builder.py`) | rolling history of a replay | dense gates, squeeze signals, filter, peaks | lists of gates | mirrors the live service |
| Sweep and parity replay (`gpu_runner.py`, `gpu_parity_replay.py`) | tensor columns; slots | one candle of the timeline | the same candles and gates | the exported trades are the scored ones |
| Backtest (`backtest_simulator.py`, `tracker.py`) | tickets, trades, simulated risk manager | one candle through the live engine | lists linked by position | its ledgers agree |
| Session policy (`session_policy.py`) | daily windows | `evaluate` | called by the trade stack and the backtest | no entry close to or after the end of a window, across midnight too |
| Sizing, ML evaluator, C++ engine, web console, one-shot tools | — | predicates and formulas, or a view | — | see section 6 |

`PROJECT.json` lists the files of every component and whether it is modelled.

## 2. Plan

Ordered by what can cost money. Done:

1. `PositionTracker`, `RiskLimits`, `TradePlanner`; `PortfolioLoop` — the loop, its
   broker, the API thread, crashes; their theorems.
2. `KillSwitch` — service, operator, seeding script and daemon.
3. `CandleStream`, `GateWriter` — the chain from OANDA to the loop.
4. `TpslChecker`, `PositionExits` — exits, hold clock and reconciles of one instrument.
5. `ReplayContract` and its two implementations `SweepTimeline`, `ParityReplay`;
   `ReplayParityProofs`.
6. `SessionPolicy`, `BacktestReplay`, `HistoryStore`, `BacktestJobs`.
7. `GateRules`, `WindowRules`, `SignalParity`.
8. Theorems about the loop's ledgers and limits, the switch, the exits, the backtest, the
   chain of candles and gates, the history store with its jobs, and the copies of a signal.

9. `AccountContract`, which `PortfolioLoop` implements, and the proof of it.

## 3. Modules

### The loop

`PositionTracker` is `sync_to_net_position` on one instrument's tickets, each
abstracted to its signed units. `RiskLimits` is `can_add`. `TradePlanner` is the
store's snapshot with `restore` and `plan_allocation`.

`PortfolioLoop` extends them and makes a state machine of the service's process.
`stage` and `cur` are the program counter of the loop thread, one action per
stretch of code between two calls to the broker:

| stage | actions | code |
|---|---|---|
| `down` | `Boot` | `TradingService.start`: a first reconcile, then the loop |
| `idle` | `BeginCycle` | `loop_once`: periodic reconcile, may fail and be logged |
| `gates` | `LoadGates`, `CycleFails` | gates, prices, balance, kill switch; an HTTP error ends the cycle |
| `tpsl`, `expiry` | `TpslExit`, `ExpiryExit` | `enforce_time_exits`: which tickets are to be closed |
| `tpsl_close`, `expiry_close`, `stack_close` | `CloseTicket` | one `close_ticket` from the highest index down; after the last, the trades are saved and the inventory synchronised (`FinishExits`) |
| `stack` | `ProcessInstrument` | `process_instrument` up to the exits inside it: positions, counts and the session are read *before* that pass, as in the code |
| `allocate` | `Allocate` | the rest of `process_instrument`: request, plan, `can_add`, order, restore or record, cooldown |

`Replies` says how a broker may answer: `fill`, `empty` (2xx without a fill),
`none` (gave up) or `error` (an HTTP status, raised as a bare `Exception`), with the
number of attempts that were really filled. `PlaceOrder`, `ClosePosition` and
`SetKillSwitch` are the API thread, `PublishGate` the regime service, another process
that writes a gate between any two steps of the loop, `Crash` the end of the process, which loses every ledger but the account. `intact[i]` is an
observation: no answer about `i` was lost or misread since its ledgers were last in line.

`AccountContract` is the abstract specification of the loop, in terms of the account, the
gates and one bit per instrument, whether its books can be trusted. `Judge` is a new gate,
`TakeUp` the moment at which a pass reads the last ones, and what was read is used at most once.
There are two ways in which the position of a trusted instrument moves: `Enter`, one size on
the side of the gate taken up, which a newer one may have overtaken meanwhile, not against what
is held, within the limits; and `Leave`, a part of what is held. `Stray` is
everything after which the books are not trusted (a lost answer, an order over HTTP),
`Rebuild` a reconcile, `GiveUp` a crash or a skipped reconcile. `PortfolioLoop` ends with
the mapping: `position <- broker, verdict <- published, taken <- gate, trusted <- intact`, so that
books, stages and retries of the loop all disappear.

`TpslChecker` is `check_intra_candle`, exact for whole percentages: the order of the checks,
the trigger price, best price and breakeven latch. `PositionExits` puts it into the
passes of the loop for one instrument: `BeginPass` moves the clock by `loop_seconds` or
more and may bring another candle, then `ReconcilePortfolio`, `CheckTpslExit`,
`EnforceTimeExits` and `ExecuteAllocation` as in `loop_once`. A reconcile rebuilds every
ticket with a fresh TP/SL state and the true age; the enforcer adds `LoopTick` and the
trade stack `StackTick` to the clock of the same trade. Where `PortfolioLoop` lets any
ticket trigger, this module says which; what happens when trades and tickets part stays
with the former.

`TicketSlots` has the two list operations of tickets that several modules share: `SlotsLeft`,
the scan for what a check leaves open, and `Without`, the removal of an index.

`KillSwitch` is about the flag. `flag` is the service's copy, `key` is
`ops:kill_switch`, `summary` is `ops:risk_summary`. The daemon reads (`GatherRisk`),
asks OANDA, then decides and writes (`CheckRisk`); everybody else may act in
between. `word`, `moved` and `lapsed` are observations.

### Candles and gates

`CandleStream` is the streamer for one instrument. A candle is its time and whether it was
final when fetched; the market may trade or not at any time. `CountCached` is the choice of
the window with the refresh of a lagging session, `Fetch` the request, and `WriteCandles` the
pipeline, the trim and the cursor: three steps, since Valkey may leave, a session may
lag and candles may close between them. `GateWriter` extends it with the regime
service (`ProcessInstrument`: newest window, calibrator, history, gate, index), the
lifetime of a gate and the loop's look at it (`LoadGate`). The two processes share
`store`, `gate` and `index` only.

`WindowRules` holds what the makers of gates remember and `GateRules` the guards that
judge a gate; live and replayed code have a copy of each.

### Offline

`HistoryStore` is `load_candles` as a sequence of requests and writes on two files that
outlive the process: prefix and suffix in chunks, append or rewrite, signatures. A line is a
candle, or torn by the end of the process. `BacktestJobs` runs the manager's job over it.

`ReplayContract` is the abstract specification of a replay: a book of slots, one enabled
step per candle, any free slot for an entry. `SweepTimeline` is `_process_timeline` for one
row, with every tensor column and mask under the code's names, stale columns
included; `ParityReplay` is `replay_gpu_parity`. Each module ends with its mapping:
`SweepBook` and `ParityBook` translate its state to a book, `INSTANCE ReplayContract WITH`
gives `SweepContract` and `ParityContract`. `ReplayParity` runs both on the same feed next
to the live check of the same slot.

`BacktestReplay` takes one candle through the engine as one step (nothing else runs), with
its three ledgers; `SessionPolicy` tells it when an entry is allowed. `SignalParity` closes
candles one by one, lets the live service and the loop come by or miss them, and compares
their gates with `DenseGates`, `Signals`, `GpuPeaks` and `FilterPeaks` of the candles so far.
What `loop_once` does to a gate before the trade stack sees it is `Handed`: the peak the loop
judged, and for a profile that filters by regime a label of its own (`Labels`: any, since the
average it is made of is of prices, which gates do not carry). `EntersLive` is what
`process_instrument` asks of the gate itself, label and side included (`AlongRegime`).
Lists of gates are functions from the time of their window; what one pass over the candles or
the gates remembers is a recursive function of time (`Replayed`, `Derived`, `Remembered`), with
the code's loop body as its step.

Variants of a definition (`CanAddAlone`, `StaleReset`, ...) stand before
the one they vary and are used by nothing: each is a plausible slip, and
`PROJECT.json` "mutants" names the property that catches it.

### Abstractions

- *Loop.* Prices are 1 and sizes come from a small set; `max_total_units` is unset as in
  every compose file. The caps are constants, the code derives them from the balance
  in each cycle: a lost account request makes them 0, which `can_add` reads as no
  cap, while every new entry is sized 0. Whether a gate is admitted, a candle triggers a
  stop, a hold has expired or a session is open is a free choice where the
  code decides it.
- OANDA fills all or nothing (the orders are fill-or-kill). A 2xx answer to a close
  that is an empty object counts as no answer. Bracket orders are off by
  default (`OANDA_ATTACH_BRACKET_ORDERS`), so OANDA closes nothing on its own.
- The two requests of a reconcile are one step. Loading the gates and reading the
  kill switch are one step. An order in flight when the process dies is the order
  step followed by `Crash`. An API request that is executed after the process died, or a
  cycle that outlives the five seconds `stop` waits, is not modelled.
- The HTTP server is single-threaded, so API calls are atomic against each other;
  a retry of an API order that fills twice is two steps.
- *Kill switch.* A day may turn at any time; the hour within which exposures are
  compared is longer than the interval between two checks. Streaks of losses are
  never passed to `check`. A one-shot check is a daemon that stops after it.
- *Candles.* The unit of time is a candle of 5 seconds; the streamer's interval of 2
  seconds is any number of passes per candle. An OANDA answer is the last candles there
  are, with the forming one marked incomplete. What the encoder makes of a window is
  data of the instance: signature, hazard and regime of the window that ends at a candle.
- *Exits.* One entry price, candles without a close, one stop price per percentage.
- *Replays.* One candle per time: on duplicate times the parity replay would enter at the
  first copy and the sweep at the last. Rounding of single precision, sizes, costs and
  equity are left out. The parity replay and the sweep ignore a gate's `admit`.
- *Backtest.* Signal keys are absent, as in the gate caches; the size is any of a set.
- *Store.* One loader at a time. A window whose traded candles had no answer is
  recorded in `lost`, one that starts beyond the file in `skipped`: the code cannot tell
  either from a quiet market, and the properties speak of the other behaviours.
- *Signals.* Metrics are data of a window, the use of volumes by the encoder is not.
  `bundle_hits` is set by no code, so bundles never admit. Session, cooldown, exposure lock and
  the veto of the ML evaluator stand apart from the gate and are left out of `EntersLive`.

## 4. Runs

| run | question | result |
|---|---|---|
| `portfolio_clean` | two instruments, every order filled or rejected, crashes, gates published at any moment | the account is inside the limits, a rejected entry keeps its signal; the contract about the account, with limits on the sum that bite |
| `portfolio_faulty` | one instrument, every answer, retries filled twice, skipped reconciles, HTTP orders, crashes | inventory matches tickets, indices stay in range, books are one-sided, one trade per signal; ledgers agree where no answer was lost; there allocations only do what was admitted, and the account keeps its contract |
| `portfolio_progress` | fairness of the loop thread | every cycle ends; an engaged switch stops the orders |
| `kill_switch` | everything that may fail around the switch | trading resumes on the operator's word only; a trip has a cause; a lasting drawdown keeps engaging the key |
| `market_data` | streamer, service and loop with one fault anywhere | no forming candle, no hole, one count per window, gates and the loop's verdicts in the order of candles; candles and gates arrive in the end |
| `exits` | two positions, slow passes, refusals, failing reconciles, kill switch | a due price exit is taken; the hold clock runs ahead by a stack tick a pass at most; nothing overstays |
| `replay_parity` | all exits at once, two slots, faded gates with peaks | both replays keep the contract and close the same trades |
| `backtest` | three slots, stacking, momentum fallback, session end | the ledgers agree, holds are full, entries keep clear of each other and of the close of the session |
| `backtest_job` | three jobs, silence, HTTP errors, crashes, failing replay or disk | no traded candle is lost, answers are complete, a completed job is the one shown, jobs end |
| `signals` | four kinds of windows, three profiles, restarts and missed windows | a gate handed on by the loop enters as in a backtest, given peak and label; what was missed heals; the filter finds the peaks of the sweep |
| `skipped_reconcile`, `unheard_trip` | a statement of a log line, of a docstring | violated; see Findings |

Every module that models a running part states its type invariant, and all of them are proved.
`portfolio_faulty` runs the one of the loop; the others hold on the instance of their run when
they are added to its `INVARIANTS`.

**Bounds.** `portfolio_clean` needs two instruments, since a cap on the sum and a
count of open instruments mean nothing with one; entries of 2 with a cap of 4 on an
instrument and 5 on the sum make one that fits, one that fills the cap of its instrument and
one that only the sum of both turns down. With `MaxPositions = 2` and two instruments the count
of open positions cannot be exceeded there; that part is left to `PositionsStayWithinLimits`.
`MaxGate = 2` gives each instrument a gate that is seen again in later cycles and one that
supersedes it, also in the middle of a pass. `portfolio_faulty` has no cap on the sum: it is
about one instrument.
`MaxBook = 2` splits a position into two trades, so indices can shift; two
`Attempts` fill an order twice; `MaxBroker = 4` leaves room for an account that went
past `MaxNetUnits = 3` through lost answers. Every pass handles one instrument at a time, so a
third one adds nothing but the sum. In `kill_switch` two balances, 11 percent apart,
lie on either side of both loss thresholds, and an exposure of 0 or 2 changes by more
than half. `MaxBroker`, `MaxBook` and `MaxGate` bound the environment in guards of
its actions and never cut a step of the loop short: a broker at its bound rejects.

`market_data`: `Bootstrap = 3` and `Incremental = 2` keep the two windows apart with a
set (`MaxEntries = 4`) that is trimmed within `MaxTime = 5`; `GateTtl = 2` expires a gate
while the loop is away; one fault of any kind at any point, since after it everything must
heal. One thing does not: an answer that outlived its window moves the cursor past what it did
not bring. `late` is the time of the last one; `NoHole` speaks of behaviours without one, and
`CatchesUp` owes the candles from that time on. `exits`: prices that reach stop, entry, trigger, trail and target, a hold of 5 that two
ticks of the stack reach in two passes, a reconcile within the time of a trade.
`replay_parity`: candles that stay, that arm the breakeven and that reach stop and target at
once, gates with more and less tension on both sides; two slots are what reuse and side
conflicts need; the run has no bound on time. `backtest`: `Hold = 5`, `Cooldown = 2` and
`MaxTime = 9` let the first of three tickets expire while another hits its target on the same
candle, in a session that wraps around midnight at time 4 and closes at 8, less a buffer of 1.
`backtest_job`: chunks of 2 in 4 candles with one quiet; windows that overlap, that
leave room before and after the file, and one that ends before it begins. `signals`: five
candles with a retention of 2 and three samples let a memory forget and a calibrator overflow; the profiles are one like that of
the repository, one that waits for a peak and one that filters by regime.

**Fairness.** *Loop:* `WF(LoopStep)` and `WF(Boot)`: `run` catches every exception of a
cycle and waits at most `loop_seconds`; requests time out after 15 seconds and are
tried three times; compose restarts the service unless stopped. Nothing is assumed of
OANDA, the operator or the gates. *Kill switch:* the loop publishes in every cycle and
the daemon's `while True` checks every minute; no process is forced to start, Valkey
is not forced to come back, and `DrawdownKeepsEngaging` speaks of behaviours where
service, daemon and Valkey stay up. *Candles and gates:* the streamer's and the service's
loops go on, a request is answered or given up, and compose restarts the containers of
both and of Valkey; the market, the prunes and the trading loop owe nothing. The fairness
conjuncts of `GateWriter` join actions of one process, of which one at a time is enabled. *Jobs:* the job's
thread goes on while the service lives.
Deadlock is checked but in `exits`, `backtest` and `signals`, where the timeline ends.

### Findings

1. `skipped_reconcile`: a reconcile that logs "skipped" because OANDA gave no
   positions returns `{}`, which the coordinator reads as *every instrument is flat*: it
   drops all trades and cooldowns while tickets and inventory stay, and the next
   allocation sells the position to reach a target of 0.
2. `unheard_trip`: the breaker engages the key in Valkey; a running service read that
   key when it started and never again. The counterexample is under `FairSpec`.

### Known divergences

Each of these properties states what a document, a comment or a test says, stands in its
module with the reason, and fails when the line named is added to the cfg (alone, in place
of its other properties).

| property | add to | what the code does |
|---|---|---|
| `GrowthIsAdmitted` | `PROPERTIES`, `portfolio_faulty.cfg` | `execution_engine.py:290` logs "restoring trade state", but an HTTP error status is a bare `Exception` (`oanda.py:99`) that `execute_delta` does not catch: the planned trade stays, and a later pass buys it although no gate is admitted |
| `InventoryFollowsFills` | `PROPERTIES`, `portfolio_faulty.cfg` | `exposure_tracker.py:236` "records the fill"; an accepted order that was cancelled has no fill in its answer, and `_extract_fill` (`:135`) books the requested units |
| `EntryStartsCooldown` | `PROPERTIES`, `portfolio_faulty.cfg` | `tests/test_live_alignment.py:182`; an entry that replaces an expired trade starts none, since the number of trades is compared with the one before the expiry |
| `OpenedInSession` | `PROPERTIES`, `portfolio_faulty.cfg` | `session_policy.py:76`; position persistence, read before the expiry, lets the same pass open a position from flat outside every window |
| `UnreportedBalanceIsNoLoss` | `INVARIANTS`, `kill_switch.cfg` | `exposure_tracker.py:320`; the connector swallows the failure of the account request, so the fallback to the last balance is never taken: 0 is published and trips the breaker |
| `RollingSamples` | `INVARIANTS`, `market_data.cfg` | "Rolling percentile tracker" (`HazardCalibrator`): the sample dropped is the smallest, not the oldest, and the threshold can only rise |
| `HeldForItsTime` | `INVARIANTS`, `exits.cfg` | `trade_planner.py:70` "Target hold duration in seconds"; enforcer and trade stack both add their tick |
| `BreakevenStays` | `INVARIANTS`, `exits.cfg` | `plans/INVESTOR_PITCH_DECK.md:210` "Moves stop to entry after threshold profit"; a reconcile forgets it |
| `ExitsAsLive` | `INVARIANTS`, `replay_parity.cfg` | `plans/AUDIT_REPORT_V3_FINAL.md:485` "All TP/SL logic — parity verified between GPU and live"; of two stops in one candle the live check books the stop loss and the replays the better price, and the trail has another base |
| `SameTrades`, with `UseRegime = TRUE` | `replay_parity.cfg` | the sweep filters entries by trend, the replay that exports the trades does not (`result_collector.py:95`) |
| `FillsMatch`, with `HazardExit = TRUE` | `INVARIANTS`, `backtest.cfg` | a hazard exit closes the tickets and leaves trades and net units, which later fills are planned from (`tracker.py:131`) |
| `NoTimeTwice` | `INVARIANTS`, `backtest_job.cfg` | `data_store.py:249` "Deduplicate by time"; an appended suffix starts with the last stored candle and is not deduplicated |
| `GateMirrored`, with `Volumes <- Uneven` and `Kinds <- TwoKinds` | `signals.cfg` | `signal_deriver.py:365` "mirror the live rolling regime service"; the encoder takes the median volume of all candles it is given (`encoder.py:183`), so the replay looks ahead |
| `FilterMatchesGpuOnDense` | `INVARIANTS`, `signals.cfg` | `backtest_simulator.py:388` "identically across ALL gates"; dense gates carry their coherence where the filter does not look, and it recomputes the tension |

`BrokerWithinLimits` is checked, and proved, for a broker that fills or rejects every order.
With orders that OANDA *refuses* (an HTTP error status), its exposure cap fails, although
`can_add` says that it "Checks against max position size, max total units, and position
limits" (`risk_limits.py:199`). TLC needs 47 steps for it (one instrument, sizes 1, 2 and 6,
`MaxGate = 5`, `MaxBroker = MaxNetUnits = 6`, `MaxExposure = MaxPositions = 5`, no crash, no
API order): plans of refused orders stay in the store, trades and tickets drift apart, closes
by index leave the account short of what the trades say, and the order that makes good for
all of it at once goes from -1 to 6. An order against the held side counts as reducing even
when it overshoots zero (`:213`), and reducing orders skip the caps on size and exposure. The
other two limits hold for refused orders too (`PositionsStayWithinLimits`).

Seen while reading, without a property: `execution_engine.py:121` documents an exit after
fifteen minutes in drawdown that is not implemented; a torn line in the signature file makes
every later load raise; results of an older job hide the error of a newer one; a backtest
that requires a peak of tension finds none in gates that carry no `st_peak`; a session whose
start equals its end is never open.

## 5. Proofs

Every theorem holds for all values of the constants that meet the named assumptions of the
modules: any number of instruments, tickets, candles and faults, any sizes, limits and
times. A hypothesis beyond those stands in the theorem, as `ASSUME`.

| module | theorems | extra hypothesis |
|---|---|---|
| `PortfolioLoopProofs` | `TypeCorrect`, `RiskMatches`, `ExitsStayInRange` | — |
| | `LedgersStayInLine`, `BooksStayOneSided`, `GateOpensOneTrade`; the action properties `AllocationsOnlyEnter`, `TurnedDownKeepsSignal`; the refinement `LoopKeepsAccount` | — |
| | `PositionsStayWithinLimits`, `AccountStaysWithinLimits` | the broker's answers are true, nobody else trades |
| `ProtectionProofs` | of the exits: `TypeCorrect`, `MovingStopsProtect`, `ClocksBounded`, `NoTicketOverstays` | — |
| | of the switch: `SwitchTypeCorrect`, `OperatorResumes`, `BreakerTripsForCause` | — |
| `GateWriterProofs` | `TypeCorrect`, `StoredCandlesAreFinal`, `StreamLeavesNoHole`, `WindowsAreCountedOnce`, `GatesDoMoveForward`, `VerdictsDoMoveForward` | — |
| `BacktestReplayProofs` | `TypeCorrect`, `LedgersStayPaired`, `HoldsAreFull`, `EntriesAreClear` | `HazardExit = FALSE` |
| `BacktestJobsProofs` | `BacktestTypes`, `TradedCandlesKept`, `AnswersAreComplete`, `CompletedJobsAreShown` | — |
| `ReplayParityProofs` | `TypeCorrect`, `SweepKeepsContract` | — |
| | `ParityKeepsContract`, `ExportIsScored` | `UseRegime = FALSE` |
| `SignalParityProofs` | `TypeCorrect`, `FilterAlwaysMatchesGpu`, `SqueezeAlwaysNeedsSilence` | — |
| | `RepetitionsAlwaysHeal`, `PeaksAlwaysHeal` | `LevelVolumes` |
| | `GateAlwaysMirrored` | `LevelVolumes`, `AdmitRegimes # {}` |

### Books

`BookTheorems` proves what the sum over a sequence of tickets does, without
induction over operators: prefix sums are a function, it exists (`PrefixSumsExist`, from
the least-number principle `LeastNatural`), and any function with its recursion equals it.
From there `NetUnitsOfAppend`, `NetUnitsOfRemoveAt`, `NetUnitsOfReplaced`, `OneSidedNet`, and

- `SyncReachesTarget`: `sync_to_net_position` leaves exactly the target, for every
  book and every target, and `SyncKeepsOneSided`: no ticket that offsets another.
- `SlotsLeftAreOpen`: the scan that closes tickets by index leaves those that stay open, in
  their order.

### The loop

`PortfolioLoopProofs` shows the inductive invariant `IInv`, regrouped from
`TypeOK /\ RiskMatchesTickets /\ ExitsInRange` into the parts that actions disturb together:
`BooksOK` (types and agreement of tickets and inventory), `LoopOK` (program counter,
the pass under way and its indices), `FlagsOK` and `BrokerOK`; `IInvIsTypeAndRisk`
shows the regrouping to be an equivalence. None of the three is inductive by itself: the
agreement needs the types for its sums to be numbers; the type of a copy of
the trades after a removal needs the index to be in range; and the range of the remaining
indices (`LeftInRange`) needs the pass to take the highest index first
(`NextExitIsHighest`), so that removing one shifts none of the others.
Agreement is kept because every path that changes tickets ends in
`record_fill` for the same units or in `sync_risk_manager`: `SyncReachesTarget` for
allocations and `NetUnitsOfRemoveAt` for closes, at any index of any book. There is
one lemma per action (`BootKeeps`, ..., `CrashKeeps`), collected in `NextKeeps`.

Its second half strengthens it to `LInv == IInv /\ BooksInOrder /\ LedgersAgree`.
`LedgersAgree` alone is not inductive. An exit pass works on a copy of the trades and saves
it only if it closed something, so the copy must be the store until then (`PassOK`).
With a
one-sided book the target of an allocation is the tickets with at most one more at the end
(`PlanInOrder`, `SyncOfEntry`), so one-sidedness is part of the invariant, of the copy too. Two
trades from one gate are excluded by the last signal, which no trade exceeds (`Kept`) and
which no instrument remembers beyond the gate last published (`SnapshotsOK`, `GatesOK`). And
a plan that drops all trades because the session is closed must find a flat
instrument (`HeldOK`, the persistence of positions). The two action properties follow from `LInv` and
`AllocationOutcome`, which lists what an allocation may leave.

The limits are checked against the inventory, but `AccountStaysWithinLimits` is about the
account. `StepMirrors` shows that with true answers every step leaves inventory and account
equal whenever the loop looks (`Mirrored`) and either only shrinks one position or is an
allocation that `can_add` admitted; `ExposureOfChange` and `OpenPositionsOfChange`
carry the two sums over instruments. Its hypothesis that no order is refused cannot be
dropped: see *Findings*. The search for the proof is what found that counterexample.

`LoopKeepsAccount` needs no such hypothesis, since the contract says what happens to trust when
an answer is not true. `StepKeepsAccount` maps every step to a step of the contract or to a
stutter. Two of them carry weight. A close takes off one ticket, which is a part of what
is held because the broker's own check is passed (`CloseKeepsAccount`). For an order
`AllocateKeepsAccount` adds three facts up: the plan extends the tickets by one entry of the
size asked for, on the side of the gate the pass has read and not used yet (`PlanInOrder`), whatever
was published since; a trusted
inventory is the account; and an order on the side held is not exempt from any cap
(`CanAddOnSide`), so that with all books trusted the sum over the account is capped, too.

### The switch and the exits

`ProtectionProofs` takes the two apart. `OperatorResumes` needs the key to say "0" only on the operator's
word (`ClearKeyIsSaid`). `BreakerTripsForCause` needs an account of everything the daemon
carries between two steps (`Steady`): while the account stands still and was never out of
sight, the published summary, the sample and the breaker hold its figures or zero, and never an
exposure next to a value that is missing. `SteadyCheckIsQuiet` then shows that no threshold,
whatever its percentage, is reached by equal figures.

For the exits it holds one invariant per ticket (`TicketOK`). The bound on the clock
depends on what the pass at hand may still add (`ToCome`), and on the tick of the pass that
reconciled it, which the mark does not count (`Extra`). `ClockBehind` is its
counterpart for `NoOverstay`: `Counted` keeps how much of the clock the last reconcile
put there. `StopsProtect` needs what the checker carries from candle to candle: past the
trigger the ticket is armed, and its peak is its best price (`StopsCarry`).

### Candles and gates

`GateWriterProofs` covers streamer, service and loop in one invariant,
`Sound /\ StreamSound /\ CountedInOrder`. `NoHole` fails to be inductive in several ways: a
request for few candles is only enough if the set was deep and the cursor close when it
was chosen (`FewForCause`), though the set may have been pruned since; what an answer
covers depends on when it was given (`AnswerCovers`); and the store may be trimmed or lost
at any time. The heart is a high-water mark (`NewestLeads`): nothing that anybody
remembers (store, cursor, last window, gate) is newer than the answer on its way, nor than
the store if there is one, since a session's view never goes back except by giving
the session up. From it follow that windows are counted in the order of time,
`GatesMoveForward`, and `VerdictsMoveForward`: the gate the loop has judged is among what
somebody remembers, so no gate it reads later is older, though its own guard asks only that the
times differ. Sets of candles are bounded by cardinalities, so most of the lemmas are about
the last candles of a set (`LaterIsLast`, `TrimmedKeepsLate`, `FewReachBack`).

### Backtests and replays

`BacktestReplayProofs`: one candle is a chain of stages on a book (mark, exits, expiry,
session, entry), and each stage keeps `Sound`: tickets and trades pair up by their slots, no
trade is older than its ticket, tickets are a cooldown apart and on one side.
`FullHold` is the claim that ages, which are linked by position, keep naming the right ticket
while others are closed. The hypothesis `HazardExit = FALSE` cannot be dropped: a hazard
exit closes tickets behind the back of the two other ledgers (see *Known divergences*).

`ReplayParityProofs` assumes `TpslAssumption`, `ReplayAssumption` and `PricesAssumption`.
The contract leaves open which free slot an entry takes, so two implementations of it
need not do the same. The proof names a deterministic move on books, `Moved`, that enters the
first free slot, and shows that the contract allows it and that each replay makes it on the book
it represents. For the list of slots that is a comparison of branches (`ParityInv`). For
the tensors it needs `SweepInv`: an open column has a direction, a close as its entry and a timer
within `Hold`; its breakeven flag is set exactly when its peak says so, because the code
latches what the contract computes from the best price; and its peak is below 49 times its
entry, so that the limit of 9900 percent, which stands for *no limit* in the tensors, cannot be
reached. `PricesAssumption` (no price is 50 times another) is there for that and for nothing
else. The net of directions, which the tensors sum, decides the side as the contract's
quantifier does, since a book is one-sided (`SignOfSum`). Closed columns appear
nowhere in `SweepInv`: whatever they hold, the masks and the entry reset keep it out.
`ExportIsScored` carries both invariants and equality of the books along (`Together`). The
assumption on `UseRegime` cannot be dropped: with the trend check it is false. `TypeCorrect` asks
for none of this: the timers and cooldowns of both replays stay in range whatever the
prices and with the trend check too (`SweepTypesKept`, `ParityTypesKept`).

### History store and jobs

`BacktestJobsProofs` has the invariant `IInv == StoreSound /\ JobTypes /\ ShownIsDone`. For the
jobs, `ShownIsDone` adds that the results are those of the job already while it is about to
write `completed`. For the store, `TradedKept` is far from inductive: what the next write leaves
in the file depends on what the load under way holds in memory. So `SoundLoad` says at each
stage of a load that the blocks fetched so far hold every traded candle up to the cursor
(`Fetched`, `Block`), and that the load began no later than one candle behind the file, or
`skipped` is set (`Based`). `NoGap` then joins prefix, file and suffix: no traded candle lies
between the last of one and the first of the next. What a write leaves can be read as a first
part of the candles the load holds (`WrittenReads`), wherever it is cut: lines behind a torn one
are not read at all (`AppendedIsRead`), a torn line at the end hides nothing before it
(`ReadBeforeTorn`), and a first part of well-kept candles is well kept (`CutIsKeptWell`).
Writing the file anew in order of time needs that sorting a finite set reaches each
of its members (`AscendingLists`).

### Signals

What a pass over history remembers recurs over time, and the prover has no induction over
data. So every fact of this kind is shown by looking at the least time at which it fails
(`LeastNatural`): `DerivesExists`, `RemembersExists` and `ReplaysExists` give the recursive
functions their equations, `DerivedSteps`, `RememberedSteps` and `ReplayedSteps`.

`FilterAlwaysMatchesGpu` then needs that the one tension the filter remembers is that of the
last gate with a direction (`RememberedIsOfLast`), and `SqueezeAlwaysNeedsSilence` that a
squeeze which is on has its silence behind it, and no breakout since (`SqueezeIsPending`).
No run checks `SqueezeNeedsSilence`; it holds on `signals.cfg` when added to its `INVARIANTS`.
Both theorems speak of every history of windows with any volumes, and so does `TypeCorrect`: the
calibrator never holds more samples than it may (`UpdatedKeepsFew`), and no time that has not
come is counted (`CountedIsPast`).

The other three compare a service that comes late, skips windows and restarts with a replay
that sees everything. Both count lists of times, so they are compared by the sets of times in
them: counting keeps a list in order and, of its times, those within the retention
(`CountedKeepsRecent`), and the length of such a list is the number of recent windows of one
signature (`AscendingLength`, `WindowIsCounted`), which no list appears in (`Repeated`). The
invariant `SignalInv` has six parts. None of the three properties is inductive: the repetitions
of a gate need that the memory of the service lacks no recent window but those up to
`uncounted` (`MemoryOK`), that its samples are those of the replay while it has missed nothing
(`SamplesOK`), and how its last window and the last gate stand to each other after a restart
(`ClocksOK`); a peak needs that the tension the loop remembers is that of the last window
with a direction, which it may not have seen, of a gate that may have been counted wrong
(`LoopOK`, `PeakOK`). A candle that closes takes nothing back, since what is said of a window
does not depend on later candles (`PrefixDecides`, `SamplesOfPrefix`).

`GateAlwaysMirrored` says where live and backtest part, too. A dense gate carries no `st_peak`
and the label of its window, while the loop hands on a peak of its own and, to a profile that
filters by regime, `long_ok` or `short_ok`. So the two are the same signal as they stand only
under a profile that asks for neither (`AsksForGateOnly`, `HandingOnIsIdle`), like that of the
repository and every one relaxed by `ml_primary_gate`. Under any other profile it is as if
the dense gate had been handed on with the sweep's peak and the same label
(`HandingOnDecides`): then the loop must have missed nothing either, and the label must favour
the side of the order, which a backtest never asks.

`LevelVolumes`, that all candles have one volume, stands for: the median does not look ahead
(`LevelSignature`). No weaker hypothesis on the volumes would do: with two volumes a replay
and the service can always come to see one window differently, and TLC finds each of the
three properties violated with `Volumes <- Uneven` (see *Known divergences*). Nor can
`AdmitRegimes # {}` go: without labels the service admits no regime and the replay every one,
which TLC finds too.

### What proof attempts changed

Besides the counterexample to the exposure cap: the choice of the window in `CandleStream` was
a `CASE` with overlapping guards, which TLC resolved by order and the logic does not; the
expiry of history entries removed every old one, where the code pops from the
left up to the first young one; the merge with a prefix is written with one sorted list
(`Ascending`), and a load keeps the candles it merged, as the code's variable does; and
`GatesMoveForward` was stated for behaviours without a pruned store only, which turned out not
to be needed. In `SignalParity` the folds became recursive functions, gates are kept by their
time, and the median is the value of a rank, not a place in a sorted list.

### Only model-checked

Liveness (`CycleCompletes`, `KillSwitchHaltsTrading`, `DrawdownKeepsEngaging`, `CatchesUp`,
`GateFollows`, `JobEnds`): it follows from fairness, and neither `ENABLED` nor arguments over
well-founded measures under `WF` are within this prover's reach. Every invariant and every
action property of a passing run is proved, under the hypotheses above, and so are the type
invariants.

## 6. Not modelled, and why

- *Session windows in the loop*: `PortfolioLoop` lets a session be open or closed; the window
  itself is in the backtest, which calls the same policy. Overrides are set by no code.
- *Sizing, guard metrics, ML evaluator, manifold encoding, C++ engine*: floating-point
  functions of one caller. Their results are free choices or data.
- *Backfill scripts*: `backfill_candles.py` calls a `_parse_time` that is not defined, and
  the watcher passes arguments its parser rejects.
- *Structural breaker*: its encoder does not import, so it never blocks.
- *Strategy files, parsers, serializers, formatting, record classes, reports, grids, one-shot
  tools, web console*: no state that several steps share.

`PROJECT.json` "hazards" names, for every hazard without a property, why it has none.

## 7. Running

    tlc -workers 2 -config portfolio_faulty.cfg MCPortfolioLoop.tla
    tlc -workers 2 -config kill_switch.cfg MCKillSwitch.tla
    tlc -workers 2 -config market_data.cfg MCGateWriter.tla
    tlc -workers 2 -config exits.cfg MCPositionExits.tla
    tlc -workers 2 -config replay_parity.cfg MCReplayParity.tla
    tlc -workers 2 -config backtest.cfg MCBacktestReplay.tla
    tlc -workers 2 -config backtest_job.cfg MCBacktestJobs.tla
    tlc -workers 2 -config signals.cfg MCSignalParity.tla
    tlapm BookTheorems.tla
    tlapm PortfolioLoopProofs.tla
    tlapm ProtectionProofs.tla
    tlapm GateWriterProofs.tla
    tlapm BacktestReplayProofs.tla
    tlapm BacktestJobsProofs.tla
    tlapm ReplayParityProofs.tla
    tlapm SignalParityProofs.tla

Every run and every proof module takes less than five minutes on four cores.
