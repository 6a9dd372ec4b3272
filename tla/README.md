# A TLA+ model of the synthetic arbitrage engine

This directory models the program under `src/synthetic-arbitrage`: a C++ process
that listens to exchange feeds, prices ETHUSDT synthetically as ETHBTC x BTCUSDT,
compares that price with the real quote, raises signals and simulates trades.
TLC checks the modules on small instances; TLAPS proves the most important
properties for every value of the constants (section 5). `PROJECT.json` is the index:
components, runs, the source lines behind every definition, mutants, findings,
hazards and theorems.

## 1. Inventory

| Component | State | Operations | Talks to |
| --- | --- | --- | --- |
| Strategy core, `SyntheticSpotSynth.hpp` | price, time and ready flag of two legs, last synthetic and real price | `update` (leg tick), `compareToReal` (real quote) | buffer, two loggers, cooldown, ledger, through attached pointers |
| `MispricingBuffer.hpp` | deque of the last 2 gaps | `add`, `average`, `isPersistentSpike` | called by the core |
| `MispricingLogger.hpp`, `SyntheticSnapshotLogger.hpp` | one CSV file each | `log`, `write` | called by the core |
| Signal cooldown, `ArbOpportunityEngine.hpp` | symbol -> time of last signal | `shouldTrigger`, `reset`, `evaluate` (prints) | called by the core |
| Ledger, `MockPnLEngine.hpp` | trades, total, largest exposure, series | `recordTrade` | two attached files |
| `ArbLogger.hpp` | append stream on `arbitrage_log.csv` | `log`, `logSimulatedTrade` | called by the ledger and by `SyntheticPair` |
| Life cycle, `main.cpp` | main thread, three threads, `running`, `log_mutex`, two connections | start, connect, run, back off, close, join, exit, SIGINT | everything |
| Stats overlay, a thread of `main.cpp` | values read in the current pass | read prices and totals, print them under `log_mutex` | reads all engines |
| Feed handlers, `main.cpp` `on_message`, `bybit_clean.cpp` | `trade_buffers` | one handler per message | core, perpetual engine, cross-exchange pair |
| `SyntheticPerpEngine.hpp` | spot, funding, mark, last alert | `updateSpot`, `updateFunding`, `updateMark` | called by the feed handlers, read by the overlay |
| `CrossExchangePair` | one price per venue | `update`, `getPrice` | called by the feed handlers, read by two threads |
| Funding cache and feed | symbol -> rate and time, behind a mutex | `update`, `get` | not started by `main` |
| `SyntheticPair.hpp` | three ticks, last alert | `update` | constructed by `main`, never called |
| `OptionPricer.hpp`, `reports/summarize_pnl.py` | none | a formula; an offline report | - |

What makes each of them correct, and what is hard about it:

- **Strategy core.** No gap at the threshold is missed and no signal is invented,
  whatever the order of ticks; leg ticks are only logged when they belong
  together in time; the rolling average is over the right comparisons; every
  signal is traded once. Hard: stale legs, a real price that is not there yet,
  wrapped time differences, thresholds met exactly, gaps of both signs.
- **Cooldown.** Two signals of a symbol are further apart than the cooldown.
  Hard: the age is an unsigned difference, and ticks can be late.
- **Ledger.** Trades, totals and the two files tell the same story; the exposure
  cap holds; the sign of a profit follows the trade's direction. Hard: values read
  after some fields were updated and before others.
- **Life cycle.** A clean exit leaves no thread behind; the shared mutex is always
  released; SIGINT, a closed connection and an exception lead where they
  should. Hard: three threads that stop on different conditions, `std::exit`
  inside a callback, joins in a fixed order.
- **Feed handlers.** All consumers of a tick are given the same ticks, whichever
  path a message takes, and the trade buffers hold the latest ones. Hard: a
  batch that breaks off in the middle, keys that are missing, two paths that
  should do the same and do not.
- **Perpetual monitor and three-leg alert.** No gap stands unreported and no alert is
  invented. Hard: unsigned time differences, a last-alert time that can be newer
  than the tick at hand.
- **Log file.** What has been traded is on disk after the process ends. Hard: three
  buffered streams on one file, one of which truncates it; three ways to end.
- **Overlay.** What it prints belongs together. Hard: most of its reads are
  outside the lock.
- **Funding cache.** A reader sees one update, whole. Hard: interleavings of
  accesses, a mutex that is not fair.

## 2. Modules

| Module | Models | Remarks |
| --- | --- | --- |
| `MachineInts` | `std::uint64_t` subtraction, the cast to `int64_t`, `std::abs` | the type has `2 * Half` values; TLC uses `Half` 8 or 16, the proofs any positive `Half` |
| `ArbOpportunityEngine` | the cooldown | `InOrder` says whether the feed delivers ticks in time order; `fired` is a history variable |
| `MockPnLEngine` | the ledger and the rows it writes | prices are integers, quotients are fixed-point with `Scale` units per 1.0, rounded towards zero |
| `SyntheticPerpEngine` | the perpetual monitor | operations are functions on the record `perp`, so that a handler can call several in a step |
| `SyntheticPair` | the three-leg alert | |
| `Engines` | the cooldown, the ledger, the perpetual monitor and the three-leg alert side by side | they share no state; a behaviour explores one of them |
| `SyntheticSpotSynth` | the core composed with buffer, loggers, cooldown and ledger | instantiates `ArbOpportunityEngine` and `MockPnLEngine`; one action per call of the feed handlers |
| `FeedHandlers` | both message handlers, composed with the core, the perpetual monitor, the cross-exchange pair and the trade buffers | extends `SyntheticSpotSynth` and `SyntheticPerpEngine` |
| `Overlay` | the overlay thread against the feed thread, value by value | values are version numbers |
| `Lifecycle` | main, its three threads, SIGINT, `log_mutex`, the connections | no parameters |
| `ArbLogFile` | `arbitrage_log.csv` and its three streams, over several sessions | a row is one cell of the file |
| `FundingCache` | the cache, field by field, with its feeds and callers | |
| `SharedState` | the overlay, the log file and the funding cache side by side | they have no variable in common; a behaviour explores one of them |
| `AtomicFundingCache` | what the cache promises: `update` and `get` in one step each | abstract specification, refined by `FundingCache` |
| `MC*` | instances for TLC | |
| `*Proofs` | theorems about the modules they extend | `CoreEnginesProofs` for the cooldown and the ledger, `EnginesProofs` for the three-leg alert and `Engines`, `ProcessProofs` for `Lifecycle` and `ArbLogFile`, `SharedStateProofs` for `FundingCache` and `Overlay` |

`ArbOpportunityEngine`. `last_trigger` is the map of the header as a partial
function. `shouldTrigger` is the call that returns true, `suppressed` the one that
returns false, `reset` erases the entry (and the history). The constructor's
argument is `CooldownTenths`, in tenths, because `main` passes 0.2 to a
`std::uint64_t` parameter; `cooldown` is the truncated value.

`MockPnLEngine`. `recordTrade` does, in one step, what the function does: book
the trade, add to the total, raise the maximum, write a row to each attached sink
and extend the series. `Sinks` says which `attachLogger` calls were made.

`SyntheticPerpEngine`. `perp` holds the members, the ready flags that are set, the
static `last_alert` of `updateMark` and a history `marks` of the comparisons made.
`MonitorGap` uses the unsigned difference of the monitor, `Gap` the signed one of
`getSynthetic`, which the overlay displays. Prices are compared in units of
`1 / RateHour`, so nothing is rounded.

`SyntheticPair`. `tick` is the three `std::optional` legs; `updatePair` is `update`
with the `evaluate` it ends in.

`SyntheticSpotSynth`. `leg` holds price, time and ready flag of both legs;
`mispricing_log` and `snapshot_log` are the rows of the two files; `evaluated`
records the comparisons for which `evaluate` was called. `update` and
`compareToReal` follow the two methods statement by statement, `missingFeed` is the
early return. `Wired` lists the attach calls: all four, or the three that `main`
makes on this object. In the program only the main thread calls these methods
(the Bybit callback is never invoked), so each call is one step. `update` is only
called with the two leg symbols, so other symbols are not modelled. Slippage is
`1 / SlipDen` (0.0002 in the code), and the prices of a trade are in units of
`1 / SlipDen` to stay whole.

`FeedHandlers`. A message is a tick, the stream it came on and the keys it has.
`onSingle` is the single path: if a key it reads is missing, the exception leaves
everything alone, otherwise the stream's own update is followed by `dispatch`,
the branches on the symbol and the trade buffer. `onBatch` takes in a data array,
whose entries are then handled one by one: `entryDone`, or `entryThrows`, which
drops the rest, or `entryAsserts`, which ends the process (the JSON library
asserts on a missing key of a const object). `onBybit` is the handler that
parses a tick and calls nothing, `bybitAsserts` the same handler meeting an entry
without a key it reads. `accepted` is the history of the ticks taken
over. main's wiring is the value of `Wired` in the runs.

`Overlay`. `engine` counts the writes of each displayed value, `seen` the version the
overlay has read. The feed writes funding and mark before the lock, prints the
tick under it, and updates the engines after it, one value per step; the
overlay reads five values without the lock and four while it prints its
block. `After` is the order of its reads. The ledger's count and total are among the
values read and are never written: main attaches no ledger to the core.

`Lifecycle`. `mainpc` follows `main` from the start over `connect`, the event loop
`run` (with `lock` and `print` for the mutex inside `on_message`), `backoff`, the
close handler `closing`, the three joins, to `exit0` or `exit42`, where static
destructors run. `touched` records a thread that reads a global engine after
that. An exception that leaves `client.run()`, on an open connection or not, is
caught and retried after the back-off (`fatal`, `backoff`); a failed assertion of the
JSON library inside `on_message` is not an exception and aborts
(`onMessageAsserts`). `return 1` with joinable threads and an exception that leaves
`bybit_thread` are `std::terminate`, status `abort`. The environment decides on
handshakes, messages, closes, exceptions and SIGINT; `opened`, the end of a
successful handshake, is a step of the vendored WebSocket++.

`ArbLogFile`. `disk` is the file, `buf` what each stream still holds, `pos` the
offset of main's `log_file`, which opens with truncation and overwrites at its
own position, while the two `ArbLogger` streams append. A session ends by
`return0` (main's locals are destroyed, then the statics), `exit42` (the statics
only) or `abort` (nothing is written out). `tellp()` of a stream opened in append
mode may be 0 or the end of the file before the first write; both are explored.
`Accepts` is the test of the report script. `recordTrade` and `logAlert` are what
the attached loggers do; main as it stands attaches its ledger to nothing that
calls it, so that its file holds headers only.

`FundingCache`. A thread per symbol parses messages and updates the cache, pricers
call `get`; both lock `mutex_`, and touch the two fields of an entry in two steps.
`ToInt` is the narrowing caused by the `int` default of `j.value("T", 0)`. The
refinement mapping `View` counts an update from its first store on.

Definitions named `X_Something` with the comment "Mutant:" are wrong variants of
`X`, used to show that the properties can fail.

## 3. Runs

| Run | Expectation | What it shows |
| --- | --- | --- |
| `engines` | pass | the four sequential engines: types, the map follows the signals; with ticks in time order, two signals of a symbol are more than a cooldown apart; ledger, totals and files agree, the cap holds; neither alert misses or invents a gap |
| `synth_wired` | pass | everything attached: window, missed and unjustified signals, spikes, one trade per signal, leg skew, the quote a row is logged against, when a trade pays |
| `feed_handlers` | pass | every consumer of a tick agrees on the latest one, and the buffers hold the most recent ticks, wherever a batch breaks off |
| `life_cycle` | pass | a clean exit leaves nothing behind, the exit codes mean what they should, the mutex is held by who prints, nothing deadlocks; SIGINT stops the monitors, a shutdown completes, a close ends the process |
| `shared_state` | pass | overlay: values printed under the print lock are at most one update old; log file: rows of `log_file` are never overwritten, a clean exit keeps every trade, `std::exit` keeps them unless `log_file` was flushed, the report never adds up rows of the other format; cache: it implements the atomic one, and once no new calls are made every call under way returns |
| `engines_late_tick` | violation | a tick older than the last signal fires within the cooldown (finding) |
| `synth_at_threshold` | violation | a gap of exactly the threshold fires (finding) |
| `synth_unchained` | violation | under main's wiring signals are not traded (finding) |
| `synth_stale_legs` | violation | signals from legs too far apart in time (finding) |
| `life_sigint` | violation | SIGINT does not end the process (finding) |
| `feed_bybit` | violation | a Bybit quote never reaches the cross-exchange pair (finding) |
| `log_headers` | violation | the file has more than one header row (finding) |

Bounds.

- `engines`: the four engines share no state and do not call each other, so a
  behaviour explores one of them (`focus`). Cooldown: timestamps 0..6, a
  cooldown of 2 and up to three signals per symbol for two symbols, that is two
  full cooldowns and ticks on both sides of the boundary. The ticks come in time order
  (`InOrder`), the only case in which the cooldown's promise holds;
  `engines_late_tick` has the same bounds with ticks in any order. Ledger:
  prices whose edges are zero, below and above the cap, and three trades, so that
  every running total is extended twice. Monitor and alert: times on both sides
  of the funding time and of the alert gap, gaps below, at and above the
  threshold, three comparisons or alerts, ticks in any order.
- `Half` keeps timestamps in the lower half of the type, as exchange
  milliseconds are in the lower half of 64 bits.
- `synth_*`: four rows of the mispricing file (`MaxRows`): two legs, then up
  to three or four comparisons, one more than the window of 2; the prices give
  gaps of 1, 2, 8 and 9 of both signs around thresholds of 2, and `Scale` is large
  enough that no profit is rounded to zero: it satisfies `FineScale` of the proofs
  (real prices of at most 29 slipped to 609, and 609 * 609 <= 100 * 4000).
- `feed_*`: four ticks, batches of up to two entries with every mixture of
  faults, buffers of two ticks, messages with all keys, without `q` and
  without `r`.
- `shared_state`: one of the three parts per behaviour (`focus`). Overlay: four
  messages, enough for two mark prices or funding rates within one pass. Log file (and
  `log_headers`): three records and two sessions, so that a second session meets what
  the first one left. Cache: two feeds, one pricer, messages with and without each
  key, an `int` too small for the time in the messages; no other bound.
- `life_*`: no bound; 1708 states are all of it.

`CHECK_DEADLOCK FALSE` is set where the system waits for input that need not come
or stops at a bound. The life cycle is checked for deadlock; for the funding cache
`CallsComplete` says that nobody waits for the mutex forever.

Fairness. `Lifecycle` and `FundingCache` have liveness properties. Each thread is
weakly fair: the operating system runs a runnable thread, and sleeps end. In
`Lifecycle` the acquisitions of `log_mutex`, by main and by the overlay, are strongly fair: `std::mutex`
promises no order, but every holder does a bounded amount of work, and between two
messages main leaves it free while it waits for the network, as the overlay does
while it sleeps, so a thread that keeps asking gets it. In `FundingCache` acquisitions are only weakly fair: nothing
in that code leaves the mutex free for long, and `std::mutex` does not keep busy
callers from overtaking another one for ever. That a call returns however busy the others
are is therefore not claimed, and `CallsComplete` says what remains: once no new
calls begin, every call under way returns. Nothing is assumed of the exchanges, the
network or the user: no handshake need finish, no message need come, no connection
need close. The counterexample of `life_sigint` is under the same fairness.

## 4. Findings

1. `main.cpp:150`: the ledger is attached to the cooldown engine, which never
   uses it, and not to the strategy core; no trade is ever recorded.
2. `SyntheticSpotSynth.hpp:46`: signals are computed from legs of any age.
3. `main.cpp:261`: SIGINT does not end the process: main stays in its event loop until
   Binance closes the connection (exit code 42, no joins), or, after a failed
   handshake, in the join of `bybit_thread`.
4. `bybit_clean.cpp:35`: Bybit ticks are parsed and dropped.
5. `ArbLogger.hpp:11`: the log file gets one header per stream.
6. `ArbOpportunityEngine.hpp:16`: a tick older than the last signal wraps to an age
   near 2^64 and fires at once, within the cooldown.
7. `SyntheticSpotSynth.hpp:74`: a gap of exactly the threshold fires, where the
   documents ask for one above it.

`PROJECT.json` quotes, for each, the comment or document that says otherwise.

Observations made while modelling, which follow from the modules' definitions:

- `SyntheticPerpEngine.hpp:32`: once the funding time has passed, the time left
  wraps and the monitor alerts whatever the gap; hence "before funding" in
  `AlertsGenuineBeforeFunding`.
- `SyntheticSpotSynth.hpp:41`: rows are logged against a real price of 0 until the first
  quote (`RowsUseLatestQuote`). Line 74: the trigger threshold is below the
  slippage of a trade, so a gap at the threshold is traded at a loss
  (`ProfitIffGapCoversSlippage`).
- `main.cpp:82`: the batch path does not call `compareToReal`; line 92: a funding or
  mark-price message without a quantity is dropped.
- `main.cpp:163`: the overlay averages the deque of gaps without a lock while the feed
  thread may be changing it, a data race, and can display a spread whose two
  prices were never current together.
- `main.cpp:141`: a restart truncates the previous session's rows; after a clean
  exit the file starts with `log_file`'s header, which the report rejects.
- `main.cpp:249`: the close handler says "Reconnecting" and exits with code 42.
  `std::exit` destroys the global engines while the three threads may still read them
  (`touched` of `Lifecycle`); `CleanExit` excludes this for exit code 0 only.
- `binance_funding_ws.cpp:26`: the funding time is narrowed to an `int` (`ToInt`).

## 5. Proofs

All theorems are for arbitrary constants that satisfy the named assumptions of the
modules (`HalfAssumption`, `ArbAssumption`, `PnLAssumption`, `PerpAssumption`,
`PairAssumption`, `SynthAssumption`, `FeedAssumption`, `OverlayAssumption`,
`FundingAssumption`, `LogAssumption`): timestamps in the lower half of the type, a
cooldown, a MaxAge and alert gaps below `Half`, positive prices, a positive window,
buffer size and scale, a slippage below 1, feeds and pricers that are different
threads. `FeedAssumption` also says that the ticks' times are among the monitor's
(`Timestamps \subseteq PerpTimes`): the handlers pass them on. TLC evaluates all of
them in the runs. Every safety invariant and action property that a run expects to
hold is proved; liveness is not. "Any order" below
means that ticks may be late, repeated or out of order.

- `MachineIntsProofs`: what the wrapped subtraction computes (`USubCases`), that
  the wrapped age test is "old enough or from the past" (`WrappedAge`), and that the
  cast gives the true difference (`SignedDifference`); facts on products and
  quotients. The other proofs cite these.
- `SyntheticPerpEngineProofs`: types, `AlertsGenuineBeforeFunding` and `NoMissedMark`.
  The invariant `PerpGood` is a predicate on the engine's record and each operation
  is shown to keep it, so that a handler's two operations in one step are covered
  too. `NoMissedMark` speaks of the history, the code of `last_alert`; `AlertKnown`
  connects them: `last_alert` is 0 or the time of a mark that alerted. On time,
  the unsigned difference is the signed one (`MonitorExact`), for which
  `FundingKnown` is needed: a funding time that is used has been received.
- `CoreEnginesProofs`, the two engines that the core drives. *Cooldown*: types,
  `LastTriggerIsLatest`, `CooldownRespected` for feeds in order, and
  `CooldownOrRegression`, which is what is left of it for any order: a signal is a
  cooldown later than the one before, or older (finding 6). The cooldown properties are not inductive:
  they speak of the history, while the code looks at the map.
  `LastTriggerIsLatest` connects the two. For `CooldownRespected` the new signal is
  compared with the latest one, and the invariant itself orders the earlier ones
  below that. *Ledger*: `PnLTypeOK`, `LedgerReconciles` and `ExposureTracked`.
  Sizes and profits are typed by lemmas on products and quotients (`SizeCapped`,
  `PnLInt`); `Booked` names what any trade does, and each invariant is preserved
  by it. The invariants `ArbInv` and `PnLInv` are shown to be kept by `ArbStep` and
  `PnLStep`, the engines' steps without the bounds of their specifications, so that
  other callers can use them.
- `EnginesProofs`. *Three-leg alert*: types, `StandingGapReported` and
  `NoRepeatedAlert`, from `PairInv`, which adds that `last_alert_time` is the time of
  the last alert. *The four engines together* keep their types
  (`EnginesTypeCorrect`); its first step is that each runs its own specification, so
  what is proved of each holds in the run `engines`.
- `SyntheticSpotSynthProofs`, the core. All of it is proved of `CoreSpec`, the core
  under any sequence of calls, which `SynthSpec` and `FeedSpec` both imply.
  - *Signals and files*: `WindowIsRecentDeltas`, `NoMissedOpportunity`,
    `SignalJustified`, `SynthTypeOK`, and `SignalsTraded` when the ledger is attached
    (without it the run `synth_unchained` shows the opposite), as invariants;
    `UpdateLogsOnlySynced` and `RowsUseLatestQuote` as action properties.
    `SynthInv` adds `LastSignal`: a suppressed opportunity must be able to point to
    the signal that suppressed it, which is the one in the map. `SignalJustified`
    gives each signal a comparison of its own, in order: a signal extends the
    increasing function from signals to rows by the row just written. `RowsUseLatestQuote`
    rests on `QuoteKnown`: `real_ethusdt` is the quote of the latest snapshot row.
    `SubUnitCooldown` draws the consequence for the cooldown that main configures
    (0.2, which becomes 0): every gap of the threshold's size has a signal with its
    own timestamp, so only gaps within one millisecond are throttled.
  - *The engines inside the core*: `CoreEnginesProofs` is instantiated (`Driven`) with
    the core's constants, its assumptions are discharged (`EnginesApply`) and every
    call of the core is shown to be an `ArbStep` and a `PnLStep` (`CoreDrives`). Hence
    `EnginesInCore`: cooldown, ledger, statistics and files keep their promises
    whatever is attached; and `CoreImplementsEngines`: the core refines `ArbSpec`
    and `PnLSpec`, their bounds included, for which `RowPerSignal` is needed (no more
    signals or trades than rows of the mispricing file).
  - *The average*: `SpikeNeedsRecentDelta`. `isPersistentSpike` sums the buffer with a
    fold, a recursive function on sets of indices. The library's induction theorems
    take an operator and cannot be used here, but the least-number principle
    (`WFMin`) takes a set: `NatSetInduction` is derived from it, then that the
    recursion has a solution (`IterDef`), and that n numbers of size at most m have a sum
    of size at most m * n (`SumBound`). If all gaps in the window were below the
    threshold, so would be their average; and by `WindowIsRecentDeltas` the window is
    the end of the snapshot file.
  - *Profit*: for either direction, the difference of the slipped prices is
    `SlipDen * |gap| - (real + synthetic)` (`GainIs`), and a profit needs it to be
    positive, whatever `Scale` (`ProfitNeedsGapCorrect`). The converse,
    `ProfitIffGapCoversSlippage`, is proved under `FineScale`: the model's fixed-point
    unit is fine enough for the largest real price that one unit of price in the
    trade's favour is not rounded to zero (`ProfitCorrect`). The hypothesis is about
    the model's rounding, not about the code, whose doubles have no such unit, and the
    run `synth_wired` satisfies it.
- `FeedHandlersProofs`: types, `EnginesAgree` and `BuffersRecent`, for batches of
  any length and any sets of keys. `FeedCases` reduces every step to "one tick is
  handed over" or "nothing the handlers drive changes"; the former is `CoreStep`
  for the core (`FeedCore`) and keeps `PerpGood` for the monitor. So the theorems
  about the core, its engines and the monitor hold with the handlers in front of them
  (`CoreUnderFeed`, `EnginesUnderFeed`, `FilesUnderFeed`, `TradesUnderFeed`,
  `PerpUnderFeed`). `BuffersRecent` needs
  `PushRecent`: pushing onto the last `MaxBuffer` ticks gives the last `MaxBuffer`
  ticks.
- `ProcessProofs`, the process and its log file. *Life cycle*: types, `CleanExit`,
  `MutexOwner`, and `ExitCodesMean`: exit code 0 is returned only after a failed
  handshake and SIGINT, with the Bybit thread finished, and 42 only after an open
  connection was closed. The invariant
  `LifeInv` adds `JoinOrder` (each join lies behind a finished thread, monitors finish
  only after SIGINT), `LinkStage` (what the connection can be at each place of the main
  thread) and `CodeStage` (where each exit code is set). *Log file*: types,
  `LogFileRowsSafe`, `CleanExitKeepsTrades`, `CloseKeepsTrades` and `ReportNeverMixes`, for any number of records and sessions.
  `LogInv` adds that a stream's buffer holds its own rows (`OwnRows`), that while
  `log_file` has written nothing the file holds appended rows only
  (`OnlyAppended`), that an exit has written out what it should
  (`ExitWritesAll`) and that every trade has a row in arbLogger's buffer or on
  disk until then (`ArbRowsKept`).
- `SharedStateProofs`, state that threads share. *Funding cache*: types, and that
  every step is a step or a stutter of the atomic cache (`CacheAtomicCorrect`).
  `FundInv` adds that a thread between its two accesses owns the mutex
  (`CacheLocked`), that a half-made entry already has the new rate (`StoredHalf`)
  and that a half-made copy has the rate that is still stored (`CopiedHalf`):
  without the last, the second field could be that of a later update. *Overlay*:
  types and `LockedReadsFresh` for any number of messages.
  "At most one update old" is not inductive, since nothing in it stops a second
  write; `ReadsBehind` says where the feed is after the first one, on its way to the
  print statement, and `PrintLocked` that it cannot pass it.

Only model-checked: all liveness (`SigintStopsMonitors`, `ShutdownCompletes`,
`CloseEndsProcess`, `CallsComplete`): the prover does not handle
fairness and ENABLED.

## 6. What is not modelled

Console output and the text of rows; floating-point rounding (prices are
integers) and NaN (a real price of 0 would divide by zero in the ledger; the model
assumes exchanges do not quote 0); `OptionPricer`, a stateless formula; the sums and
plots of the report script; the engines' getters,
which change nothing; rows of the log file split in the middle by a full buffer (a
stream's buffer is written out in whole rows).

The vendored libraries (ASIO, WebSocket++, nlohmann/json) make up nearly all of
the repository's lines; the program's own C++ is about a thousand. They are third-party
code and are modelled by how the program uses them: handshakes, messages,
closes and exceptions in `Lifecycle`, missing keys and unparsable numbers in
`FeedHandlers` and `FundingCache`.

## 7. Plan

Every component of the program with state is modelled, and every safety property is
proved. What could follow as the code changes:

1. Should the ledger be attached to the core in `main` (finding 1), `SignalsTraded`
   becomes a property of the program as wired, and `FeedHandlers` is the place to check
   it with the actual wiring.
2. Should `compareToReal` test the age of the legs (finding 2),
   `SignalsFromSyncedLegs` moves to the passing run, with a proof like that of
   `UpdateLogsOnlySynced`.
3. Should the cooldown compare times without wrapping (finding 6), `CooldownRespected`
   holds for any order, and `InOrder` can go.
4. The liveness properties remain with TLC, which explores the whole life cycle and the
   whole funding cache for the given threads.
