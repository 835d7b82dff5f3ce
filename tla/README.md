# Verification of the trading pipeline

TLA+ models of the concurrent and stateful parts of `src/src/trading`, the TLC
runs that check them on small instances, and TLAPS proofs for every instance of
what matters most in them. Paths below are relative to
`src/src/trading` unless they start with `src/`.

## 1. The system

The program records and trades Indian index options on paper. It is a set of
processes started by `scripts/run_all.py`, which talk over Redis: at-most-once
pub/sub channels (`events.py`) and keys that hold the last value of something
(`storage.py`). What must not be lost goes to Postgres and to files.

```
 broker websocket ─► ingest ─► WAL, Redis latest, Postgres ticks ─► bus "ticks"
                        │                                             │
 OI poller ─► Redis chain            candles ◄──────────┬─────────────┤
                                        │               │             │
                                  bus "candles" ─► strategies ─► signals ─► orders ─► book
                                        │                                 │
                                        └────────► critical engine ◄──────┘ (ticks)
                                                      │
                                             trades.jsonl ─► UI, reconcile
```

### Inventory

| component | state it keeps | operations | what makes it hard | what makes it correct |
|---|---|---|---|---|
| critical engine (`critical/engine.py`, `state.py`, `risk.py`, `executor.py`) | per index: position, loss streak, last loss, halt, day stamp; `trades.jsonl` | index tick, option tick, candle, exit check, close, entry, manager pass | two threads and no lock; the gate is far from the assignment; a death loses memory and keeps the file | cap on open positions, one position per index, a loss streak halts, a due position is sold, file and memory agree |
| reconciliation and trades view (`critical/reconcile.py`, `ui/rest.py`) | none (read `trades.jsonl`) | pair entries with exits, append synthetic exits | keys repeat, exits appear twice or without an entry | no trade stays open in the file after a restart |
| candle engine (`candles.py`) | bucket in progress, two Redis keys, rows in Postgres | tick, sweep, emit, recover | two threads, four writes that can each fail, a death between any two, ticks that come late | a stored candle is the fold of its ticks, none closes early, none is lost |
| write-ahead log (`wal.py`) | segments, counter file, open handle | append, rotate, fsync, close, read | deaths between write, fsync and save; torn lines | every record returned is read back; the loss of a power cut is bounded |
| ingest (`ingest.py`) | dedup cache, batch buffer, websocket, writer | message, flush, signal handler, restart | handler re-enters itself on the main thread; callback runs on during shutdown | WAL first, a row goes to one place, a shutdown ends |
| order engine and book (`orders/`) | positions and realized P&L in memory and Redis; orders and fills in Postgres | signal, fill, hydrate | three stores written one after the other, swallowed failures | the book is the fold of the fills |
| strategies (`strategies/`) | cooldown map, window counts, signal log | candle, tick → signal | a cooldown is consumed before the risk rules; the log is the only memory | one signal per cooldown, no signal past a limit |
| option chain cache, OI poller (`storage.py`, `oi_poller.py`) | per contract: a key of its own and a field of the chain's hash | quote, depth frame, poll; each a read, two writes and a publish | read-modify-write from two threads, two writes that are no transaction | a field no race has touched is the last one stored; the copies agree in the end |
| greeks (`greeks.py`) | last spot | option message, index message with its trigger | messages overtake each other; the trigger compares with the last tick; a failure is only logged | no jump of the spot is passed over unless its own recomputation fails |
| regime and entry signals (`critical/regime/`, `triggers.py`, `levels.py`, `entry.py`) | last regime and its time, open interest at the last look, answers cached in Redis | collect triggers, ask for the regime, combine, pick a contract | two threads ask, and read and write regime and time one after the other; a remote call of any length in the middle; the cache can fail | a decision prefers no side and rests on a regime whose age is bounded |
| exit rules (`critical/exit.py`) | stop, target and walls in the position | evaluate | hard and soft exits, a regime asked for before either | an overdue position is sold whatever the model does |
| event bus (`events.py`) | subscriptions | publish, subscribe | a failed publish is swallowed, a callback's exception too | a subscriber outlives a bad message |
| monitoring (`ui/notifier.py`, `ui/health.py`, `metrics.py`) | counters in one hash, keys of alerts with a life, markers of resolutions | publish, evaluate, fire, mark, resolve, forget | every publisher overwrites the one hash; the notifier's memory is in the Redis it watches | one message per cooldown, one resolution, a dead feed is announced |
| replay (`replay/`) | aggregators, spot, cooldown, the run's `signals.jsonl` | read, merge, feed, end, a second run | order of the merge, end of the run, kills, a file opened to append | candles are those of the ticks, no look ahead, same input, same output |
| adapter, expiry, authentication (`adapter.py`, `expiry.py`, `auth.py`) | tokens, lists of expiries | parse, choose, refresh | dates | the nearest valid expiry |
| user interface (`ui/`) | none | reads | - | agrees with the stores |
| scripts, backup, retention (`scripts/`) | child processes | start, stop | waits for its children in order | all children stop |

`PROJECT.json` lists the same components with their status and, under
"hazards", each place in the code that is hard to test, with the properties that
watch it.

## 2. Plan

The order is by what can cost most and is least reachable for tests.

1. *Critical engine*: `PositionSlots` (abstract), `TradeLog`, `ScalpEngine`;
   proofs of types, cap, breaker, halts, log agreement, one sale per thread, the
   readers of the log, refinement. **Done.**
2. *Candles*: `CandleEngine`. **Done**, with proofs of all its safety properties.
3. *Write-ahead log*: `AppendLog` (abstract), `WriteAheadLog`. **Done**, with proofs of
   all its safety properties and of the refinement.
4. *Ingest*: `IngestPipeline` over `AppendLog`. **Done**, with proofs of `WalFirst`,
   `DedupIsExact` and `StopLossIsBounded`.
5. *Orders and strategies*: `OrderBook`, from a signal to the book, with the three
   stores; `StrategyGate`, cooldown, risk rules and signal log in front of it.
   **Done**, with proofs of cooldown, caps, log order, store order, bounded loss, the
   session's sum and the cost basis.
6. *Option chain and greeks*: `LiveStore`, two read-modify-write paths on one
   record, and `GreeksEngine` behind it. **Done**, with proofs of `CleanFieldsAreCurrent`
   and `NoJumpMissed`.
7. *Entry, exit and regime*: `EntryRules`, the rules as operators, and `RegimeGate`,
   the threads that apply them. **Done**, with proofs of `EntryIsEvenHanded`,
   `RegimeIsRecent` and `AnswerIsFresh`.
8. *Notifier*: `AlertNotifier`. **Done**, with proofs of `RefireIsCooled` and
   `ResolvedOnce`.
9. *Replay*: `ReplayRun`. **Done**, with proofs of `BuiltCandlesAreExact`,
   `GreeksSeeNoFuture`, `OnlyALateEndLeavesABucket` and `RunsAgree`.
10. Left: the reconnect loop of the ingest, the supervisor, the choice of an
   expiry.

Composition: `IngestPipeline` instantiates `AppendLog` in place of the
implementation that `WriteAheadLog` is shown to refine it; `ScalpEngine` extends
`TradeLog` and instantiates `PositionSlots`; `GreeksEngine` extends `LiveStore`,
whose bus it reads; `RegimeGate` extends `EntryRules` and fills in what
`ScalpEngine` leaves to a choice, the entry wanted and the exit due.

## 3. Modules and code

Every module has one action per step of the code; a step ends where another
thread, a signal or a death can see the difference: at a call that leaves the
process, at a lock, at an assignment of shared state. `PROJECT.json` "map"
names the lines of every definition. Mutants (a definition with a plausible bug,
named in a comment above it) stand before the definition they change; they are
never part of a specification.

### PositionSlots, TradeLog, ScalpEngine

`PositionSlots` says what a reader of the critical layer may rely on: slots,
filled only while free and below the cap, freed one by one or all at a death.
`TradeLog` is `trades.jsonl` and the loop of `reconcile.py:45-57` (the same as
`ui/rest.py:66-135`). A line carries two marks the file does not have, for the
properties: the number of its trade and its writer (`by`), the thread or the
reconciliation.

`ScalpEngine` has the two threads of `critical/engine.py` as `pc` and `job`:
`"sub"`, the pub/sub subscriber, and `"manage"`, `_manage_loop`. The variables
`position`, `losses`, `lastLoss`, `halted`, `resetDay` are the fields of
`IndexState`. `_close_position` is four actions (`SellPosition`,
`ClearPosition`, `BookResult`, `HaltIndex`), `_try_entry` three (`PassGate`,
`EnterTrade`, `AssignPosition`). Prices are abstracted to what they decide
(`Marks`): no usable price, a raising call, a price at the tick floor whose SELL
fill rounds to zero and is refused by `Fill`, or a win, a loss, a big loss. The
price and regime rules of `exit.evaluate` are a free choice, its time stop is
exact. Signals, entry window and regime are a free choice between `PassGate` and
`NoEntry`. The decision to close reads the position again in `_close_position`'s
caller only, as the code does: a thread keeps the position it decided on.

### CandleEngine

One index and timeframe (keys share nothing but the lock). `agg` is the
`CandleAggregator`, `pc`/`job` the holder of the engine's lock inside
`_emit_closed` and `_persist_in_progress`; `inProgress` and `lastClose` the two
Redis keys. `absorbed` and `spoiled` are history variables, read by properties
only: the prices each bucket took in, and the buckets whose candle may differ
because a write failed, a death came between a tick and its flush, or a tick
re-began a bucket that had been left.

### AppendLog, WriteAheadLog

`AppendLog` is the promise to readers: numbered records in order, each once, lost
only to a power loss. `WriteAheadLog` is `wal.py`: segments as sequences of lines
with the length known to be on disk, torn lines that swallow the next record,
the counter file, rotations and disk calls that raise, short writes (the file is
opened unbuffered and the return value of `write` is ignored), kill and power
loss at every step. That `fsync` works when it returns is assumed. `close()` saves the
counter and then closes the file: `CloseWriter` is the close that gets to the file, whose
fsync may raise, `CloseFails` the one that raised at the counter, after which appends go on
until the process ends. `Open` reads the counter by `LoadSeq`, which takes one
that cannot be read for none and begins at 0. `counterLost` is a history variable: a
process ended with its last number unsaved, or began without reading it.

### IngestPipeline

The callback's path of one message (`ws`), `Dedup` as the sequence of its keys,
`BatchBuffer` with its lock, and `frames`: the shutdowns on the main thread's
stack. The handler `ingest.py:157` runs on the main thread, so a second signal
runs a second `shutdown()` on top of the first, which does not go on until it
returns; the locks are not reentrant. The log is `AppendLog!Give`. `CloseSocket` may
fail, which the code swallows: the callback then goes on to the end, over the final
flush and a closed log. `CloseWriter` may fail too, at the counter (the log stays
open) or at the fsync (it is closed). That exception ends the handler, and with it the run
loop it interrupted, as a return does; that it would also end an outer shutdown that
was interrupted is left out.

### OrderBook

One thread takes a signal through `orders/engine.py:92-151`; `pc` is the call it
is at: the two inserts, the book in memory, the two keys in Redis, the bus. The
four stores are `orderRows`/`fillRows`, `book`/`session`, `redis` and `told`.
Average-cost arithmetic (`AfterFill`) is the code's, on whole prices. An average
that is not whole is cut to the next lower whole number, as the code's is rounded
to six digits; `rounded` remembers that one was, since from then on the realized
profit is off by what was cut. Where a signal gets its price and quantity from is
a free choice. `applied` and `saved`
are history variables that carry, next to a position in memory and in Redis,
the fills behind it. `unstored`, `unsaved`, `stale`, `torn` and `blind` remember
which promise a swallowed failure has already cost.

### StrategyGate

`_handle_signal` as `pc`, the handler of SIGTERM as `handler`. Both are on the
main thread: the handler may begin between any two steps, the interrupted step
waits for it (`Runs`), and it waits for ever for a lock that step holds
(`CloseLog` at `"write"`, `Snapshot` at `"count"`; only a kill ends that, which
is what `run_all.py` does after ten seconds). `window` is the one queue per
strategy that serves the hour and the day, pruned from the left by the date of
the signal; dates may lie up to `Lateness` in the past, since `emit` takes them
from the strategy.

### LiveStore, GreeksEngine

One contract of one index. `latest` is the contract's own key, `chain` its field
in the chain's hash. `set_option_tick` and `merge_option_oi` are the same four
steps for either thread: `Read`, `SetLatest`, `SetChain`, `Publish`. A depth
frame is a merge on the websocket's thread. A quote comes without open interest
(the socket drops it) and keeps the stored one; a merge comes without a quote and
overlays its own. `clean` is a history variable: the fields that no writer has
written back stale, and whether the two copies were written together. Writes and
publications of index ticks are assumed not to fail; the broker's open interest may change at
any time, a poll or any call of a write may fail.

`GreeksEngine` takes one message at a time from the bus. An option message is
computed with the spot in Redis, which may be ahead of the index messages still
on the bus; an index message that moved the spot by the trigger recomputes the
chain with the spot of the message (`Recompute`). Any of these computations may fail,
any number of times, and is then only logged. The spot an index message is compared with
is remembered before (`greeks.py:375`), so that a jump whose recomputation failed is
passed over for good; `jumps`, the history of the index ticks that must reach the greeks,
drops it. Which spot the cached greeks were computed with is the number of the index tick,
`greeks`. The chain is one contract, so that a recomputation that fails halfway through
several is one that failed. What Black-Scholes makes of the spot is left out.

### EntryRules, RegimeGate

`EntryRules` has the pure functions of the scalper, in the order the code calls
them: the five triggers, their agreement, the walls and their unwinding, the
contract, the six exits and the levels, the regime without a model. A look at the
market is a record of what they read; a ratio or a threshold that is a parameter
of the code is a constant or an outcome.

`RegimeGate` runs them on one index and two threads: `"feed"`, the subscriber, and
`"timer"`, `_manage_loop`. `Ask`, `ReadStamp` and `ReadRegime` are `_regime_for` up to its
first call-out, `Lookup`, `Call`, `Put` and `Degrade` are `RegimeClient.classify`, and
`Settle` is what `_regime_for` does with the answer. The memory is two attributes, the
decision and its stamp. `engine.py:441-442` read the stamp, then the decision;
`engine.py:453-454` write the decision, then the stamp; neither holds a lock, and each
access is a step of its own here (`pc` "ask", "recall"; "store", "mark"). A thread keeps in
`job` what it read before the call and uses it after. History fields: `asOf`, as of when a
regime was worked out, at the latest the start of the cache's bucket; `stored`, when it was
put in memory; `crossed`, that the threads came between each other's two accesses. Several
reads of the market between two call-outs are one look. Any of the reads of Redis may raise
(`Raise`): the subscriber's tick is dropped, the manager's thread ends. A bought contract
costs its quote and `Slippage`; stop and target follow the quote, the cap follows the cost.

Seen on the way, and modelled as the code has it: the book of the put votes for
calls when it is bid for; calls win when both sides have agreement; the docstring of
`build_exit_levels` says the tighter of two buffers, the code takes the wider;
`entry.py` speaks of the highest strike, the code takes the nearest; the answer of
the model is thrown away when the cache refuses it; two threads may call the model in
one interval; the open interest to compare with is not renewed while a position is held.

### AlertNotifier

Counters, publishers, health and notifier of one index. Times are kept as ages that
stop growing where they stop to matter, lives of keys as what is left of them. `tick()`
of the notifier is `Begin`, then for every new alert `Fire`, `Mark`, `Unmark`, then
`Fired`, then for every resolved one `Resolve`, `Remark`, `Forget`; Redis may go away
and come back, and the process restart, between any two. "gaps" stands for every
check of a published number against a threshold. Every process publishes its own
counters over `tpp:metrics`, so that `hash` is what the last one wrote. During an
outage the metrics are missing, and a rule that needs them looks resolved. The marker
of a resolution must live at least as long as the key of its alert
(`NotifierAssumption`; in the code an hour against twice `notify_dedup_seconds`: it
holds for cooldowns of up to half an hour). A key that expires before its alert ends
leaves nothing to resolve.

### ReplayRun

One index, one option, a strategy that signals every candle and every set of greeks at
their time. A candle is the sequence of its prices. `wal` is what was recorded, in the
order of arrival; Postgres holds the same ticks and the candles a faultless live system
makes of them. `rest` is what each source still has to yield; `heapq.merge` is the
choice of the head that comes first. An event is taken in by one step; the signals it
raised are `due` and pass the cooldown and the file one by one (`HandleSignal`), so that
a kill can come between two of them. `phase` is the loop over the events or the end of
the run, whose last buckets raise signals too. `file` is `signals.jsonl`, opened to
append; `out` is the part this run wrote. The risk rules (`--no-risk` leaves them out) are
those of `StrategyGate`. A candle of the source is dispatched beside the one built of
the ticks, although a comment (`sources.py:31`) says that aggregation is skipped.

## 4. Runs

| run | instance | what it shows |
|---|---|---|
| `scalp` | 2 indices, 1 contract, cap 1, breaker at 2 losses, 1 midnight, 2 trades, 1 death | all of section 5 below for the engine, and the refinement of `PositionSlots` |
| `scalp_lost_trade` | 1 index, 3 trades, no death | **finding**: "1 position / index" does not hold |
| `candles` | 2 buckets and a half of 2 clock steps, 2 prices, ticks up to 1 step late, 4 ticks, 2 deaths, 1 failed write | exact, kept, closed in time by the sweep, not changed by a restart |
| `wal` | fsync every 2, 5 appends, 2 segments, 2 deaths, 1 fault (of a write, a sync, a rotation, the counter or a close) | durability, bounded loss, ascending numbers, refinement of `AppendLog` |
| `ingest` | 2 keys, cache 1, batch 2, 4 messages, 1 signal, 1 kill, 2 lives, 1 failing write or close | WAL first, exact dedup, at most a batch lost by any end and one tick by a shutdown that closed the socket, a shutdown ends |
| `orders` | 2 instruments, quantities 1 and 2, prices 60 and 110 (blends of both are whole for equal quantities only), fee 1, 3 signals, 1 death, 1 fault | average cost, what a restart finds |
| `signals` | 1 strategy, 2 instruments, cooldown 2, caps 1 per hour (0 steps) and 2 per day (3 steps), up to 1 step late, 3 signals, 1 restart, 1 fault | cooldown, both caps, log before network |
| `chain` | 1 contract, 2 spots a trigger apart, 2 quotes, 2 index ticks, 1 depth frame, 2 messages on the bus, 1 failing call of a writer, any number in the engine | what a race can spoil and what repairs it, no jump passed over |
| `alerts` | a check of a counter and one of the feed's age, 2 publishers, cooldown 1, key 2, marker 3, 1 outage or restart | cooldown, one resolution, a dead feed is announced |
| `replay` | widths 2 and 4, all logs of up to 3 ticks at 4 times in any order, 2 prices, each of the 3 sources, 2 runs | exact candles, a complete end, no look ahead, same input, same output |
| `regime` | 2 strikes, 3 looks at the market and 1 move, an answer against the market, interval 2, time stop 1, 2 clock steps, 1 fault | even-handed entries, no stamp ahead of its regime, overdue positions sold |
| `regime_model` | as `regime`, with time stop 2 and 4 clock steps | **finding**: the rupee cap waits for a call to the model |

Configurations to run by hand show the other disagreements of section 6:
`MCScalpTimeStop`, `MCScalpHalt`, `MCCandlesImmutable`, `MCIngestSignals`,
`MCSignalsLog`, `MCChainQuote`, `MCAlertsOutage`, `MCReplaySame`, `MCRegimeReplay`
(`tlc -config MCScalpHalt.cfg MCScalp`, and so on); TLC finds a violation in each. The type
invariants, and `NoEarlyClose`, `RedisIsCurrent`, `PublishedIsStored`,
`PairingIsLastLine`, `HaltLiftedByStampOnly` and `BookNeverAhead`, hold in the runs of
their modules when they are added to the configuration; `MCRegimeAge` (one market, six
clock steps, no fault) holds `RegimeIsRecent` and `AnswerIsFresh` over three intervals.

### Properties

*Critical engine.* `OpenWithinCap`: the cap holds although the gate is three
steps ahead of the assignment. `HeldIsUnsold`: memory and log disagree about a
trade for the length of one close only. `SoldOncePerThread`: no thread
writes two exits of a trade (one of each does happen), and the reconciliation writes none of
a trade that has one. `CircuitHalts`: no streak at the
limit without a halt or a thread about to set it. `RestartLeavesNoOpenRow`: the
readers of the log. `TimeStopFires`: a due position is released on a silent feed while the
manager's thread lives. `ImplementsSlots`: the refinement.

*Candles.* `UnspoiledCandleIsExact`: a stored candle is the fold of its ticks.
`NoBucketLost`, over deaths and failing writes.
`UnspoiledCandlesAreImmutable`: a restart that stores a bucket once more stores the same
candle. `BucketIsClosed`: the sweep closes an illiquid bucket.

*Log.* `ReturnedSurvivesKill`, `LossIsBounded` (records per death, per fault and
per short write), `SeqAscendsWhileCounted` (until a kill, or a counter that was not saved
or not read), `ImplementsAppendLog`.

*Ingest.* `WalFirst`, `DedupIsExact`, `ShutdownEnds` (for one signal).
`StopLossIsBounded`: a process that ends, killed or not, leaves at most a batch unstored; a
shutdown that closed the socket and ran to its end, at most the tick of the callback it
overtook. When the close of the socket fails, later callbacks refill the buffer.

*Orders.* `CostBasis`: quantity, average and realized profit are what the fills
behind the position make them, over openings, additions, closes, turns and
restarts; the profit to the last digit until an average is rounded. `SessionIsSum`: the session's profit agrees with the positions'.
`LostFillsAreBounded`: a death costs the book one fill at most.
`AnnouncedSurvives`: what `pnl.tick` said stays said.

*Strategies.* `CooldownHolds`, `RateHolds` (of signals that one process
admitted; a restart forgets both), `LoggedFirst`.

*Chain.* `CleanFieldsAreCurrent`: price, open interest and the agreement of the copies
go wrong by a race or a failure only, and a later write repairs them.
`OpenInterestSettles`: when the market rests, the poller brings both copies to the
broker's open interest. `NoJumpMissed`: once the bus is empty, the greeks are not older
than any jump of the spot into the contract's range whose recomputation went through,
whatever failed before or after it.

*Alerts.* `RefireIsCooled`, `ResolvedOnce`: no message is repeated unless one went
unrecorded. `IngestDeathIsAnnounced`: although other publishers keep the metrics fresh.

*Replay.* `BuiltCandlesAreExact`: at any time the candles dispatched are exactly those of
the ticks read, once and in order. `OnlyALateEndLeavesABucket`: when the end of a run
leaves a bucket out. `GreeksSeeNoFuture`: over every merge of sources, for logs in the
order of time. `RunsAgree`: a second run, after a kill or not, writes the same.

*Regime.* `EntryIsEvenHanded`: triggers and regime turned around give the opposite entry
(the tie it excepts, both sides with agreement under a neutral regime, is met by the
theorem only: votes of one look of this instance never stand on both sides).
`RegimeIsRecent` (by hand, and proved): less than two intervals, one of the cache and one of the memory, however
slow the call, unless the threads crossed. `AnswerIsFresh`: even when they did, the regime
was stored less than an interval before the question, so that its age is bounded by the
interval and the length of the call behind it; an old slow decision can stand under a
newer stamp, but no stamp over an older decision than itself. `OverdueIsSold`: whatever
the model does, while the manager lives.

### Bounds and why they are enough

Every counter that would grow for ever is capped in a guard by a constant whose
name begins with `Max`. Two indices against a cap of one is the smallest
instance where the cap can bite; two trades of one index suffice for every
overlap of an old close with a new entry (the finding that needs a further trade
has a run of its own with three); two losses reach the breaker; one midnight
separates two dates; one death gives a restart. Two and a half buckets with a
tick that may be one step late give every order of tick, roll, sweep and late
tick; two deaths allow one during the recovery of another. Five appends with an
fsync every two cross a period twice, and a death after a death is where
unsynced lines of an earlier process matter. The cache of one key in `ingest`
already evicts; the buffer of two rows fills once and is left half full once.
Three fills of quantity one or two
open, enlarge, close in part, close and turn a position, and one is left for the
other instrument. The prices give averages that are whole and averages that are cut. Three signals fill the
day's cap of two and meet it; one may be dated back before the one it follows.
In `chain` the two spots are a trigger apart and on the two sides of
the contract's range, so that a jump brings it into range and out; two messages on the
bus are what it takes for one to overtake the other. In `alerts` the key lives a
step longer than the cooldown and the marker a step longer than the key, the closest
the assumption allows. In `replay` three ticks give a roll, a late tick and a tick
after it in any order, and the wider timeframe closes together with the narrower. In
`regime` one move of the market separates what a thread read from what it uses, and
the model answers against the market, so that its answer and the rule of thumb differ; two clock steps are one interval, so that a regime
can be asked for, overtaken, and asked for again when it should no longer be used. Two
intervals, which `RegimeIsRecent` is about, are in `MCRegimeAge` only.
`CHECK_DEADLOCK FALSE` is set where the system may really stop: every counter
used up.

### Fairness

* `ScalpEngine`: the clock moves; a handler under way runs to its end; the
  manager comes back to a due position every second and, since the chain cache
  keeps the last price of a contract whose feed went silent, meets a usable
  price in the end (strong fairness of a pass with a usable price, because the
  position is not due continuously: closing threads disable it). Nothing is
  assumed of the subscriber, whose feed may be silent, nor of a restart.
* `CandleEngine`: the clock, the closer's sweep, whoever holds the lock. No tick
  and no restart is promised.
* `IngestPipeline`: a message and a shutdown that have begun go on. No message,
  signal or start is promised.
* `GreeksEngine`: its loop, a write that has begun, and the poller's next successful
  round; no quote, index tick or depth frame is promised.
* `AlertNotifier`: time passes and the notifier's rounds go on; the feed, the
  publishers, Redis and a restart are promised nothing.
* `RegimeGate`: the manager polls every second and its calls return, since the SDK
  gives up on a call by itself; the subscriber ends what it has begun, but no tick has to
  come.
* `WriteAheadLog`, `OrderBook`, `ReplayRun` and `StrategyGate` have safety properties only.

## 5. Proofs

Each group of modules proves theorems of one component for every value of its
constants, from the named assumptions of that module and nothing else.

About `ScalpEngine`, for any finite set of indices and any contracts, limits and
bounds (`IndicesAssumption`, `LimitsAssumption`):

* `TypesHold`, the type invariant. `TypeInv` adds that a thread under way has an index
  and a position to work on, and that a dead process has no threads.
* `CapHolds`. The cap is not inductive: the gate and the assignment are separate steps.
  The strengthening `EntryHasRoom` says that while the subscriber carries a trade past
  its gate, its index is free and the open indices are still below the cap; it is kept
  because only the subscriber assigns a position, and the manager can only free one.
* `BreakerHolds`. `CircuitHalts` is inductive, because `HaltIndex` reads the streak
  again and a reset clears both at once.
* `HaltsAreLiftedByStamps`, an action property, from the actions alone.
* `HeldTradesAreUnsold`. The inductive invariant `TradesInv` says: the numbers in use are
  at most `trades` (`NumbersUsed`); the number the subscriber carries is in no position
  and no other job (`NewTradeIsNew`); no two indices hold one trade (`OneHolder`); a
  thread that sells carries a trade of its index (`SellsOwn`); a held trade has its entry
  line (`HeldIsEntered`); a held trade with an exit line has a thread about to release
  its index (`ExitedIsReleasing`). Each part is needed to keep another: without
  `NewTradeIsNew`, an assignment could bring back an exited trade.
* `EngineImplementsSlots`: every step is a `Fill`, a `Free`, a `FreeAll` or a stutter of
  `PositionSlots`. `EntryHasRoom` is what makes `AssignPosition` a `Fill`.
* `PairingIsRight`: the readers' walk over the file, a recursion over its lines, against
  its reference definition, for every file. Induction over the file is replaced by its
  least counterexample: `IsOpen` says what the dictionary holds after the first lines, and
  the least number of lines after which it does not leads to a contradiction.
* `RestartClosesRows`, from `PairingIsRight`: the synthetic exits follow every line of
  their keys, so that no entry is the last line of one.
* `SalesAreOncePerThread`. `LinesInv` relates the lines: a trade is entered once
  (`EntriesOnce`), an exit follows the entry of its trade with the same key
  (`ExitsFollow`), and what a thread is about to write agrees with that entry
  (`KeysAgree`). They are what a restart needs, which closes by key and not by trade.
  `SalesInv` says that every exit line of a held trade is by a thread that is about to
  release it (so none is by the reconciliation), and that a thread about to sell has no
  line of that trade yet.

About `WriteAheadLog` (`LogProofs`, from `LogAssumption`). What a reader returns is a
recursion over lines and segments; `WholeLines`, `JoinedLine` and their neighbours say what
one more line, a rotation, a sync or a loss does to it.

* `LogImplements`: every step is a `Give` or a loss of `AppendLog`, or a stutter for
  its reader. `RecordInv` says that what is read is in order and older than the record
  under way; `RemainsRead`, that what a power loss leaves is a subsequence.
* `ReturnedAreRead`. `KillInv` adds that no line is torn and that the record under way is
  in the file once it is written.
* `SeqsAscend`. `SeqInv` adds that, as long as no counter was lost, a process that ended
  has saved its last number, so that the next one goes on where it stopped.
* `LossesAreBounded`. A returned record is on the disk, or in the last segment where the
  next sync saves it, or `Stuck`: unsynced in a segment that is no longer written.
  `BudgetInv` bounds the stuck records together with what is still to be lost: the record
  that will join a torn line (`Joining`) and the one whose write was short (`Missing`);
  and the unsynced ones by the same and the appends since the last sync (`Slack`).

About `ReplayRun` (also in `LogProofs`: it reads that log; from `ReplayAssumption`). The
model sorts a finite set by rank, the number of elements that come before. `SortedEvents`
says that under the key `Before` the ranks are 0 to one less than the size, each once
(`RanksExist`), so that the result is the set in its order (`InOrder`).

* `ReplayTypesHold`: what is sorted is a sequence of events, each at the time of what it
  is about.
* `BuiltAreExact`. `ExactInv` says that what was dispatched of a timeframe are the candles
  of its buckets before the one in progress, in the order of time, and that the bucket in
  progress holds the prices of the places `InTime`. The step needs what one more tick does
  to the candles of all ticks (`OneMoreTick`): it ends those of its own bucket, unless it
  is late, and changes no other.
* `MergeKeepsTime`. `FutureInv` says that each source has only events in the order of time
  left, none before the last one read, and that the spot is no later than that one. The
  log is in that order by hypothesis, Postgres because it is sorted by time first.
* `EndsLeaveLateBuckets` (`EndInv`): what `maybe_close_stale` leaves.
* `RunsAlwaysAgree`. Runs take place one after the other, so that the actions of one cannot
  be set beside those of another. `After` gives the next state of a run as a function of its
  state alone, and `RunSteps` says that this is what the actions do: at most one stream
  comes first (`OneHead`: `Before` is asymmetric, and a tie goes to the earlier stream), and
  the file and earlier runs are not asked. `AgreeInv` then gives every run, under way or on
  record, a trace of such states from the same opening. Two traces agree as far as both go,
  none goes on beyond a completed run, and along a trace what is written only grows.

About `CandleEngine` (`CandleProofs`, from `CandleAssumption`):

* `CandlesAreClosedInTime`: `ClockInv`, also for the candle on its way out.
* `CandlesAreExact`, `BucketsAreKept` and `RedisHoldsTheBucket` share `SoundInv`, which says
  of each bucket nothing spoiled that the aggregator, Redis, the emission under way and
  Postgres hold the candle of the prices it took in, and that one of them does.
  The candle of one more price is `UpdateBucket` of the candle so far
  (`OneMorePrice`); a bucket in progress is not yet stored; the key in progress may lag by
  the tick whose flush is under way.
* `AnnouncedAreStored` (`StoredInv`): from the order of the four writes.
* `UnspoiledAreImmutable`: an action property, from `SoundInv`; a candle is stored
  again by a recovery only, whose bucket has absorbed nothing since.

About `StrategyGate` (`GateAssumption`: numbers, and an hour with its lateness
fits into a day):

* `StrategyGateProofs`:
  * `TypesHold`. `PrunedIsSuffix` says what the `popleft` loop leaves: an end of
    the queue, everything before it older than a day. The least index it needs
    comes from well-foundedness of the subset order on finite sets.
  * `CooldownIsKept`. The map `_last` is set before the risk engine decides, so the
    invariant has two more parts: the clock of a key is never behind a signal
    admitted for it (`ClockCovers`), and a signal that waits for the risk engine
    owns the clock of its key and is a cooldown after every admitted one
    (`PendingIsApart`).
  * `LogComesFirst`, from the labels after the line.
  * `RateIsKept`. The risk engine counts its queue, not the
    signals it admitted. `QueueCounts` relates the two: for every date at most a
    day before every signal so far, the queue has at least as many events from
    that date on as there are admitted signals. `PruningKeepsCount` (a surjection
    of index sets) keeps it over the `popleft` loop. `LatenessHolds` bounds how far
    a signal may be behind an earlier one; with it the start of any hour that
    holds the signal, and of any day less the lateness, is such a date. This is
    where `Hour + Lateness <= Day` is used, and why the day's cap is stated for a
    day less the lateness.

About `OrderBook` (`OrderBookProofs`, from `OrderAssumption`): the shared invariant
`BookInv` says that a fill is behind its own instrument only (`OwnFills`), and
that what Redis lacks of memory was refused or is the fill under way at its save
(`RedisFollows`).

  * `PostgresIsAhead`: with `OfferedFirst`, what the labels after the inserts say.
  * `AnnouncedFillsSurvive`: with `ToldAfterwards`, the fill under way is not yet
    announced, so a death that loses it loses nothing announced. `OwnFills` is
    needed when a save clears refused fills of one instrument: they are not those
    of another.
  * `DeathsCostOneFill`: every step but `Die` leaves the lost fills as they are or
    fewer, and `Die` adds at most the one under way (`LostSteps`).
  * `SessionsAddUp`. `SessionOK` says in which positions Redis may differ from memory:
    those with a refused fill and the one about to be saved (`RedisHas`). Hence the
    session that is saved is the sum of the positions in Redis once none is left, which is
    what a restart relies on. That a change of one value changes the sum over a finite set
    by as much (`SumChanges`) is proved by the least number of arguments for which it
    does not.
  * `BooksBalance`. `CostOK` says of Redis what `CostBasis` says of memory: every step but
    `ApplyFill` copies a position together with the fills behind it (`CopyingSteps`). What
    a position cost less what it realized (`Cost`) grows by the price and the fee of a fill,
    in each of opening, addition, partial close and turn (`FilledCost`), if the blend is
    whole; whether it is or not, the average stays within any bounds that hold for it and
    the price of the fill (`FilledAverage`). The sums over the fills of a position grow by
    one term when one is appended (`SumAppend`, from `TakeAny`: a sum does not depend on the
    order in which it is taken). Floating-point error is not part of the model.

About `IngestPipeline` (`IngestProofs`):

  * `LogComesFirst`. `LoggedOK` adds to `WalFirst` that whatever waits in the buffer, in
    a batch or in the callback is in the log, over kills that empty them.
  * `StopLossesAreBounded`. `SizesOK` bounds buffer and batch by the batch size, whichever
    thread flushes. `StopOK` says that once the socket is closed, either a shutdown has
    still to flush, or at most one tick is in the buffer, on its way to it or in the
    callback's insert (`Quiet`); it needs to know who holds the buffer's lock
    (`LocksOK`), since callback and shutdown empty the same buffer.
  * `DedupsAreExact`. `SeenOK` gives every key in the cache the last look at it
    (`LastLooks`): these ascend along the cache, and of a key that is not in the cache
    although it was looked at, the cache is full and all its looks are later
    (`Evicted`). A lookup permutes the cache (`Reordered`); as many different keys as
    the cache holds were then looked at since (`OldestIsFollowed`, by an injection).

About `LiveStore` and `GreeksEngine` (in `IngestProofs`, whose process they share; from
`StoreAssumption` and `EngineAssumption`):

  * `CleanFieldsStayCurrent`. `StoreOK` says of a thread that no write of the other
    overlapped that the fields it read are still those of the record (`ThreadKnows`), which is
    what its write-back relies on.
  * `JumpsReachTheGreeks`. `QueueOK` says that there are the prices of all index ticks by
    number, and a number up to which the engine has handled them: the later ones are on the
    bus, each once and in order, or about to be published (`Follows`); and the greeks are at
    least as new as every jump that did not fail, or its tick is among the later ones
    (`JumpOK`). An option message may bring the greeks past it and a recomputation back, but
    never behind such a jump, since the engine compares a tick with its predecessor, which
    is remembered also when its own recomputation failed.

About `RegimeGate` (`RegimeGateProofs`, from `RulesAssumption` and
`RegimeAssumption`): `IInv` says of each thread that what it carries fits its place
(`Fits`), and of the memory what follows.

  * `AnswersAreFresh`. `MemoryOK`: no stamp, in memory, read or about to be written, is
    later than the decision in memory was stored. It is kept since the decision is
    written before its stamp and the stamp read before the decision.
  * `RegimesAreRecent`. `PairOK`: while the threads have not crossed, stamp and decision
    are of one answer, or one thread alone is about to make them so. A regime out of the
    cache is younger than its bucket is long (`BucketIsRecent`), the memory keeps it for
    less than an interval after the question, and both stamps are times of the question.
  * `EntriesAreEvenHanded`: turning the triggers swaps the votes (`VotesTurn`).

About `AlertNotifier` (`AlertNotifierProofs`, from `NotifierAssumption`): `RuleOK` says,
rule by rule, that a key outlives the cooldown (`KeyOutlivesCooldown`), that a recorded
alert within its cooldown has its key, which says when it was sent (`KeyIsExact`), that
the round under way has seen it (`YoungIsKnown`), and that the marker of a recorded
resolution lives as long as the key (`MarkerOutlivesKey`).

  * `RefiresAreCooled`, `ResolutionsAreSentOnce`: action properties, from `IInv`. Here
    `KeyLife > Dedup` and `MarkerLife >= KeyLife` are used.

*Only model-checked*, while every safety property of a passing run is also proved:

* `TimeStopFires`, `OverdueIsSold`, `BucketIsClosed`, `ShutdownEnds`, `OpenInterestSettles`,
  `IngestDeathIsAnnounced`: liveness under fairness, with ENABLED.

## 6. Findings

With a run of their own:

* `critical/engine.py:375`: `_try_exit` asks for the regime before it looks at the rupee
  cap, so that a position beyond it waits for a call to the model;
  `src/src/trading/critical/README.md:49` says "hard-killed by Python, no LLM consulted".
* `critical/engine.py:399`: a close decided on an old position, finished after
  the same position was sold by the other thread and the index entered a new
  one, wipes the new position; its trade is never exited. `src/src/trading/critical/README.md`
  says one position per index.

By hand, with the configurations named in section 4:

* `critical/engine.py:428`: the manager's loop has no exception handler; the
  first raising call ends it, although it is there to catch time stops.
* `critical/engine.py:154`: `day_reset_date` starts empty and only index ticks
  stamp it, so the first one lifts a halt earned the same day.
* `candles.py:54`: after a sweep the aggregator is empty, and a late tick begins
  the closed bucket again; the stored candle is overwritten.
* `ingest.py:157`: a second signal during the shutdown waits for ever for a lock
  its own thread holds.
* `strategies/logger.py:53`: a signal that is recorded after the handler of
  SIGTERM closed the log has no line, but goes to Postgres and the bus;
  `src/README.md:366` says every admitted signal is in the file first.

* `storage.py:119` says that a merge overlays open interest "without clobbering
  LTP/quotes"; it writes back the quote it read, over one that came in between
  (`MergeKeepsQuote`).
* `ui/notifier.py:200`: the notifier reads its keys before it sends, in the Redis whose
  outage it should announce; an outage can end unannounced (`OutageIsAnnounced`).
* `src/README.md:411` says of a replay "Same inputs → same `run_id` → byte-identical
  `signals.jsonl`"; the second run appends to the file of the first
  (`SameInputsSameFile`).
* `critical/regime/cache.py:3` says that a replay hits the cached answer; the memory is
  looked at before the cache, and a decision can differ from what the cache says
  (`DecisionsReproduce`).

Met on the way, without a configuration of their own: `wal.py:127` saves the counter every
`fsync_every_n` appends, so numbers repeat after a kill, and by `wal.py:65` and `:143` after a counter that
could not be read or saved, although `wal.py:9` calls them monotonic
(`SeqAscendsWhileCounted` says when they are). `engine.py:453` of `critical/` writes a
regime and its time one after the other: with two threads an old, slow decision can stand
under a newer stamp (`RegimeIsRecent`, `AnswerIsFresh`). `greeks.py:375` remembers the spot
before the recomputation that may fail, and does not make up for it. `orders/engine.py:215` asks for the book's lock in the handler of
SIGTERM and deadlocks when it interrupted `apply_fill`; `strategies/engine.py:160`
and `:168` do the same with the logger's and the risk engine's lock, as
`StrategyGate` has it.

## 7. Abstractions, and what is not modelled

* A step between two call-outs is atomic. Races of single bytecodes inside a
  step (for example two threads inside `+= 1`) are not modelled.
* `reset_if_new_day` and a pass of the manager over all indices are per index
  where only the index matters to the properties.
* The closer reads `now` before it takes the lock; that only delays a sweep.
* An append to `trades.jsonl` does not fail; the code swallows the exception
  and has nothing that would repair it.
* A pub/sub message is lost by the choice not to deliver it; delivery is never
  assumed.
* Postgres either stores the rows of an insert or fails; the retry of a commit
  whose answer was lost is not modelled.
* The reconnect loop, the gap and freeze detectors of the ingest process have
  timers and logs and no effect on the state modelled here.
* Real arithmetic (Black-Scholes, averages) is out of reach of the tools;
  prices are small numbers or outcomes.
* Raising calls of the scalper's market view other than a read of Redis, and the reads at the
  start of an entry, where nothing has been done yet, are a tick that was not delivered.
* The arithmetic of the book is idealised: the realized profit of a position is rounded to
  four digits (`orders/book.py:115`) and the session's is not, and the fee is a constant.
* The handler of SIGTERM of the order process is not modelled; its process stops
  between two signals or dies.
* A step of the price grid at which a SELL fill rounds to zero, and any other order
  that does not validate, is an ignored signal in `OrderBook`.
* In `replay/`: the risk rules, exceptions of a strategy, an option past its expiry
  (`T <= 0`), the summary (which holds the wall-clock seconds of the run), `diff.py`
  and the backtest's report. The fingerprint of a log that still grows is not either.
* In `critical/regime/`: the feedback block of the prompt, and the rules the model is told.
* The sinks of the notifier, its history list, the checks of Postgres and of the log's
  directory.
* Authentication, the token a poller keeps for ever, the choice of an expiry, the
  supervisor's order of stopping, backup and retention: they read, parse or start
  others, or depend on the operating system and the broker.
