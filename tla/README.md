# Formal models of the quantitative trading system

This directory holds TLA+ modules that model the trading system in `src/`
(JavaScript, about 105 000 lines under `src/src`), TLC configurations that check
them on small instances, and theorems that TLAPS proves for every value of their
constants. Every definition is translated from the source; `PROJECT.json` maps
each one to the lines it stands for.

Paths below are relative to `src/src`.

## 1. The system and its parts

The program runs strategies against several exchanges. Market data reaches
strategies through an engine or through a shared service over Redis pub/sub; a
strategy's signal passes the risk checks, becomes an order, and the executor
keeps working on the order until it is filled, canceled or failed. Everything
runs in a Node.js event loop: there is no preemption, but every `await` is a
point where any other handler may run, and most state is shared by handlers that
await in the middle of their work. That, and a network that may fail after the
other side has acted, is where the system is hard.

| part | state | operations | interacts with | hard behaviour | what makes it correct |
|---|---|---|---|---|---|
| `utils/SafeCollection.js` | lock flag and waiters; a `Map` with 16 segment locks and a global one | `acquire`, `release`, `set`, `update`, `getOrCreate`, `compute`, `batch`, `clear`, `cleanupExpired` | used by executor, queues, monitors | release wakes a waiter that a newcomer overtakes; segment and global lock do not exclude each other | mutual exclusion, no lost wakeup, no lost update |
| `executor/orderExecutor.js`, orders | `orderInfo`, `activeOrders`, `orderMonitors`, statistics | limit order with retries, monitor, poll, cancel; market order | exchange adapters, account queues | four kinds of callbacks share `orderInfo` across awaits; lost answers; two timeouts (30 s queue, 60 s poll) | one driver and one open order at a time, nothing left unattended, no overfill, announced as filled once |
| `executor/orderExecutor.js`, account queues | per-account queue, active count, global queue | `executeInQueue`, `getAccountQueue`, `cleanupIdleAccounts` | order executor | nested queues, check-then-delete of idle accounts | concurrency limits, counts that return to zero |
| `executor/orderExecutor.js`, rate limits and nonces | back-off per exchange, last nonce and clock offset | record, wait, clear; next nonce, conflict | order executor | resets while others wait | back-off bounded, nonces increase |
| `risk/manager.js` (the one the program uses), `risk/RiskManager.js` | account, daily and all-time equity, `tradingAllowed`, `pauseReason` | periodic check, refresh, day's reset, pause and resume by hand, emergency close | runner, executor, API | checks overlap: what was read before a close decides after it | a lasting stop is lifted only by hand, a day's stop ends, an emergency is acted on |
| `risk/CircuitBreaker.js` | state, counters, sliding window | execute, trip, probe, reset | any caller of a remote service | late results of calls from an earlier state | open blocks, half-open is limited |
| `main.js` (`TradingSystemRunner`) | virtual positions, candle counters, timers | signal to order, emergency close, position sync, persistence, start, shutdown | all of the others | a signal, two closes of one emergency and the API trade one position; answers in any order; restart | closes never turn the position round, the book agrees with the exchange, trades keep their distance |
| `database/redis/*` | order and position hashes with status sets; connection pool (never instantiated) | insert, update, close, read | runner | several commands for one change, calls that overlap | the sets agree with the hashes, the newest event wins |
| `database/clickhouse/*` | write buffer, archive schedule | write, flush, retry, stop; archive | ClickHouse | writes during a flush, stop during a flush, duplicates on retry | nothing lost, order kept, at least once |
| `exchange/*` | adapters, shared balance cache with a Redis lock | requests, cache fill | Redis, exchanges | several processes fill one cache; lock expiry | balances never go back, staleness bounded |
| `marketdata/MarketDataEngine.js` | a main socket for each exchange, a pool for Binance, subscriptions, routes, timers | start, stop, subscribe, unsubscribe, reconnect, data timeout | exchanges, runner or service | close events, timers and failed attempts of old sockets meet new ones | one main socket, subscribed is what arrives, keys keep a connection |
| `services/MarketDataService.js`, `services/MarketDataSubscriber.js` | heartbeat in Redis, subscriptions of the engine; filter, `serviceAlive` of each container | start, stop, request, publish; connect, subscribe, unsubscribe, check | engine, Redis pub/sub, `main.js` of each container | at-most-once requests, start order, shared keys, checks that fail or overlap | data in order, requests served, a right word on the service in bounded time |
| `executor/executionAlpha/*` | iceberg and TWAP/VWAP tasks, slices | start, pause, cancel, slice loop, finalize | order executor | pause and cancel race the loop | slices sum to the order, finalized once |
| `executor/ExchangeFailover.js`, `executor/NetworkPartitionHandler.js`, `lifecycle/GracefulShutdown.js` | health per exchange; sync state; shutdown phases | health check, failover; detect, repair; shut down | nothing in `src/` instantiates them outside tests | overlapping checks, state read before an await | - |
| `executor/ExecutionQualityMonitor.js` | fill statistics | record, report | executor | none (bookkeeping) | - |
| `middleware/*`, `api/*` | sessions, rate limit windows, routes | authenticate, limit, serve; close a position, pause, resume | API clients, runner, risk manager | window boundaries; calls beside the runner's own | limits hold |
| `logger/*`, `logging/*`, `monitor*/*` | alerts, cooldowns, metrics | alert, notify, export | Telegram, Prometheus | cooldown and queue order | an alert is not sent twice in a cooldown |
| `backtest/*`, `optimization/*` | simulated account, positions | step, match, report | strategies | numeric bookkeeping | cash and positions balance |
| `capital/*`, `portfolio/*` | allocations, weights | allocate, rebalance | strategies, risk | allocations in flight | allocations do not exceed capital |
| `strategies/*`, `factors/*`, `analytics/*` | indicators, signals | on tick, on candle | executor | mostly sequential numeric code | per-strategy state machines |

Outside `src/src`: deployment files, `scripts/`, `config/`, `web/` (a Vue front end),
`examples/`, `tests/` (two API test files). They hold no core logic.

## 2. Plan

The order is by how much damage a wrong interleaving does and how little the two
existing tests reach it. Done: 1 to 12.

1. `AsyncLock` (with `AsyncLockState`), the mutex everything else relies on.
2. `OrderExecutor`, one order with its retry loop, monitor, poll, cancel and the
   exchange.
3. `SafeMap`, the map operations over segment locks; each lock refines
   `AsyncLock`.
4. `AccountQueues`, the nested queues and their active counts.
5. `TradeWriter`, the buffered writer, which refines `PrefixLog`.
6. `CircuitBreaker`; `SharedBalanceCache`.
7. `MarketDataEngine` over the channel tables of `MarketChannels`.
8. `AdvancedRiskManager`, which refines `TradingGate`.
9. `TradingSystemRunner`: strategy, risk manager, executor and position together.
10. `RuntimePersistence`: what the runner writes to Redis.
11. `SharedMarketData`: the service, Redis and the containers.
12. Proofs about all of them, in eight modules (section 6): `Locking_proofs` for 1, 3
    and 4, `Shared_proofs` for 11 and the balance cache, `Persistence_proofs` for 10 and
    the writer, and one module for each of the others. A module that holds the proofs
    of several components extends them all, the names of those components being
    disjoint (`TWInit`, `SMNext`, `AQSpec`), the way to add those of a further one.

Left:

13. Iceberg and TWAP executors over an abstract order executor (pause and cancel
    against the slice loop); the archiver (read from Redis, insert into ClickHouse,
    delete); rate limits and nonces; `SafeSlidingWindowCounter`.

## 3. How the code becomes actions

JavaScript runs the code between two `await`s without interruption. One action is
one such piece, from the event that starts it (a call, a timer, the answer of a
call that was awaited) to the next `await` or the end of the handler, with every
assignment it makes on the way. What runs between two pieces of one handler is
whatever the other actions of `Next` may do, and that is the concurrency checked
here. A remote side (the exchange, ClickHouse, Redis) has actions of its own, so a
request may have been executed although its answer is lost or its client gave up.

Comments call a definition that is not the code's behaviour a *mutant*: a small
change of the definition below it, the way a plausible bug would change the code.
`PROJECT.json` names one for every property and TLC finds the property violated
with it; no run uses them.

### AsyncLock, AsyncLockState

`class AsyncLock` (`utils/SafeCollection.js:15-59`). `AsyncLockState` holds the
object and what `acquire()` and `release()` do to it, shared with `SafeMap`;
`AsyncLock` adds the tasks. `Call` is `withLock()` up to the `await` inside
`acquire()` or to the caller's function, `Resume` a waiter whose promise was resolved
and which evaluates the `while` condition again, `Release` the `finally` block.
`release()` clears the flag *before* the resolved waiter runs, so `Call` of a third
task may take the lock in between; the waiter then queues again at the back.

### SafeMap

`class SafeMap` (`utils/SafeCollection.js:104-428`): operations on a key under the
lock of its segment (`Atomic`: one synchronous piece; `Compound`: the caller's
function is awaited between the read and the write), operations on the whole map
under the global lock (`batch`, `safeForEach`, `clear`), operations without a lock
(`setSync`, `deleteSync`, `clearSync`), and `cleanupExpired()`, which collects keys and
deletes them one by one. `safeForEach()` awaits its callback, which may change the raw
map during the walk (`Visit`). `kinds` is the mix of operations an execution uses, chosen in
`Init`, so that one run covers them all and `LockedIsAtomic` can say for which
mixes it holds. Values are `fresh` or `stale`.

### OrderExecutor

One limit order of `SmartOrderExecutor` (`executor/orderExecutor.js`). `status`,
`amount`, `filledAmount`, `resubmitCount`, `exId` are fields of `orderInfo`, `active`
its membership of `activeOrders`, `monitor` its entry in `orderMonitors`.

| action | code |
|---|---|
| `Start`, `QueueTimeout` | the task put into the account queue, and the queue's timeout, which settles the promise and not the task |
| `SendCreate`, `Created`, `CreateFailed` | `_executeOrderWithRetry()` (1083-1198) around its `createOrder`, with the class `_analyzeError()` gives an error |
| `PollFilled`, `PollFailed`, `PollTimeout` | `_waitForOrderCompletion()` |
| `TimerFires`, `GaveUp`, `Fetched`, `CheckCanceled`, `Resubmit`, `CheckFailed` | `_checkAndResubmitOrder()` (1473-1583), cut at its awaits |
| `CancelCalled`, `CancelReturnsTrue`, `CancelReturnsFalse` | `cancelOrder()` (2027-2072) |
| `ExchangeCreate`, `ExchangeFetch`, `ExchangeCancel`, `Trade` | the exchange: external, from how the code calls it |

`Main` runs the task, `Checks` are timer callbacks; a callback that resubmits runs
the same retry loop and waits in the same poll. Threads in `Driving` may act on the
order; a thread that only waits for the final status may not.

`Plans` says what may disturb an execution: which calls fail and how often, and
whether the user cancels; `Init` chooses one, so that one run covers several.
`NegligibleDen` is the 1 % of line 1535: a remainder below `amount / NegligibleDen`
counts as filled, and the order at the exchange is left as it is. `LeftOpen` is that
order, the one exception `OpenIsAttended` and `OrderSettles` make. What was bought is a
set of units, an order's number with the number of the fill, so that sums over orders
are cardinalities.

### AccountQueues

`class AccountLockManager` (`executor/orderExecutor.js:150-360`). An order waits for
a slot of `globalQueue` and, holding it, for one of its account's queue (`StartGlobal`,
`StartTask`); PQueue is external. `GetQueue`, `Count`, `Leave` are the `SafeMap`
operations of `executeInQueue()`, atomic on a key by `LockedIsAtomic`; `QueueTimeout`
frees the slot while the task stays in `running`. A task may never end.

### TradeWriter, PrefixLog

`class TradeWriter` (`database/clickhouse/TradeWriter.js`), with both of its modes.
A trade is its number in the order of hand-over, so "in their order" needs no
history. A job is a chain of awaits: a flush or a synchronous write in an insert, in
the retry delay, or between `flush()` and what follows it. `InsertFails` may leave
rows on the way to the table (`late`) that `ArrivesLate` stores after the retry.
`PrefixLog` is what a reader of the table may rely on: the rows found are those of
the first n trades, and n only grows. `TradeWriter` implements it with
`stored <- Range(db)`; the direct writes of the synchronous mode overtake each other,
so the mapping gives them up.

### CircuitBreaker

`class CircuitBreaker` (`risk/CircuitBreaker.js`). `Execute` is `execute()` up to the
await, `Succeed` and `Fail` what is recorded when the call settles, in whatever state
the breaker is by then. Time is counted in buckets of the sliding window; `age` and
the consecutive counters stop at the bound the code compares them with, which
changes no comparison. `won` and the value `"probe"` of `at` are history variables:
which calls and successes belong to the present half-open state.

### SharedBalanceCache

`_fetchBalanceShared()` (`exchange/BaseExchange.js:283-383`) over
`exchange/SharedBalanceCache.js`. Each process has a role and a clock that never
change. The state of a fetch belongs to a call, not to a process (`Calls`, `Of`), because
the calls of one process overlap: the interval of `risk/manager.js:372` starts one
whether or not the last one is done. A leader takes no lock (332-336), so its calls may
fetch at the same time. A record carries its age and who stamped it instead of a date;
`AgeMs` is the difference the code computes with its own clock. A balance is the
version of the account it was read from. `floor` is the newest balance the process had
when the call began; `unguarded` is a history variable: two calls may have filled the
record at a time, because a lock expired before its owner had stored the balance or
because a leader's call fetched while another did.

### MarketDataEngine, MarketChannels

`class MarketDataEngine` (`marketdata/MarketDataEngine.js`) for one exchange and one
symbol. A socket is a number in the order of creation and keeps its state after the
engine has forgotten it, because its events still arrive: `MainOpens`, `MainCloses`,
`MainConnectFails` and the same of `Pool` are the handlers of the two kinds, with the
promise reactions that run before anything else (a rejected connection attempt runs
`_attemptReconnect()` twice, once in the error and once in the `catch` block).
`TimerFires` and `ListTimer` are the reconnections that wait, `DataTimeout` the check
of a silent socket, `Start` and `StartReturns` the two ends of `start()`. `Subscribe`
and `Unsubscribe` act on a set of types, as `subscribe()` does. `MarketChannels` holds
the tables: the channel an exchange sends a type on, and what a message of a channel
is dispatched as. Two types that share a channel are where they differ.

### AdvancedRiskManager, TradingGate

`class AdvancedRiskManager` (`risk/manager.js`), for the sum over the exchanges. The
interval starts `PerformRiskCheck` every second whether or not the last one has ended;
a check runs up to the close or the reduction it awaits (`closing`, `reducing`,
`deleveraging`) and `Closed`, `Reduced` and `Deleveraged` go on from what the state is
then. `AccountAnswered` is a refresh, in any order of the answers; `DayPasses` lets the
next check run the reset; `ManualPauseTrading` and `ResumeTrading` come from
`api/routes/risk.js`. `TradingGate` is what the rest of the program may rely on: a stop
that is to last ends in a call of `resumeTrading()` and in no other step, though the
day's reset sets the same two fields. To tell the two apart the calls are counted, by
the history variable `resumed`. The mapping is `held <- risk.reason \in Held`,
`resumptions <- resumed`.

### TradingSystemRunner

`main.js` for one symbol of one exchange: `Signal`, `Accept`, `Refuse` from the
strategy's signal over the synchronisation it awaits to the order (a signal of a ticker
or a book may come before the first candle has closed; its interval is not tested and
its candle not noted); each emergency closes
twice (`TriggerEmergencyClose`: once by the event the runner handles, once by the
manager's own call), `ApiClosePosition` once more; `FetchPositions`, `Execute`,
`NothingToReduce`, `Fails`, `Filled`, `AnswerLost` take market orders
(`_executeMarketOrderDirect()`) to the exchange and back in any order. `Answer` has
three outcomes: the usual one (`Filled`); the answer does not tell what was filled, and
the whole amount is booked (1345); the queue gave the call up after 30 s (806-824), so
`executeOrder()` has reported a failure and the trade's candle is not noted
(`main.js:2661-2666`). The last two are faults (`FilledUnnoticed`); a trade is `filled`
when its candle was noted and else `unnoted`. `pos` is the
position at the exchange, `book` the runner's `_virtualPositions`. `danger` stands for
the account beyond an emergency threshold; what happens inside the manager is
`AdvancedRiskManager`. `Restart` loses everything but the position. `strayed` and
`overlapped` are history variables: they name the causes for which `BookAgrees` and
`SpacedUnlessOverlapping` do not hold.

### RuntimePersistence

`_persistOrderState()`, `_syncRuntimePosition()` of `main.js` through
`database/redis/OrderStore.js` and `PositionStore.js`. An event of the executor starts
calls nobody waits for; each is a command on `wire`, which the one connection answers in
the order of sending, and the answer sends the next (`GetById`, `ReadOld`, `Insert`,
`Update`). The commands of one transaction are one step; what `update()` decides its
transaction from was read before it. `NullWritten` chooses whether the
client writes a field whose value is null: `update()` hands it one, and the pinned
client refuses it. `newest` and `missed` are history variables: the last event of a
record, and the records a command of which failed since.

### SharedMarketData

`services/MarketDataService.js`, Redis and `services/MarketDataSubscriber.js` in each
strategy container, with what `main.js` makes of them. Redis keeps the heartbeat
(`beat`, ticks to its expiry) and delivers requests and data only to whoever listens.
`Starts` is `start()` up to the first heartbeat, `Listens` the rest; between them nobody
hears a request. `Handle` and `Opened` are the two ends of the request handler, any
number of which may wait for the engine. `Emits` publishes a datum on its key's channel,
and the answer (`Published`) publishes it on `market_data`; both commands of many data
mix on one connection, which `Drops` sends again after it was lost. A subscriber's
status checks (`ChecksStatus`, `StatusKnown`, `StatusUnknown`) read `serviceAlive`
before the await and compare it after; `told` is what `main.js` heard last. `Plans`
plays the part it does in `OrderExecutor`.

## 4. What the runs check

Twelve runs, in `PROJECT.json` with the properties of each. The type invariant of a
module is an invariant its proofs use, or is checked by adding `INVARIANT TypeOK` to a
configuration. `CHECK_DEADLOCK FALSE` stands where executions end because calls, orders
or sockets are bounded; in `CircuitBreaker` and `SharedBalanceCache`, which never end,
it makes no difference.

| run | bounds | why they are enough |
|---|---|---|
| `async_lock` | 4 tasks, 2 calls each | a holder, a woken waiter, a newcomer that overtakes it and one more waiter in the queue; the second call lets the same task come back |
| `order_retry` | 3 units, a remainder below a half of the amount is negligible, 2 resubmissions, 3 callbacks; 2 failed calls, or 1 (cancellations included) and a `cancelOrder()` | partial fills that are resubmitted and one that is negligible (with 3 units 1 % never would be), a resubmission nested in a callback that was itself started by one; two failures hit two different handlers, the cancel meets every await of the others; one callback more than resubmissions is the most there can be |
| `safemap` | 2 tasks, 2 keys of 2 segments, 1 call each, all mixes | two operations are enough for a lost update and for two locks that do not see each other |
| `trade_writer` | 2 callers, 3 trades, batches of 2, buffer of 2, 2 failed inserts, 2 attempts | a batch fails for good while the third trade waits behind it; overflow happens |
| `account_queues` | 3 orders of 2 accounts, 1 slot for each account, 2 global slots, 1 cleanup | two orders of one account take both global slots, the other account waits |
| `circuit_breaker` | 3 calls in flight, thresholds 2, 1 probe, window of 2 buckets, 1 `trip()` or `reset()` | a call of each state in flight together, both trip conditions reachable |
| `balance_cache` | 2 processes, 2 calls of one and 1 of the other, clocks 2 ticks apart, 5 mixes of roles (all `auto`, or one that fills the cache, on either side, and a follower), ttl 1, stale 2, lock 1, wait 1, 1 failure or crash, 2 versions | two calls of a leader, of an `auto` process or of a follower overlap, beside a third from elsewhere; one tick separates fresh, stale and expired; a clock difference above the ttl makes a new record look stale or an old one fresh |
| `market_engine` | Binance with its pool, OKX, Deribit, KuCoin; ticker and funding rate, 2 keys to a connection; 2 failures and 2 changes with the pool, 4 and 5 without; 3 attempts, 10 sockets, 6 of the pool | a second failure during the recovery from the first, a third and a fourth use up the attempts; a pool connection that is shared, full or replaced; on these perpetual markets each type has a channel of its own, and the exchanges differ in the pool (Binance) and in the names of their channels; shared and missing channels are the subject of section 5 |
| `risk_manager` | 2 checks, 6 accounts, 2 days, 2 manual calls | a check that ends after another began, a level on either side of each threshold, a stop of one day seen on the next |
| `runner` | 2 signals, each used once, 1 emergency (two closes), 1 API close, distance 2, 3 candles, 1 failure, timeout, untold answer or restart | a buy and a sell of the strategy with three closes between them; the emergency is repeated as long as the danger lasts |
| `persistence` | a limit and two market orders, 4 commands under way, 1 submission, 1 failed command or restart | two calls of one id and two of the position at once; the position opens, closes and opens again |
| `shared_data` | 2 containers, 2 keys, expiry 3, checks every 2 ticks; 8 plans of up to 4 kinds of trouble, 2 data, 3 requests | in production the heartbeat expires after 30 s, is written every 5 s (`MarketDataService.js:95`; here every tick) and checked every 10 s; two keys, two containers and three requests let one handler's await meet another's request for the same key; each plan turns one part up, because the parts share only subscriptions and the filter |

What they show:

- **lock**: it excludes, strands nobody and serves each waiter. Barging is bounded
  by the number of calls: with callers that never stop coming a waiter may wait
  for ever, in the code too.
- **order**: one driver and one open order at a time; an open order is attended; it
  overfills only by what filled after the last look; announced as filled once; in
  the end its status is final and nothing is open but a remainder taken for filled.
  These hold under every failure but two: a lost answer to `createOrder` (the exchange
  then holds an order nobody knows) and, for `OpenIsAttended` and `OrderSettles`, a
  failed cancellation.
- **map**: a compound operation loses no change when only operations under segment
  locks are used; each of its locks is an `AsyncLock` (refinement), so the safety proved
  there holds here. `EveryCallServed` holds too when it is put into the configuration.
- **writer**: nothing lost and a synchronous write resolves only when stored
  (`NothingLost`); always a prefix in the table, at least once (refinement of
  `PrefixLog`); every trade stored in the end unless the writer is stopped.
- **queues**: counts agree whatever times out or fails, an account never has more than
  its slots although each queue counts its own, every call settles although tasks hang.
  The first two are stated for executions without a cleanup; with one, see 5.
- **breaker**: closed means below the threshold also after late failures; at most
  `halfOpenMaxCalls` + 1 probes; late failures do not prolong the open state; it is
  not stuck when `halfOpenMaxCalls` + 1 reaches `successThreshold`.
- **balance cache**: no call returns an older balance than its process had when the
  call began, however many calls overlap, as long as one at a time fills the record; no
  record much older than `staleMaxMs` is returned; every call ends, also when the
  lock's owner has crashed. A leader's calls are not held to one at a time: see 5.
- **market data engine**: no two main sockets although four places open one; what the
  open socket carries is what is subscribed, and a message is dispatched as what it was
  subscribed for; keys of the pool keep a connection and a route to it; if every
  attempt to connect ends, a lost or silent socket is replaced or the attempts are used up.
- **risk manager**: it keeps the gate (refinement): a lasting stop ends in a call of
  `resumeTrading()`, a day's stop also with the day; and neither a day's stop nor an
  emergency is starved by checks that overlap.
- **runner**: no close turns the position round; while the danger lasts the position
  ends flat; the book is the position but for four named causes; unless a signal is
  accepted while another's order is under way, every trade keeps its distance from the
  trades before it whose candle was noted.
- **persistence**: although calls overlap, an id ends in the set of its newest event,
  never goes back from a final set, and an open position's record has the book's
  amount: all of it by the order of the one connection.
- **shared market data**: the last word a container heard of the service is right
  within an expiry and a check; data arrive in order and once; a request that was
  heard ends in a subscription.

### Fairness

Weak fairness stands for the event loop: what is ready runs, timers fire, a settled
promise is resumed, and a remote side answers each call or the client's timeout
does. Users' decisions (a cancel, a manual trip or pause, a signal, a trade) and faults
have none, and tasks of `AccountQueues` need not end. Some places need more than a
word. In `AsyncLock` and `SafeMap` critical sections end: their bodies are synchronous
or await a caller's function that settles. In `SharedBalanceCache` each call's steps are
weakly fair, for Redis and the exchange answer, and `TimePasses` strongly: it waits for
the answers Redis gives within a tick, and the strategies that ask again and again would
otherwise hold the clock, which no program can. In
`AdvancedRiskManager` and `TradingSystemRunner` the interval that starts the checks is
fair, as its `setInterval` is while the manager runs. `MarketDataEngine` lets a
close arrive, because the library ends a closing handshake by a timeout of its own, but
not a connection: `new WebSocket(wsUrl)` (952, 1276) has no `handshakeTimeout` and the
engine no timer for it, so that attempts end is the hypothesis `AttemptsEnd` of
`Recovers`, which `AlwaysRecovers` is refuted without.
`SharedMarketData` has fairness only for the request handler; `LastWordRight` states a
bound in ticks instead.

## 5. Where code and expectation disagree

Definitions under the heading of what does not hold, at the end of a module, state what
a comment, a name or a document promises and TLC refutes. They are in no run. Each is
refuted by the configuration named here, or by that of the module's run with its
properties replaced by the definition (`INVARIANT`, or `PROPERTY` for those marked P)
and the constants changed as shown.

| property | configuration | what happens |
|---|---|---|
| `FilledIsFilled` | `MCOrderExecutor_filled.cfg` | a check that fails after it reduced `amount` is followed by another that reduces it by the same fill again: announced as filled with part of it never bought (`orderExecutor.js:1544`) |
| `CanceledStaysOff` | `MCOrderExecutor_off.cfg` | `cancelOrder()` returns true (2050) while a submission is in flight; the order goes live and stays |
| `Attended` | `MCOrderExecutor_unattended.cfg` | the cancellation of the last attempt (1485) is outside the `try` block; when it fails, the order stays open without timer or thread |
| `FilledAmountIsTotal` | `MCOrderExecutor`, `Amount` 2, `NegligibleDen` 100, `NoTrouble` | `filledAmount` is that of the last exchange order only |
| `Listed` | `MCOrderExecutor`, `OneFailedCancel` | after a failed cancellation the next look takes the same fills off the amount again (1544): a partly filled order is taken for filled and leaves `activeOrders` while it is open |
| `EndedIsNotPending` | `Amount` 1, `NegligibleDen` 100, `OneRejection` | a task that fails after the queue's timeout leaves its order pending |
| `RateRetriesBounded` | `Amount` 1, `NegligibleDen` 100, `RateLimits` | `rateLimitMaxRetries` is never read |
| `AllOpenIsActive` | `MaxResubmit` 1, `NoTrouble` | a negligible remainder is left on the exchange and the order taken off `activeOrders` |
| `CompoundIsAtomic` | `MCSafeMap`, `OneKey`, `OneSegment`, `BatchMix` | a batch changes a key while `update()` awaits its function |
| `CleanupDeletesExpired` (P) | the same, `CleanupMix` | a key collected as expired is deleted after it was set anew |
| `StoppedIsStored` | `MCTradeWriter_stop.cfg` | `stop()` during a flush (`TradeWriter.js:163`) emits `stopped` with trades in memory; the comment (98) says the rest is flushed |
| `BufferBounded` | `MCTradeWriter`, `Modes = {TRUE}` | the buffer grows past `maxBufferSize` during a flush |
| `TasksBounded` | `MCAccountQueues`, `MaxCleanups` 0 | timed-out tasks go on beside those that took their slots |
| `CountNotNegative` | as it is | an account deleted as idle while an order is between its two updates |
| `ProbesBounded` | `MCCircuitBreaker` | the call that finds the timeout over is not counted |
| `ClosesOnSuccesses` (P) | as it is | successes from before the half-open state count |
| `NotStuck` (P) | `SuccessThreshold` 3 | with `successThreshold` above `halfOpenMaxCalls` + 1 a half-open breaker stays so |
| `LeaderGoesForward` | `MCSharedBalanceCache` | two calls of a leader overlap, and the slower one stores and returns its older balance last: a leader takes no lock (`BaseExchange.js:332-336`) |
| `AlwaysRecovers` (P) | `MCMarketDataEngine` | a handshake that is never answered leaves `reconnecting` set, and nothing tries again: the socket has no `handshakeTimeout` (`MarketDataEngine.js:1276`) |
| `OneMain` | `MCMarketDataEngine_restart.cfg` | `stop()` and `start()` before the old close event or timer: two main sockets, every message processed twice |
| `AllAttended` | `MCMarketDataEngine_connect.cfg` | a pool connection that does not open takes its keys with it, and its caller waits for ever (1005) |
| `SubsOnWire` | `MCMarketDataEngine`, `Exchanges` bybit, bitget, gate or kraken | Bitget, Gate and Kraken send two types on one channel: giving up one gives up both. Bybit's funding rate comes in its ticker (comment at 2334) and is never processed as funding (3115-3148) |
| `StartedIsServed` (P), `StoppedIsClosed` | `Exchanges = {"okx"}` | a failed first connection is never tried again, even if every attempt ends; `stop()` while connecting leaves a live socket (1287) |
| `CarriedOnce`, `CarriedIsWanted`, `PoolIsWatched` | `Exchanges = {"binance"}` | after the loss of a pool connection its list and `_resubscribe()` (1036) both bring its keys back, also keys given up meanwhile; the close of the main socket ends the checks of the pool |
| `WarnedIsPaused` (P) | `MCAdvancedRiskManager_warned.cfg` | a drawdown past the danger threshold (15 to 20 %) does not stop trading, while the smaller warning does (`risk/manager.js:890`) |
| `ByHandLasts` (P) | `MCAdvancedRiskManager` | a pause by hand during the day's pause is dropped (1196) and ends with the day |
| `BookIsRight`, `NeverShort` | `MCTradingSystemRunner_book.cfg`, `_short.cfg` | the book clamps at zero; sales of the strategy are not reduceOnly and may go short after a close |
| `TradesSpaced`, `StopSurvivesRestart` (P) | `MCTradingSystemRunner` | the cooldown is tested before the order and noted after it, and not noted at all for an order that timed out in the queue, whose answer was lost, or that came before the first candle; a restart forgets pauses, positions and the all-time high |
| `EndedIsNotOpen`, `OpenIsListed`, `ClosedIsClosed` | `MCRuntimePersistence`, `MaxMishaps` 0, `NullWritten = {TRUE}` | two calls insert one id, which stays in two status sets, so `getOpenOrders` lists an order that has ended; an `insert` or `close` of the position loses against another |
| `IndexIsTheStatus` | `MCRuntimePersistence`, `MaxMishaps` 0 | a record in several status sets; `OrderStore.js:232` says "Use transaction for atomicity" |
| `OldIdEnds`, `RestartIsNoticed` | `MaxSubmits` 2 and `MaxMishaps` 0; as it is | the record of a resubmitted order's old id stays submitted for ever; nothing reconciles the records after a restart |
| `HealthyListens` | `MCSharedMarketData`, `EarlyRequests` | `docker-compose.multi-strategy.yml:132-136` lets containers wait until the service is healthy, which asks for the heartbeat; `start()` writes it (`MarketDataService.js:232`) before it listens (238) |
| `WantedIsServed` | `EarlyRequests`, `Restarts`, `SharedKeys` or `FailedChecks` | a request nobody heard is never repeated, not after `serviceOnline` either; one container's `unsubscribe` ends another's data |
| `OnlineAgain` | `FailedChecks` or `SlowChecks` | a check that fails, or overlaps another, reports offline; online is not told again |
| `ComesOnce` | `LostConnection` | ioredis sends unanswered commands again: data come twice or late, closed candles too, and nothing in `main.js` drops them |

Met while modelling, where no definition states it: the reductions of the risk manager
(`risk/manager.js:1278,1355`) name no `exchangeId`, so the executor throws; the levels
EMERGENCY and CRITICAL are never assigned; `positionData` is only filled by `init()`;
`main.js:2764` calls `cancelAllPendingOrders()`, which the executor does not have; an
emergency's `cancelAllOrders()` reports queued market orders canceled, which go on to
execute; `RuntimeTradingEngine.closePosition()` (`api/runtimeAdapters.js:592-598`) goes by
the sign of an amount that has none, so it sells short positions too and never closes one; `isStrategyActive` is not asked again after
the await at `main.js:2122`; `PositionStore.update()` never writes the entry price or
the side; `disconnect()` of a subscriber gives up no key, so the engine goes on
streaming; a subscriber's connection gives up for good after ten attempts; types an
exchange has no channel for stay in `subscriptions`; `subscribe()` while the main socket
is not open sends nothing (the next connection does).

## 6. What is proved

TLAPS checks eight modules of theorems, for every value of the constants the
assumptions admit. An assumption (`AsyncLockAssumption`, `OrderExecutorAssumption`,
`CircuitBreakerAssumption`, `AdvancedRiskManagerAssumption`,
`SharedMarketDataAssumption`, `MarketDataEngineAssumption`,
`TradingSystemRunnerAssumption`, `RuntimePersistenceAssumption`, `SafeMapAssumption`,
`AccountQueuesAssumption`, `TradeWriterAssumption`, `SharedBalanceCacheAssumption`)
gives constants their types and says what the code says of them, such as that sets of
threads and calls are finite and that there are more callbacks than resubmissions; TLC
evaluates it in every run of its module. What a theorem needs beyond that, because the
code promises it only under a condition (no lost answer, one service that fills the
cache), is a hypothesis of the theorem. The components whose proofs share a module have
names of their own for what every component has (`SMInit`, `AQNext`, `TWSpec`,
`BCTypeOK`).

All invariants and action properties the runs check are proved, and so are the
refinements of `AsyncLock`, `PrefixLog` and `TradingGate`. What is harder than that a
step keeps a conjunct follows, module by module.

**Locking_proofs**, of `AsyncLock`: `Typing`, `Mutex`, `NoLostWakeup`. Mutual exclusion
is not inductive: a state with the flag down and a task inside satisfies it. `IInv` adds
that the flag is up exactly when a task is inside (`FlagMeansInside`) and that the
queue holds the waiting tasks, each once (`QueueIsTheWaiting`), which is what the
wakeup argument needs: `release()` wakes the head, so whoever waits after it is
followed by a woken task. Of `SafeMap`: `CompoundsAreAtomic` (`LockedIsAtomic`) and
`EachLockIsOne` (`LocksAreAsyncLocks`). `LocksOwned` says that whoever holds a lock has
raised its flag and holds it alone, and that a queue holds tasks that wait for its
lock: two tasks that hold locks therefore work on keys of two segments, and what one
writes the other has not read (`OnlyOwn`). For the refinement, an acquisition is a
`Call` or a `Resume` of the lock it is for and nothing to the others (`AcquireAt`), a
release a `Release` (`ReleaseAt`), and all else moves nobody at any lock (`NoneAt`). What
is proved of `AsyncLock` therefore holds of every segment and of the global lock, for any
mix of operations: `EachLockServes` (`ServedAt`), after the types (`MapsTyped`).

Of `AccountQueues`: `QueuesTyped` (`AQTypeOK`), `CountsAreRight` (`CountsAgree`),
`OneQueue` (`OneQueuePerAccount`) and `LimitHolds` (`AccountLimited`). The first of the
properties follows from what is in each queue (`Lined`), that an account with an entry
has a queue (`Made`), and that without a cleanup an entry stays, with the count of its
orders (`Entered`). The limit of an account is kept nowhere in the code: each queue
counts its own slots. `SlotsKept` says that the tasks that hold slots of one queue, those
that outlived their timeout left out, are never more than `maxConcurrentPerAccount`;
that an account has one queue makes it a limit of the account, and a cleanup undoes it.

**OrderExecutor_proofs**: `OneDriver` (`SingleDriver`), `AttemptsBounded`, `Typing`
(`TypeOK`), `OneOpen` (`AtMostOneOpen`), `AnnouncedOnce` (`FilledOnce`), `OpenAttended`
(`OpenIsAttended`), `NothingAskedTwice` (`OverfillIsLate`), `FinalStays`
(`FinalIsFinal`) and `OpenIsListed` (`OpenIsActive`). `SingleDriver` alone is not
inductive: nothing in it keeps a callback from running while the task has not been accepted yet, or a rejected waiter
from submitting again. `IInv` adds that the task is alone until its first order is
accepted (`AloneAtFirst`), that a failed order has no driver and its waiters find the
attempts used up (`FailedIsOver`), and which places a thread can reach below and at
the bound of attempts (`AttemptsLeft`). The lemmas `DriveOn` and `DriveNoMore` treat
the two kinds of steps, those after which the thread drives on and those that end
its turn, so that each action is a few lines.

The types need two facts that `TypeOK` does not say: an open order has something left
to fill, and no callback runs before there is an order to look at (`Fillable`,
`NoneBefore`). `OneOpen` rests on `Watched`: what a thread has sent or
received fits the place where it waits (`MessagesFit`), and an open order is one the
executor knows and nobody is about to replace, or one whose number is on its way to
the thread that submitted it (`OpenIsKnown`). That only one thread can wait for such an
answer is `SingleDriver`. The hypothesis that no answer is lost is needed, here and for
`OpenAttended`: the exchange then holds an order whose number nobody has, and the retry
submits another. `AnnouncedOnce` needs no hypothesis: after the announcement nobody
drives, no timer is pending, and the status is one no thread goes on from
(`FilledIsOver`). `OpenAttended` strengthens the property to `Pursued`: while an order is
open no thread is at a place from which it would give it up or replace it
(`Untouched`), and a timer or a driver stays, until the remainder is taken for nothing
(`LookedAfter`); what each thread does next is in `Pursues`, for each of the awaits.
`NothingAskedTwice` needs no hypothesis either. `Budget` counts the units the executor has
seen filled: from a look at an order until the next one is accepted, what is left and what
has been seen are at most `Amount` together (`Left`), so the order the executor has asks
for no more than what the others left (`OrderFits`), whenever it fills and however often
it is looked at. An order whose answer is lost is never looked at: all that fills of it
is late. `FinalStays`, that an order filled or failed never changes its status again,
speaks of executions without a `cancelOrder()`: only a thread that drives or hands over
sets the status, and one that is final has none (`FilledIsOver`, `FailedIsOver`).
`OpenIsListed` says where `activeOrders` can be believed: what `LeftAlone` names apart, an
open order belongs to an order the executor lists.

**CircuitBreaker_proofs**: `Invariance`, `BelowThreshold` (`ClosedBelowThreshold`),
`Probing` (`FewProbes`) and `NotProlonged` (`OpenNotProlonged`). `IInv` is the types,
`ClosedBelowThreshold`, and `ProbesCounted`: in the half-open state all probes but
one are in `halfOpenCalls`, and in any other state there are none. The cardinality
of the probes changes by one task at a time, by the library's facts about finite
sets. The window's sums appear only as a condition, so nothing is needed about them; that
`MaxInWindow` bounds each bucket (in `TypeOK`) follows from the bound of the sum, which
would need an induction, and is only model-checked.

**AdvancedRiskManager_proofs**: `Typing` and `Promise` (`KeepsTheGate`), the refinement
of `TradingGate` for any accounts, thresholds and number of overlapping checks. A step
of a check may run the day's reset, record the equity, and stop trading for one reason
or another, all before its next await, so the proof goes through the operators in the
order a check applies them (`Resetting`, `Seeing`, `Daily`, `Triggering`, `Pauses`) and
composes what each may do to `allowed` and `reason`. The gate counts the calls of
`resumeTrading()`, so every other step must be shown to keep a lasting stop. The
strengthening is that trading is stopped exactly when there is a reason
(`StoppedForAReason`): without it a reset that lifts "daily drawdown" could lift a stop
that had lost its reason.

**Shared_proofs**, of `SharedMarketData`: `Typing`, `WordInTime` (`LastWordRight`) and
`DataInOrder` (`InOrder`), for any number of
containers, keys, data and commands under way. That no subscriber got a datum late is
not inductive, because the order of what is still on the wire decides it. `Ordered`
adds: of two commands for a key the later one carries the newer datum, except that the
second command of a datum may come behind the first command of newer ones (`Queued`);
no datum on the wire has reached a subscriber (`Unseen`), and none on the wire or
received is newer than what was made (`Made`, `Seen`), so the next one made is news. The
heart is `Delivering`: the head of the queue is news to everybody and older than what is
left, also once its answer has put its second command at the end (`AnsweredQueued`).
Restarts of the service empty the wire, those of a subscriber start from nothing
(`AwayOrdered`). `InOrder` speaks of executions in which the publishing connection is
not lost; the plan is chosen once (`PlanKept`).

`WordInTime` counts ticks: what is left of the heartbeat of a service that went and the
ticks since are together at most `Expiry` (`Pulse`); a check is answered before the next
one is due, and what it read before its await is still so (`Sober`); and while a word is
wrong, the ticks it has been wrong and those to the next check are within the bound
(`Timely`, `Heard`). Slow checks are excluded by the property, because two that overlap
break the second part, and the word.

Of `SharedBalanceCache`: `NothingTooOld` (`StalenessBounded`) and `NoProcessGoesBack`
(`NeverBackwards`), for any number of overlapping calls. A record in Redis is younger
than `staleMaxMs`, one a call has found there is older by what the call has waited, and
the wait is bounded (`Aged`). For the second, `Filling` says that in an execution that is
not `unguarded` whoever fills the record owns the lock or is the leader's only call that
fetches, so that one call fills it (`OneFills`); `Newest`, that nothing any process knows
is newer than the record, nor than what the filling call is about to store; `Own`, that
what a call may still return is no older than what its process had when it began
(`floor`). The hypothesis `Roles` says that beside a leader there are followers only, as
the configurations of the run have it: another process that fills the cache would take
the lock, which a leader does not ask for. `CacheTypes` (`BCTypeOK`) bounds the ages by
`Aged`, and adds that a record carries the number of a state of the account and that the
lock does not outlive its expiry (`Bounded`).

**TradingSystemRunner_proofs**: `TypesCorrect`, `ClosesOnlyClose` (`ClosingNeverFlips`),
`BookFollowsPosition` (`BookAgrees`) and `TradesKeepDistance`
(`SpacedUnlessOverlapping`). The book agrees with the position only when nothing is
under way, so the invariant speaks of every state: the difference of the two is what
the exchange has executed of the buys and not been heard of, less that of the sells
(`BookIInv`). The sum is the size of a set of units (`OnTheWay`), because a sum over
the orders would need an induction; each action adds or takes the units of one order.
An answer that does not tell what was filled books the whole amount, which leaves the sum
as it is when all was filled and is a cause of its own when not. Trades are kept apart
because, without overlapping, one signal is under way (`OneUnderWay`), no trade is later
than it (`AfterTrades`), it was accepted far enough from every noted trade
(`FarFromNoted`), and the candle noted last is no older than that of any noted trade
(`NotedInLast`). Of the trades that were never noted nothing is promised but their
distance from the noted ones before them.

**Persistence_proofs**, of `RuntimePersistence`: `StoredOrdersAreFound`
(`NewestIsIndexed`), `StoredPositionIsTheBook` (`PositionFollowsBook`) and `NoneReopens`
(`NoWayBack`). All three are about the order of the commands on the one connection.
`NewestArrives` is the heart: the newest event of a record has arrived, or its call is
under way and is carried out after every other of the record (`IsLast`), because a call
is overtaken only by one that is a step behind it, and a call that found the record
never takes the shorter way of an insert. `SubmittedFirst` says that the call of a
submission comes before any other of its id, which is why no id reopens; `OnlyTold` and
`ToldOnce`, that all that is known or under way of an id are its events, each once. `RecordTypes` (`TypeOK`) bounds the amounts: the book holds no more than the
number of filled orders, so neither does a call under way nor a record (`Capped`).
Of `TradeWriter`: `TradesConserved` (`NothingLost`) and `WriterImplementsLog`
(`StoresInOrder`). One flush is under way (`OneFlush`); its batch followed by the buffer
is what was handed over and is not counted yet (`Flight`); the table holds the first
trades, at least the counted ones, and a late batch starts at most one behind them
(`Prefix`). A step of the writer then is an `Accept` of `PrefixLog`, a `Store`, or a
stutter, also when a batch is stored again or arrives late. `NoneTwice`
(`TwiceOnlyAfterFault`), for both modes: the table has a trade twice only after an insert
failed, because until then a trade is in one place only, and there once:
the buffer, one insert under way, or the table (`InOnePlace`). `WriterTypes`
(`TWTypeOK`) needs that in the synchronous mode nothing is buffered, flushed or counted
(`Unbuffered`): what is counted there would be no part of what was handed over.

**MarketDataEngine_proofs**: `Typing`, `WireIsWhatIsSubscribed` and `PerpetualWire`
(`SubsOnWire`), `OneMainSocket` (`OneMain`) and `KeysAreKept` (`PoolKeepsKeys`). `Sound`
says what the types do not: sockets not made yet are as new, and the pool holds each of
its sockets once. That the open socket carries what is subscribed holds where no two
types share a channel (`Unshared`) and a message is dispatched as what it was subscribed
for; both are refuted on the exchanges of section 5, and `PerpetualWire` shows them to
hold on the perpetual markets of Binance, OKX, Deribit and KuCoin. The other two are
about an engine that is started once, as in `main.js`, because a second start refutes
them (`MCMarketDataEngine_restart.cfg`). `Life` says that nothing but its own connection
runs before `start()` has returned. `Alone` is what one main socket needs: one timer at
most, none while a socket lives, and the flag up as long as a reconnection waits or
connects, so that a close event, an error and a rejected attempt find it.

Only model-checked: the liveness properties (fairness and `ENABLED` are out of
TLAPS' reach here), which are `EveryWaiterServed`, `OrderSettles`,
`EveryTradeStored`, `EveryCallSettles`, `NotStuck`, `EveryCallEnds`, `Recovers`,
`StopsAndEmergencies`, `FlatInTheEnd`, `AskedIsServed`.

## 7. What is not modelled

`PROJECT.json` lists every part with its status. Step 13 of the plan is left for later.
Exchange failover, the network partition handler, the connection pool, the archive
schedule and `GracefulShutdown` have no instance in `src/` outside tests, so no state of
theirs is one the program can be in. Prices, formatting, logging, statistics and metrics
are not in any model; strategies, factors, the backtest and allocation are numeric and
sequential; adapters, the rest of the API, middleware and configuration are translations
or wiring without state that interleaves.

Of the modelled classes these parts are left out: the dry run of the executor and
`cancelAllOrders()` over several limit orders; the back-off time of rate limits and the
nonce itself (their retries are in); `SafeSet`, `SafeTTLMap` and
`SafeSlidingWindowCounter`; the row format of the writer; fallbacks of the breaker and
its manager; the connection of the balance cache to Redis; parsing and caches of the
market data engine; liquidation alerts, concentration and `checkOrder()` of the risk
manager; strategy, trade and configuration records of the stores; `subscribePattern()`
and the single-key channels of the shared service, which nothing listens to.
