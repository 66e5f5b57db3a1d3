# A verification model of optionx_cpp

`optionx_cpp` is a header-only C++17 library that connects trading programs to
binary-option brokers. These TLA+ modules model the parts of it in which
several actors meet: the platform loop, the client threads, the broker's HTTP
answers, the files other programs write. TLC checks small instances; TLAPS
proves the safety properties for every value of the constants.

All paths below are relative to `src/include/optionx_cpp/` unless they start
with `guides/` or `tests/`.

## 1. Inventory

One platform owns one *loop*: a worker thread of `utils::TaskManager` that runs
a periodic task. Each turn of it delivers the queued events of the event bus
and then calls `process()` of every component, in the order in which they were
registered (Intrade Bar: HTTP client, request manager, trade execution, auth,
balance, active trades sync, trading conditions, prices, subscriptions, trade
manager). Components share `account_info` and talk through the bus:
`notify` calls the subscribers at once, `notify_async` queues for the next turn.
HTTP futures are polled by the HTTP client component and their callbacks run on
the loop. Clients call `place_trade`, `connect`, `disconnect`, `post_task` and
`shutdown` from their own threads.

| Component | State | Operations | Hard behaviour | What makes it correct |
|---|---|---|---|---|
| Trade queue (`components/BaseTradeExecutionComponent*`) | pending and open lists, local and snapshot counters, fence, last order time | `place_trade`, `process`, event handlers | client threads against the loop; deadline, disconnect and shutdown against late answers; a public copy of the counters | counters exact, limit respected, one terminal report, states reported in order, every trade ends |
| Intrade trade manager (`platforms/IntradeBarPlatform/TradeManager.hpp`) | one asynchronous conversation per trade, delayed checks | order, balance, result check with retries | answers to finalized trades | an answer changes only a trade that waits for it |
| Active trades sync (`ActiveTradesSyncManager.hpp`) | request and context generations, in-progress and scheduled flags, delayed tasks | snapshot request, reply, refresh, invalidation | replies of an earlier connection or account; lost retries | only a snapshot of the present account is accepted; a closed fence is always being reopened |
| Auth manager (`AuthManager.hpp`) | auth generation, pending connect callback, account identity | connect, restart, disconnect, settings switches | restarted and cancelled flows, two-stage tasks | exactly one terminal callback per `connect` |
| Balance manager (`BalanceManager.hpp`) | balance and host request generations, failure streak | polling, reconnect through domain search | a balance answer reconnects an account that is being authenticated | connection flag agrees with the events published |
| Platform lifecycle (`platforms/common/BaseTradingPlatform.hpp`) and tasks (`utils/tasks/`) | task lists, stop flags, worker thread | `run`, `post_task`, `shutdown`, `process` | posting against shutting down | an accepted task runs or is cancelled, exactly once |
| Event bus and awaiters (`utils/pubsub/`) | subscriptions, queue | subscribe, notify, drain, await | unsubscribing during delivery, awaiters that fire once | no event lost or delivered twice |
| Lifecycle stack (`lifecycle/`) | module list, cursor | process, staged shutdown | modules that need turns to stop | dependants stop before what they depend on |
| MetaTrader file bridge (`bridges/metatrader_file/`) | command log, checkpoint, idempotency records and tombstones, event log | poll, dispatch, write | crashes between dispatch, durable record and checkpoint; log cleared by its writer | a command is dispatched at most once, its answer is repeatable |
| Protocol v1 bridge and named pipe (`bridges/protocol_v1/`) | connections, sessions, idempotency table | JSON-RPC requests, pushes | reconnects, slow readers | at most one execution per key |
| Other bridges (`telegram`, `trading_view`, `bot_binary`, `legacy_trading`), bridge host | HTTP/socket sessions, dedupe tables | signal intake | retries of the sender | one signal per message |
| Market data router: routes (`market_data/detail/MarketDataRouter.ipp`) | one entry per routed subscription, recorded completions, the slot's cached status, failed cleanups | subscribe, unsubscribe, retry of failed cleanups, status, draining shutdown | answers from the provider's thread, owner tasks refused or cancelled, releases inside the subscribe callback | every physical subscription can still be given back, callbacks once and in order, after a release nothing heard but the rest of a status under way |
| Market data router: continuity (same file) | per route: phase, buffer of held batches, observed, verified and open slots, request under way, retry | prefill, gap backfill, reconnect recovery in chunks, release of the buffer | late answers of a lost transport, gaps inside the buffer, partial answers, overflow | no bar lost, no gap unnoticed, nothing called verified without proof, live bars not held back for ever |
| Market data hub, subscription objects (`market_data/`) | weak subscribers, last status per stream | publish, replay | unsubscribe during publish | no call after unsubscribe |
| Risk admission and trading system policies (`trading_system/`) | reservations, account snapshot, series | reserve, commit, release, settle | concurrent reservations, duplicate keys | reserved risk stays within the limits |
| Record stores (`storages/`) | database tables, statistics | insert, query, statistics | none beyond the database's own | statistics agree with records |
| TradeUp platform (`platforms/TradeUpPlatform/`) | web socket session | as Intrade Bar, in part | reconnects | as Intrade Bar |
| Account and condition hubs (`components/AccountInfoHub.hpp`, `TradingConditionHub.hpp`) | subscriber lists | subscribe, publish | unsubscribe during publish | no call after unsubscribe |
| DTOs, parsers, string and crypto utilities, storage of strategy data, browser extension, MQL | none that interacts | pure functions, other languages | - | left to unit tests |

`PROJECT.json` lists the same components with their status and every hazard
with its source line.

## 2. Plan

Most important first: money moves in the trade queue, so it comes first; the
sync that opens its fence and the loop that drives both follow.

| Step | Module | Extends / composes | Status |
|---|---|---|---|
| 1 | `TradeExecution` (queue, state rules, broker conversation) | - | modelled, checked, proved |
| 2 | `ActiveTradesSync` (sync manager, fence, account events) | - | modelled, checked, proved |
| 3 | `PlatformTasks` (platform lifecycle, task manager, bus queue) | - | modelled, checked, proved |
| 4 | `LifecycleStack` (staged shutdown of several modules) | abstracts a platform to `ILifecycleModule` | modelled, checked, proved |
| 5 | `TradeLifecycle`, `TradeRefinement` | what 1 promises; 1 implements it | stated, checked, proved |
| 6 | `FileBridge` (MetaTrader writer, bridge, files, crashes) | - | modelled, checked, proved |
| 7 | `MarketRoutes` (routes of the market data router) | - | modelled, checked, proved |
| 8 | `BarContinuity` (continuity of one bar route) | one active route of 7, its history requests | modelled, checked, proved |
| - | `RiskAdmission`: reservations against limits, balance snapshots, duplicate keys | - | not done |
| - | `AuthFlow`: the pending connect callback, two-stage disconnect | would drive 2 | not done |
| - | `AdmissionFence`: the snapshots of 2 as the input of 1 | 1 and 2 | not done |
| - | `BridgeRuntime`, `OperationCache`: shutdown from callbacks, dedupe and pruning of the protocol bridges | - | not done |
| - | `EventBus`: subscriptions, copies, awaiters | - | not done |
| - | `ClassicExpiry`: expiry arithmetic of CLASSIC options against its definition | - | not done |

The steps without a number were planned and are not part of the project; section
7 lists the hazards that wait for them.

## 3. The modules and the code

### TradeExecution

| Model | Code |
|---|---|
| `phase` | the part the platform loop is about to run: bus, HTTP callbacks, the four parts of `TradeQueueManager::process`, delayed tasks |
| `pending`, `arrival` | `m_pending_transactions`: a set and the place of each request in the list |
| `openTx`, `localOpen`, `publicOpen` | `m_open_transactions`, `m_local_open_trades`, `account_info->open_trades` |
| `snapOpen`, `snapUnknown`, `snapDue`, `ready`, `refreshRequested` | the fields of the broker's snapshot and the fence |
| `st`, `closeDate`, `token`, `call` | the trade's result, its lifecycle token, the request under way for it |
| `reported`, `finalReports` | what the result callback was given: the client's view, a history |

`place_trade` is two steps (`Stamp`, then `Enqueue` or `Refuse`), because the
place date is taken before the mutex. Every other action runs on the loop. A
turn passes through the phases in the order of `BaseTradingPlatform::run` and of
`TradeQueueManager::process`; the phase in which an action may happen is the
phase in which the code delivers it. The actions in the last group (snapshots,
quotes, connection changes, disconnect, shutdown) are the events other
components send; they may come in any order.

Abstractions. WIN, LOSS, STANDOFF and REFUND are `SETTLED`: the queue treats
them alike. Amounts, payouts, the live outcome of a quote and the balance of a
burst of trades (`next_open_balance`, `add_realized_profit_to_storm`) are data
no modelled decision reads. `request_trade_check` repeats failed checks up to
its limit; the call stays `check` meanwhile. Reply errors of
`apply_trade_check` that validated amounts cannot cause are left out, as is the
branch `close_date == 0`, which an accepted order cannot have. A request that
fails validation keeps a live token, as in the code (lines 399-410); nothing is
under way for it. After `shutdown` the HTTP client is not polled any more, so no
answer changes anything.

### ActiveTradesSync

`notify` calls its subscribers before it returns, so one account event runs
through several handlers: the manager drops its request, tells the queue that
the snapshot is unavailable and asks for a new one. The handlers are therefore
operators on one record `sync` (the fields of `ActiveTradesSyncManager`, the
queue's fence and its refresh flag), and an action is a whole chain. `account`
has the connection flag, user and settings; `account.epoch` is history and
counts lost connections. `auth`, `leaving` and `balance` say which flows of
`AuthManager` and `BalanceManager` are under way, as far as they can change the
account; the HTTP conversations behind them are abstracted to their outcomes,
among them the silent changes of identity in `set_account_user_id` and
`finalize_authentication`. The queue's local activity is free: a good answer may
be skipped by the queue (`ReplySkipped`) or accepted (`ReplyAccepted`). A connect
request without configuration is `BeginConnect` followed by `AuthRefused`.

### PlatformTasks

`place` and `ticket` are the task lists: accepted (`pending`), moved to the list
that is walked (`listed`), called. `post_task` holds `m_lifecycle_mutex` from its
check to `add_task`, so it is one step; `run()` holds the mutex over several.
A walk over `m_tasks` is `Reach` (which sets the task's shutdown flag) followed
by the call, and nothing keeps another thread from walking between the two,
which is why `OneExecutor` is a property and not an assumption. `threaded` says
whether `run()` starts a worker thread; it never changes. The 1 ms period of the
loop task is `LoopNotDue`. The model assumes what `guides/lifecycle-stack.md`
("Owner Loop") asks of hosts without a worker: one thread calls `process()` and
`shutdown()`. Callbacks do not call `shutdown()`; the hazards list says what
would happen. `DrainRounds` is the limit of `EventBus::drain` (10 in the code).

### LifecycleStack

`add_module`, `process` and `shutdown` of `lifecycle/LifecycleStack.hpp`. The
modules are environment: `Turn` is one `process()` of a module, in which it may
call the stack's own `shutdown()` or `add_module()`, finish its stop, or serve
the module above it. `owed` is how many turns of the module below a module still waits
for. `ProcessThrows` is an exception that leaves `process()`, `StopDirectly` an
application that stops a module by itself. A nested stack is itself such a
module and is not instantiated.

### TradeLifecycle and TradeRefinement

`TradeLifecycle` says what trade execution promises to clients and broker: one
order at a time, in the order of the requests, never more than `Limit` open; who had an order out
hears its end, once and last; a request that was still queued may also be dropped in
silence (remark 1 below). `TradeRefinement` maps the queue's lists to stages and the last
report to what the client knows.

### FileBridge

The command writer and the bridge are two processes that share files. `log`,
`checkpoint` and `disk` (the idempotency state with its high-water mark) survive
everything; `mem`, `last`, `cursor`, `first` and `window` are the bridge's
memory. `pc` is the place in `process()` between two file operations: the
bridge may die or a write may throw at each.

| Model | Code |
|---|---|
| `AppendLine`, `ClearLog` | `append_request_locked`, `clear_commands_if_checkpoint_caught_up_locked` of the writer |
| `ProbeLog`, `ScanLog` | the two opens of the log in one poll: whose log is it, and the window past the cursor |
| `HandleKnown`, `HandleStale`, `HandleNew` | `handle_signal_command_locked`: the registry decides, the deadline decides, or the command goes on |
| `MarkInDoubt`, `CallbackReturns`, `Accept` | durable marker, user callback outside the lock, durable result and answer |
| `CommitProcessed`, `CommitCheckpoint` | the two files of `write_commands_checkpoint_locked` |
| `Saved` | what a write of the registry leaves: expired tombstones pruned, the oldest settled records made tombstones, refused past the byte limit |

Lines stand for bytes and all have one length, so an offset is a number of
lines. Balance and state publication, lines that are not JSON and the parsing of
payloads are left out. The writer may be replaced by a new object at any append
(`known = 0`). `LifetimeAssumption` (a command is valid for a shorter time than
its key is remembered) holds for the defaults, 60 s against 24 h; nothing in the
code enforces it for other settings, and without it a line could be handed over
again.

### MarketRoutes

`entry` is what `m_entries` and the control block of a route hold. The owner
loop runs one task or one call of the application at a time; `stack` says what
it is in the middle of, since the subscribe callback runs application code inside
`complete_subscribe`, `process()` makes calls to the provider between two passes, and `route_status` calls the
subscribers it collected one after the other: `RouteStatus` caches a status, collects
its `Hearers` and tells the first (`TellNext`); each `TellOne` tells the next, whatever became
of its route in between, since the code does not look again. In a callback the application may
release any route, subscribe, retry or shut down (`ApplicationRuns`). After the last
subscriber of a status, and after the status replayed by `complete_subscribe`, the handler has
nothing left to do that is modelled, so the application code of that callback is that of the idle owner.
The provider answers inside a call (`SubscribeInline`, the second disjunct of
`StartUnsubscribe`) or from its own thread: `Answer` records the completion under
the mutex, `PostReport` posts the owner task, `MarkReport` marks the reservation;
anything may happen between them. A dispatcher that refuses or cancels a task is
`Posted` and `Cancel`. One provider and one stream: every route of the model
matches each status; direct mode, aliases and several providers are left out.

### BarContinuity

One active bar route. Everything runs on the owner, so a handler is one step, but the
release of the buffer goes batch by batch (`FlushOne`). `route` is
`ContinuityState`; a time is the number of a timeframe slot and `now` the open
one. `RouteBars` is `route_bar_to_entry_no_lock` with its buffer and gap branches,
`Lost` and `TransportReady` are the two sides of `apply_stream_status_to_entry`,
`StartPrefill`, `StartReconnect` and `NextChunk` make the requests,
`CompleteContinuity` is the handler of their answers and `Process` the retries and
recoveries of the host's tick. The provider is external and truthful: a complete
answer has every bar of its range that exists (`Trading` says which). Retry
backoff is abstracted (a retry is due at any tick), and ticks, weak subscribers and
completions the dispatcher refuses are left out.

## 4. The runs

All runs use two workers and end below five minutes. "States" is the number
of distinct states. Deadlock is checked in `file_bridge` and `market_routes`, whose
owners can always take another turn; elsewhere platforms stop, or the bounds of clocks,
generations and requests end every behaviour.

| Run | Asks | Bounds | States |
|---|---|---|---|
| `trade_queue` | counts, limits, ownership of late answers, reports; refinement of `TradeLifecycle` | 2 trades, limit 2, a broker snapshot of at most 1 trade, clock to 3, requests placed until 1 | 1.2 million |
| `trade_snapshot` | the bookkeeping of the snapshot; every trade ends | 1 local trade, snapshots of up to 3 trades with close times 0, 1, 3; largest stamp 3, buffer 1 | 187 000 |
| `sync_safety` | which answer opens the fence | 2 users, 2 settings, 7 generations | 228 000 |
| `tasks` | who walks, in which order, what the drain leaves; shutdown completes, accepted tasks are called | 2 tasks, 2 events, 1 `run`, 2 `shutdown`, 1 drain round | 284 000 |
| `stack` | order of the stages, the shutdown ends | 4 modules, all may throw or stop by themselves | 76 000 |
| `file_bridge` | a command is handed over once, remembered by key, answered truly, never skipped | 3 lines, 2 keys, 3 commands, clock to 4, 1 fault, registry of 1 record and 3 entries, log of 2 lines | 1.65 million |
| `market_routes` | ownership of physical subscriptions, callbacks, what a released route still hears, late status | 2 routes, 1 history request, 1 retry, 1 dropped task, 1 status | 3.67 million |
| `bars` | no bar lost, no gap unnoticed, open slots, recovery ends | slots 1 to 6, prefill of 3, chunks of 2, buffer of 2 batches and 3 bars, 2 attempts, 1 loss | 279 000 |

Why the bounds are enough: two trades let one wait for, overtake or expire before the
other and fill a limit of one or two; the clock reaches past place date, queue
timeout, close date and response timeout of the last request; snapshots of three
trades have known, unknown, due and undue close times at once and more close
times than trades (as in `tests/trade_manager_test.cpp:976`); the largest stamp is within the
buffer of a close time, so saturation happens. Seven generations leave room for
a request, its invalidation, a second connection and a third: a late answer
meets every context. Two tasks, two events and two callers of `shutdown()` let a posting fall before,
into and after each part of the drain and of the flush, and order is a matter of
pairs. With one round of the drain two events pass its limit.

In `file_bridge` three lines are a command, its retry and a competitor with the
same key or id; a registry of one record is full after the first, so eviction,
tombstones and the refused marker happen; three entries make the byte limit bite;
the clock passes the retention of the first command while the last line is still
in the log; a log of two lines is cleared and grows again; one fault falls
between any two file operations, and a lost checkpoint or a new writer costs none.
In `market_routes` two routes are what shared state (the provider slot, the cached
status, the quarantine) can confuse, and one dropped task, one retry and one
shutdown reach every recovery path; with two subscribers in line for one status the callback of
the first releases the other or shuts the router down. In `bars` three slots close after the prefill:
the open bar, a gap and its backfill, chunks of two over a loss that lasts three
slots, and a buffer that overflows. A live batch has the open bar, the one
before it, or both.

Symmetry is used only in runs of safety properties that do not tell the members
apart (trades, users, settings).

The type invariant of the queue is checked in `trade_snapshot`; those of the other
components are proved, or part of what is (section 6).

### Findings

Four runs end in a violation: a text of the repository says what the code does
not do. Each run checks that one property.

| Run | Property | What happens |
|---|---|---|
| `sync_rejected` | `RejectedIsRetried` | an answer rejected because the identity changed silently is not requested again; the fence of a connected account stays closed |
| `market_routes_stale` | `FailedIsHeld` | an unsubscribe completion posted before a shutdown is applied to a later retry; the success of the retry is lost and the route stays failed |
| `bars_sparse` | `ProvenIsSettled` | a gap answered completely without its last bar (a closed session) is found and requested again for ever |
| `bars_prefill` | `LiveHasItsPrefill` | the transport is lost during the prefill, whose boundary then closes; the repeated prefill is answered without proof, only the boundary slot is recovered, and the route is LIVE without the closed bars before it |

### Remarks

Behaviour the models show and no run is kept for, since it follows from one
place in the code or needs settings the defaults exclude:

1. A request that waits too long in the queue is finalized without a call of the
   result callback (`TradeQueueManager.hpp:309`). `TradeLifecycle` allows it.
2. The answer of an order sent before a disconnect rewrites the finalized result:
   the open callbacks of `TradeManager.hpp:311` do not look at the lifecycle token.
3. After the snapshot became unavailable the end of a local trade publishes a count
   without the broker's trades; admission is closed meanwhile.
4. Starting a snapshot request clears the flag of a delayed refresh that is still
   pending, so refreshes can pile up.
5. With `ClearDuringPoll = TRUE` `AnsweredBeforePassed` fails: the writer clears and
   regrows the log between the two opens of one poll, and a line is passed
   unanswered (`MetaTraderFileBridge.hpp:490`). That this is the only way is proved:
   `OrderKept` and `NothingIsSkipped` assume `~ClearDuringPoll` and nothing else.
6. A checkpoint lost while the log is empty lets a new writer start again at 1;
   the bridge silently passes lines below its high-water mark. `LoseCheckpoint`
   excludes that case.
7. Tombstones count towards the byte limit of the registry, so evicting records to
   tombstones frees nothing: past the limit every new command is refused until tombstones expire.
8. A callback that throws is answered with an error, and the repeated command with
   `in_doubt`.
9. A subscribe can be refused as if cleanup were pending, when another route's
   completion was recorded and its reservation not yet marked (`posted`).
10. The release of the buffer drops every held bar up to the end of a confirmed range,
    older ones too; the watermark `verified` passes slots whose bar was never final;
    with an empty authoritative prefill holes before the first live bar go unnoticed
    (`observed = 0`). `LiveStart`, from which `LiveIsGapFree` and `NoBarLost` count, is
    therefore the boundary of the prefill or the first bar delivered, whichever is later.
11. A history completion whose owner task is refused leaves `request_in_flight` set
    for ever. `BarContinuity` has no refusals.
12. A route can hear a status after its release. `route_status` collects the subscribers
    under the mutex and calls them outside it (`MarketDataRouter.ipp:5006-5054`) with no second look at
    the route, so when the callback of one subscriber releases another route, or calls
    `shutdown()`, that subscriber still gets the status. `MarketDataRouter.hpp:44` says that "Releasing a
    route stops delivery immediately", `guides/market-data-router.md:194-195` that the route stops
    receiving data "as soon as" its handle is released, and lines 899-900 that after `shutdown()` "New routes and user
    delivery stop immediately". What does hold, and is checked and proved, is
    `ReleasedHearsOnlyTheRest`: only the status that was being handed round, and that once.

## 5. Fairness

`TradeExecution`: weak fairness of the clock and of the loop's turns, since the
loop task is periodic; strong fairness of each trade's answers and delayed
check, because a request is answered or times out and a later turn polls it,
while the phase in which it is polled comes and goes. Clients, quotes,
snapshots, disconnects and the connection flag are not fair.

`PlatformTasks`: threads that began `run()` or `shutdown()` go on, a walk goes on
(callbacks return), the worker and the host loop continue. Nobody has to call
`run()` or `shutdown()`.

`LifecycleStack`: the host keeps calling `process()`, modules return, and at some
time they cease to throw: a module that throws in every turn starves the
modules above it, which the code cannot help. `ShutdownEnds` also excepts an
application that stopped a module under a running one that waits for it.

`BarContinuity`: the provider answers each history request, the transport that was
lost comes back, the host goes on calling `process()`, slots go on closing. A
truthful answer is not assumed to be a good one: failures, malformed and partial
answers are free, and `RecoveryEnds` holds because attempts are bounded.

`FileBridge` and `MarketRoutes` are safety only: every fault and retry there is bounded, and
what is left undone at the bound says nothing of the code.

`ActiveTradesSync` has no liveness property: its bound on generations would cut
every infinite behaviour short. `RefreshIsComing` and `SyncUnderWay` say as
invariants what liveness would rest on: whoever waits has something under way
that will wake him.

## 6. The proofs

The proofs are for all values of the constants and use only the named
assumptions in the modules (sets of trades, tasks, threads, users are arbitrary,
limits and bounds are naturals). Each follows the same argument: an inductive
invariant `IInv`, one lemma per property with one step per action, and theorems
that read the property off the invariant.

*TradeExecutionProofs.* The properties are not inductive as they stand.
`Placement` ties a trade's state to the list it is on and says that only a sent
order has a broker call; without it an answer could hit a queued request or a
sent trade could be sent again. `FenceOptional` keeps the fence open when no snapshot is required.
The counters need the cardinality lemmas and, for the snapshot, a lemma on
sorted, trimmed and cut sequences (`SnapshotFields`, `AppliedFields`). For the
order of reports, `ReportsTrack` says what each state lets the last report be.
`EndedTradesAreFlushed` is what makes `SettledIsReported` provable: a disconnect
meets no ended trade.

*ActiveTradesSyncProofs.* One lemma per handler: it takes a `Good` state to a
`Good` one. `RequestsOld` is the strengthening that matters: a request of the
present context was sent in the present connection, since every loss of the
connection renews the context. `Armed` says that a refresh the queue asked for has its
delayed task. The generation filter and the context check turn out to be
redundant with each other for this argument; the comparison of user and
settings is not, since the identity may change without an event.

*PlatformTasksProofs.* `IInv` is made of `Lifecycle` (who holds the lifecycle
mutex and where each caller of `run` and `shutdown` is), `Threads` (who may
walk), `Order` (lists follow tickets), `Pair` (initialize before the loop),
`Walks` (what a walk has behind it), `Drain`, `Cancel`, `Alive` and `Posted`.
`OneExecutor` follows from `Threads`: the lifecycle flags admit the worker, the
host and the stopper one after the other.

*LifecycleStackProofs.* Above the cursor every module has stopped, below it none was
asked; the type invariant is a part of the inductive one (`Inductive`).

*TradeRefinementProofs.* Every step of `TradeExecution` is one step of
`TradeLifecycle` or a stutter: `PendingSend` is `Send` together with the expired
requests it drops, closing, finalizing, quotes, disconnect and shutdown are
`Pass`. The invariant adds `Arrived` (tickets of queued requests are in the past)
to the two of `TradeExecutionProofs`.

*FileBridgeProofs.* `Fresh` is the heart of `HandedOnce`: the last number in use is
visible in the log or, when the log is empty, in the checkpoint, and the cursor and
the high-water mark never pass it; so no crash, failed write or new writer gives a
number to a second command. `Mirror` says that memory and disk differ only by
tombstones that expired, `Truth` that a registry entry describes the line it was
made for, and `Remembered` that the key of a line handed over is in the
registry until its retention has passed. By then the deadline of every line of that time has
passed as well (`LifetimeAssumption`, `Dated`), so a repeated key is
answered or found stale, never handed over again: `OncePerKey`. `Bounded` shows that
`Accept` does not evict the record it settles. `AnsweredBeforePassed` has a second
invariant on top of that one, `InOrder`: numbers go up along the log (`Increasing`), a line
without an answer is ahead of every mark and still in the log (`Unanswered`), the scan
position has only done lines behind it, unless the log was replaced and its first line
is new (`CursorBehind`), and the window under way is a piece of the log whose first line is
answered before a mark moves past it (`UnderWay`). A log cleared and regrown during a poll
leaves the position in the middle of new lines, hence the assumption `~ClearDuringPoll` of
these two theorems.

*MarketRoutesProofs.* `Agreement` ties each entry to the call that is out and to what
the provider holds; with `Over` it gives `PhysicalOwned`. It needs `Emptied`: a
completion that leaves the provider without the subscription stays true however
late the owner comes to its task. `Hushed` says that an active route that was let go is
inside its subscribe callback, or waits for the pass of the drain; `Informed`, that an active
route knows the cached status or its callback frame carries it. For
`CallbacksInOrder` the release callback is a token (`OneRelease`): it is with the
call, the provider's report, one task, the frame or the entry, in one place only, and
once called it is nowhere. `Nesting` describes the stack: only a callback is
interrupted, so it has at most two frames. For `ReleasedHearsOnlyTheRest` those who are in line for a
status are the routes of the frame at the bottom (`Waits`): no step puts a released route in
line, since `RouteStatus` collects active routes and `Hushed` says that none of them was
let go when the owner is idle, and whoever is told leaves the line (`Tells`). `Informed` counts a
route in line as informed of that status.

*BarContinuityProofs.* Each handler is a function of the route, so the proof is about
functions: `Lawful` says that a handler leaves a well-formed route (`Fit`), sends only
well-formed requests, keeps the generation and may move the earliest open slot only
down (`Follows`); lawful handlers compose. Two do more: a lost transport starts a
generation (`LostFacts`), and a final answer may move the open slot up, if it is complete,
no prefill, and covers that slot (`VerifiedFacts`, `JudgedFacts`). `OpenUntilProven`
follows for every setting of the options, with a buffer that overflows or not.

`LiveIsGapFree` and `NoBarLost` need to know what was shown: the invariant `Sound`
(`ContinuitySound`), on top of `IInv`. Its heart is `Marks`: what was shown is complete up to the
verified watermark, up to the slot before the earliest open one, and up to the last
observed slot when none is open (`Kept`); or nothing was shown yet and the first held bar is
the earliest open slot (`Fresh`). For the answers, `AskSound` says what each kind of
request covers (a prefill ends at the boundary, a recovery starts at the earliest open slot
and nothing is missing behind its target, a gap lies beyond what was observed), and
`Sole` that only one request of the present generation is out, so an answer that is
accepted is the one that was asked for. `Staged` says in which phases a route may
hold bars, await an answer or keep a retry; `Releases` what the release of
the buffer may drop; `Whole` is `NoBarLost` for every state of a handler. Each handler
has a lemma about an arbitrary route (`PrefillSteady`, `ReconnectSteady`, `LostSteady`,
`GapSteady`, `ShowSteady`, `WaitSteady`, `AnsweredSteady`, `ChunkSteady`, `RetrySteady`: a
steady route stays steady), and each action one that applies them. A batch is taken to have one
slot or two neighbours (`Fine`), as `LiveBatches` does; the proof rests on the truthful
provider of `BarsOf` and `Results`. It does not cover
`LiveHasItsPrefill` and `ProvenIsSettled`, which fail (section 4).

Only model-checked: the liveness properties (`EveryTradeFinishes`,
`StopCompletes`, `AcceptedIsCalled`, `ShutdownEnds`, `RecoveryEnds`), because TLAPS does not
reason about ENABLED. Every other property of a passing run is a theorem.

## 7. Not modelled

`PROJECT.json` lists every component that has no module, with the reason.
Parsers, encodings, price math and the stores are sequential code over data.
Of the modelled components: the trade-check request of clients
(`request_trade_check`), the stages of a login and its pending callback, the
failure streak of the balance manager, subscriptions of the event bus, delayed
and dated tasks, callbacks that throw, the continuity of ticks and the direct mode of
the router are left out.

Hazards that no property covers because their component has no module yet:

- `utils/pubsub/EventBus.ipp:94`: `notify` calls copies of the callbacks without
  the lock, so a listener may be called after it unsubscribed; an awaiter may be fired by two
  threads (`EventAwaiter.hpp:102`).
- `AuthManager.hpp:443`, `AuthManager.hpp:356`: the balance manager reconnects during a login;
  the pending connect callback is taken by completion, restart, invalidation and
  shutdown. A disconnect's second stage does not look at the generation (628).
- `RiskAdmission.hpp:332`: a second submitter with the key of a reserved request is
  told that it may submit. A newer balance may be below the reserved risk (375).
- `bridges/protocol_v1/BridgeProtocolServerBridge.hpp:1752`: a repeated request
  arrives while the first is dispatched outside the lock; operations are
  forgotten at the cache limit (1736).
- `utils/tasks/TaskManager.hpp:203`: `shutdown()` called by a task on the worker
  joins its own thread.
- `bridges/trading_view/TradingViewExtensionBridge.hpp:840`: dedupe keys are
  remembered before the dispatch.
- `data/account/enums.hpp:45` gives two timeouts in milliseconds,
  `TradeQueueManager.hpp:324` reads them as seconds; the model counts in the code's unit.
