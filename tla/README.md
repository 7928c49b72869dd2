# Lampyris crypto framework: a TLA+ development

This directory models the concurrent core of the trading server (`CSharp.Common`,
`Lampyris.Server.Crypto.Common`, `Lampyris.Server.Crypto.Binance`) and the connection of the client
program (`Lampyris.Client.Crypto`), model-checks them with TLC on small instances, and proves their
main safety properties with TLAPS for every instance. Sources are named by
their path in the repository; `PROJECT.json` maps every definition that models code to its lines.

The repository has no tests. What it promises is said in its (Chinese) comments, and those are the
statements the five `violation` runs and the findings quote.

## 1. The system

One server process, and client programs that connect to it. `EntryPoint` collects components by reflection, injects them into each other,
starts the `ILifecycle` ones and then ticks an update loop; `ProcessExit` calls `OnDestroy` on another
thread. Work runs on the main loop, on thread-pool tasks (`TaskManager.RunTask`, `Task.Run`), on the
callbacks of the exchange's WebSocket library, and in the continuations of `async` methods. Shared
objects are mostly not locked.

| Component | State | Operations | What it interacts with | What makes it correct |
|---|---|---|---|---|
| **DBService, DBTable** (`DB/`) | `m_ConnectionPool` (a `ConcurrentBag`), open connections, tables and rows on the MySQL server | `OnStart`, `OnDestroy`, `GetConnection`, `RecycleConnection`, `GetTable`, `TableExists`, `CreateTable`, `Insert` (one, many), `Query`, `QueryField` | called by every task that stores or queries candles, orders, accounts | one user per connection; nothing that the shutdown took out is used; no connection disappears; a write that returned is in the database |
| **TaskManager** (`CSharp.Common/Sources/Task`) | task bag, priority queue, status and progress of each task | `RunTask`, `CancelTask`, getters | runs the jobs of the quote cache | status and completion tell the truth; every task ends |
| **UniqueIdGenerator** | last timestamp, sequence number, the lock | `Get` | orders, order status | unique, increasing ids |
| **Order placement** (`TradingFacadeService`, `AbstractTradingService`, `TradingService`) | order and status records, the exchange, tables `order` and `order_status` | `ReqPlaceOrder` -> `PlaceOrder` -> `PlaceOrderImpl` per sub-account -> background inserts | id generator, sub-account map, exchange, DB | one actual order per sub-account, never two; the rows agree with the market |
| **Leverage** (`AbstractTradingService.SetLeverage`) | one result slot per sub-account, a shared loop variable | spawn a task per sub-account, wait for all, add up | exchange | the returned sum covers each account once and tells the truth |
| **Sub-accounts** (`AccountManagement`, `AccountManager`) | account map, connectivity, listen keys, user-data streams | `LoadAccounts`, `ForeachSubAccount`, `GetWebSocketClient`, user-data callbacks | orders, positions | no order through an account that is not connected |
| **Positions and trading data** | positions, open orders, leverage brackets per account | periodic refreshes and stream updates | sub-accounts, DB | a refresh never undoes a later stream update |
| **Client sessions** (`WebSocketService`) | user id -> connection info, sockets | accept loop, login, heartbeat, logout, push, broadcast | message handlers, subscriptions | an entry in the map is a live socket; a push reaches its user or nobody |
| **Message handlers** (`MessageHandlerRegistry`) | tag -> delegate | registration, dispatch | sessions, trading facade | a message reaches the handler of its type |
| **Quote provider: integrity pass** (`AbstractQuoteProviderService`, `QuoteProviderService`) | `quote/db_integrity.json`, one CSV file per symbol, bar size and day; in memory the record, intervals and downloads | `OnStart`, `VerifySymbol`, `GetMissingIntervals`, `APIQueryCandleDataImpl`, `APIQueryCandleDataAndWriteToCSV` | the exchange's archive and REST API, quote database | a range recorded as verified is accounted for, over failures, crashes and days; a file that exists is complete |
| **Quote provider: stream allocation** (`QuoteWebSocketClientAllocator`, symbol changes, callbacks) | socket clients with their symbols, symbol list | allocate, symbol changes, kline callbacks | exchange, quote cache | limits per client hold; every symbol has its streams |
| **Quote cache** (`QuoteCacheService`, `MemoryCacheService`, `CircularQueue`, `IndicatorDataCacheService`) | cached candle lists, indicator windows, quote database | `StorageCandleData` (one, many), `QueryCandleData`, `QueryCandleDateTimeList`, indicator updates | task manager, DB, provider | cached candles are ordered and complete; the cache agrees with the database |
| **Quote subscription, facade** | subscribers per symbol and interval, pooled beans | subscribe, cancel, ticker and candle push | sessions | subscribers are connected users |
| **Job system** | jobs, dependencies | `TopologicalSort`, `ExecuteAll`, `Job.Execute` | start-up code | a job runs after its dependencies, once |
| **PlannedTaskScheduler, Coroutine** | timers, pending coroutines | `AddTask`, `Update`, `Clear` | ticked by the host | each task runs when it is due |
| **RateLimiter** | time stamps of recent requests, a semaphore | `WaitAsync` | REST requests | at most *n* requests in a window |
| **Proxies, HTTP, configuration, logging, announcements, historical download, market monitor, converters, protocol** | - | mostly I/O, arithmetic on prices, or generated copies | - | - |
| **Client connection** (`Lampyris.Client.Crypto/sources/Network`, C++) | a `QWebSocket`, retry and heartbeat timers, a count of retries | `connectUrl`, the slots `onConnected`, `onDisconnected`, `onRetryConnection`, `onSendHeartbeat`, `sendMessage` and its callers | the server's accept loop, through the listener's queue | it never stops retrying, never tears down a connection it has, gets through when the server is free |
| **Client user interface**, launcher, plot renderer, resource server, OKX stub, code generators | - | separate programs without the server's core state | - | - |

What is hard here: tasks interleave on pools, maps and lists without locks; a statement, a REST call or
an insert fails in the middle of a sequence; background tasks are not awaited, so failures are lost; a
loop variable is captured by several tasks; shutdown races running jobs; the system clock drives the
ids; a pass over months of candles is killed half-way and the next one trusts what it finds on disk; a
client and the server learn of each other's moves only later. `PROJECT.json` lists each of these hazards at its line, with the properties that cover it.

## 2. Modules

| Module | Models |
|---|---|
| `ConnectionLease` | the abstract specification of the pool: a connection is unopened, free, with one borrower, lost, or retired (closed, or discarded if it was broken); it may break in use and is lent on |
| `DBService` | the pool, the statements of `DBTable` and the four call sequences ("jobs") of `QuoteCacheService` on them; implements `ConnectionLease` |
| `TaskManager` | `RunTask` and the life of a task |
| `DBWriteTasks` | composes `DBService` and `TaskManager`: `StorageCandleData` |
| `UniqueIdGenerator` | `Get`, its lock and its clock |
| `OrderPlacement` | extends `UniqueIdGenerator`: order requests from the handler to the two rows |
| `SetLeverage` | the caller and its tasks |
| `Sessions` | the accept loop and message loops of `WebSocketService`, the map of users, broadcasts |
| `CandleIntegrity` | the integrity pass at every start, its files, crashes and new days |
| `WebSocketClient` | the client's socket, timers and retries |
| `ClientsAndServer` | composes clients (extends `WebSocketClient`) with the listener's queue and the accept loop |
| `MCCandleIntegrity` | a calendar, bar sizes and tables for TLC |
| `MCDBService` | model values and symmetry for TLC; the claim `PoolServesEveryTask` |
| `DBService_proofs`, `DBWriteTasks_proofs`, `UniqueIdGenerator_proofs`, `OrderPlacement_proofs`, `SetLeverage_proofs`, `Sessions_proofs`, `CandleIntegrity_proofs`, `ClientsAndServer_proofs` | theorems and proofs |

### DBService

`pool[c]` says how often the bag holds connection `c`: a bag may hold an object twice, so exclusive use
is something to check, not a feature of the data type. `conn[t]` is the local variable `connection` of
the method that thread `t` is in, `stmt[t]` that method, `phase[t]` the point it has reached
(`GetConnection`, the statement, the commit of a batch, an open reader, `RecycleConnection`).
`AfterStatement` is the caller's code: what `QueryCandleData`, `QueryCandleDateTimeList` and the two
store jobs do with an answer, a null table or an exception. `Throw` is the difference a `finally` block
makes: in `TableExists`, `GetTable`, `CreateTable` and `QueryField` the connection goes back, in
`Insert`, batch `Insert` and `Query` it is dropped.

`state[c]` is what became of the `MySqlConnection`. A failure of the link (`ServerError`) leaves it
`"broken"`: its `State` is not `Open` any more. Where there is a `finally` block it goes back to the bag
all the same, `GetConnection` hands it out without a look at its `State`, and whoever gets it fails
(`StatementOnBroken`): every statement, and `BeginTransaction`, throws on such a connection before
anything reaches the server. `Drain` has the test of `DBService.cs:68`: an open connection is closed, a
broken one is taken out of the bag and `"discarded"`.

`TryTake` and `Add` are atomic, and every statement is one step of the server; everything between two
of them interleaves. The MySQL server is external: it keeps tables and primary keys, refuses a
duplicate key of a plain `INSERT`, applies a batch at its commit, and it or the link to it may fail any
statement at most `MaxErrors` times, *after or before* carrying it out. `OnDestroy` drains the bag on the `ProcessExit`
thread while the jobs go on. `OnStart` is one step because no other component uses the service before
it has returned; if `Open` throws in it the process does not start, and that is not modelled.

### TaskManager, DBWriteTasks

Each task id is one call of `RunTask`. Its `Enqueue` on the unsynchronised `PriorityQueue` is two
steps; if two calls overlap the queue may lose entries or throw, which is what an unsynchronised binary
heap with a growing array can do. `DBWriteTasks` runs a store job as the action of a task on a thread
of its own; the `try/catch/finally` of `ExecuteTask` is `EndAction` and `SetCompleted`. `CancelTask`
sets a token that no action reads.

### UniqueIdGenerator

`Get` holds a lock, so it is one step (`GetAtOnce`), unless the sequence numbers of the millisecond are
used up. Then the caller keeps the lock and polls (`GetOverflows`, `WaitForNextTimestamp`) while the
clock goes on and others wait for the lock. The clock may be set back once (`StepBack`), because
`DateTimeOffset.UtcNow` is the system time and the code tests only *equality* with the last timestamp.

### OrderPlacement

One request per order, on a thread of its own: `ReqPlaceOrder` enters, `AssignOrderId` calls `Get`,
`AssignStatusId` calls it again in `PlaceOrder`, then `PlaceOrderImpl` runs once for each connected
sub-account. An exchange call is accepted, refused or left unanswered; a failure leaves `PlaceOrder` by
an exception and nothing is stored. When all accounts were visited a task inserts the order row and
then the status row; its exceptions are seen by nobody.
`WebSocketService` today serves one client after another, so overlapping requests are more than the
deployed server shows; but no lock of these methods prevents them, and the serial behaviours are among
those checked. `Users` and `Accounts` overlap because `PlaceOrderImpl` looks its socket client up under
the *client user's* id among the *sub-accounts*. No code in the repository creates the tables `order`
and `order_status`; `InsertThrows` covers a server that lacks them.

### SetLeverage

`index` is the caller's variable. A task reads it when it starts (`EvaluateIndex`, after `Task.Run` and
at any distance behind the loop), calls the exchange, and stores its answer in `results[slot]`; the
bounds check comes with the store. A failed call without `Data` faults the task. `WaitAll` throws if a
task faulted, `AddUp` dereferences every element, so an element nobody wrote is an exception.

### Sessions

A step goes from one `await` to the next. `server` is `StartAsync`: it accepts, serves one client (the
`await` of `HandleWebSocketAsync`), or has ended by an exception, which nobody catches. `handler[s]` is
the message loop of a socket, `info[s]` its `clientConnectionInfo`, `map` the dictionary of users. A
login enters the map only after its answer was sent, so the client may drop in between. Answers go by
user id through `map`, not to the socket the request came from. `ReqLogout` removes the key
`WebSocket.GetHashCode()`, which is no user's id, or by accident any user's.

`BroadcastMessage` has callers on the exchange's callback threads (`QuotePushUtil`, from
`QuoteProviderService.cs:294`), so its sends interleave with logins and with each other. Enumerating a
.NET dictionary throws after a new key, not after a replaced or removed one; `grown` remembers it. The
method is `async void`: an exception ends the process. Inconsistent reads *inside* a dictionary operation, on two threads without
a lock, are not modelled. `audience` is a history variable for the property only.
Dispatch by `MessageHandlerRegistry` is the handler being called; heartbeats are left out.

### CandleIntegrity

Time is counted in candles of the first cache strategy; `DayOf` and `Midnight` are the calendar. The
variables up to `jsonState` are the disk, the rest is the memory of one start. `pc` follows `OnStart`:
for each symbol (`VerifySymbol`) and each strategy (`Examine`) `ScanCandle` walks the stored candles as
`GetMissingIntervals` does, then the gaps are dealt with one after another: skipped when the record
covers them (`Verified`, line 560), otherwise downloaded. The downloads of a gap's days are tasks that
end in any order (`Task`); a failed one leaves no file or a torn one. `QueryWritesCSV` and `QueryFails`
are the REST fallback, day by day, which catches every exception. `StrategyDone` overwrites the record
of the symbol, and after the last symbol the JSON is written: not atomically, so there is a step
between, in which the file is torn.

`Crash` ends the process at any point of the pass and tears any subset of the files that are being
extracted or written; it is also what an uncaught exception does. `gaveUp` and `cut` are history: the
files that neither source delivered, and those that a crash left torn before the fallback could
replace them. The tables only change outside of the pass: line 570, which would store what was
downloaded, is commented out, so the files are the whole result. The symbols come from the exchange at
each start (`APIUpdateUsdtFuturesSymbolsImpl`); here they stay the same.

### WebSocketClient, ClientsAndServer

A Qt slot runs to its end on one thread, so it is one step. `open()` on a socket that has a connection
drops it without a signal; an attempt that fails ends in `disconnected`. `QTimer` is periodic:
`onRetryConnection` may fire while an attempt is under way, which leaves a dead connection (`Broken`) in
the listener's queue. `orphans` are clients whose connection was accepted and that nobody reads from,
`serving` is the client of `HandleWebSocketAsync`. The queue, the network and the sockets' states are
external: a connection may break, be refused or get lost at any time, and each side learns of it later.
`Restart` is the server's operator.

The client compresses with zlib's `compress`, the server reads with `GZipStream`: `Decompressible` is
never true, `ReceiveMessage` ends the accept loop, and no login succeeds. `Sessions` models what the
server does with messages it understands and leaves clients abstract; `ClientsAndServer` models what
happens between the two programs of the repository as they are. Received messages are left out: the
server sends none before a login, and if it did, `registry()` (`WebSocketMessageHandlerRegistry.h:19`)
adds a handler only if it is already there.

## 3. Runs

| Run | Instance | Question and result |
|---|---|---|
| `db` | 2 threads, 2 connections, 1 table, 1 key, 1 failure of the server or of the link | Exclusive use, nothing in use that `OnDestroy` took out, leaks only where there is no `finally` block, starvation only for a named reason, returned writes stored, no statement on a missing table, refinement of `ConnectionLease`. All hold |
| `db_leak` | as `db`, no failure at all | `DBService.cs:52` sizes the pool by the number of tasks; `PoolServesEveryTask` is **violated**: two duplicate keys use the pool up |
| `tasks` | 2 store tasks on 2 connections, 1 failure | A task that ran to completion stored its row; a lost connection belongs to a failed task; finished tasks are quiet; every task completes unless `Enqueue` threw. All hold |
| `orders` | 2 orders, 2 sub-accounts, 2 users of whom one has an account's id, 2 sequence numbers per millisecond, clock set back by 1 | Ids increase and are new keys while the clock is not set back; a stored order was accepted exactly once per connected account; never more; no status without an order; every request ends. All hold |
| `orders_routing` | same | The class comment promises one actual order for *every* sub-account; `OneOrderPerAccount` is **violated**: all go through one account |
| `orders_status_id` | same | `order_status.order_id` is documented as the order's id; `StatusNamesItsOrder` is **violated**: `PlaceOrder` draws a second id |
| `leverage` | 3 sub-accounts | A returned sum has each account once; no error means every account has the new leverage; `SetLeverage` ends. All hold |
| `sessions` | 2 users, 2 sockets, 1 broadcast | An answer reaches the client that asked; a broadcast that comes to its end has been sent to whoever stayed logged in; a client that leaves frees the accept loop. All hold |
| `integrity` | 2 symbols, 2 bar sizes, 2 candles a day, any part of 4 candles stored, starts on days 2 and 3, 1 crash | A candle of the first bar size in the range the JSON vouches for is stored, in a complete file, given up by both sources, cut by a crash, or not searched for; the JSON is that of one pass over all symbols; no file of an unfinished day; complete files stay; the server comes up unless a crash tore the JSON. All hold |
| `integrity_barsizes` | same | The comment at `AbstractQuoteProviderService.cs:91` defines integrity as every cached bar size being complete; `EveryBarSizeAccounted` is **violated**: after the first bar size the record covers the others too |
| `client` | 2 clients, 2 retries, a listener queue of 3 | Timers follow the socket; a client without a connection has a retry coming; while the loop runs nobody is left unread; a client gets through when the loop is free; and none is served for long. All hold |
| `sessions_logout` | 1 user, 1 socket | The comment at `WebSocketService.cs:107` says that logout removes the entry from the map; `LogoutRemovesEntry` is **violated** |

Every property of a passing run has a mutant in `PROJECT.json`: a plausible bug in a mapped definition
(its operator stands beside the definition, commented "Mutant of") under which the run fails.

**Bounds.** Two threads are enough for the interleavings of pool and tables, since each property of
`DBService` speaks of at most two threads, and the theorems remove the bound. One key makes every
second insert a duplicate; one failure is enough for each method to fail at each point. Two sequence
numbers per millisecond make the generator overflow at the second `Get` of a millisecond. Width 3
separates timestamp and sequence as 1000 does. `MaxLead` keeps the clock near the last `Get`: an id
depends on the clock only through its comparison with the last timestamp. A step back by one, once,
is enough to reissue an id. Three sub-accounts let tasks collide, skip an element and run past the end.
Two sockets let one user log in twice, or two users meet; one broadcast meets both entries, and the
theorems of `Sessions_proofs` hold for any number.
Two candles a day put a gap's ends inside a day, at its midnight and across it; the symbol listed on
the day of the first start has a listing after midnight, so that its interval is empty. Two bar sizes
make the record be overwritten between them, and one crash meets every step of either pass. Two retries
make the count reach its limit and the branch that "gives up"; with a queue of three one client's
abandoned attempts can fill it.

**Fairness.** Weak fairness of each thread's own step: the operating system schedules threads, the
thread pool runs what it is given, a statement or a REST call ends in an answer or an exception (client
libraries time out), and time goes on. In `Sessions` the
continuation of an `await` runs, and `ReceiveAsync` learns that its client has gone (a close frame, or
TCP reports the broken connection); clients that stay are under no obligation to send. In
`CandleIntegrity` the pass goes on, because `HttpClient` and the REST client time out, and the server
is started whenever it is down. In `ClientsAndServer` both sides learn of a lost connection, heartbeats
are sent and a received message is dealt with (weak fairness); again and again a retry meets an empty
queue, is accepted and is answered before the next one (strong fairness, and `QueueIsWorkedOff`): the
retry interval is five seconds and an idle loop accepts in milliseconds. Nothing is assumed about
failures, the clock being set back, new requests or shutdown. `CHECK_DEADLOCK FALSE` is set where
requests and tasks are finite in number, so that the system stops when all have ended, and in
`integrity`, where a JSON that a crash tore keeps the server down; in `db` and `client` steps go on for
ever and deadlock is checked.

## 4. Theorems

All hold for any number of threads, connections, orders, accounts, keys, symbols, days and clients,
from the named assumptions of the modules: the sets are finite, the bounds are naturals, `NoConnection`, `Nobody` and `NoResult`
are not ordinary values, `MaxSequence <= Width`, each order is its own caller of `Get`, each task has a
thread of its own, and the calendar is one: a day has a midnight, days follow times, no candle is stored
before its time, and the first cache strategy has the unit interval.

* **DBService_proofs.** `TypeCorrect` is inductive by itself. `PoolInv` is the core: each connection is
  in at most one place, what is pooled or held was opened and not taken out (it is open or broken), a thread holds a connection exactly in the
  phases inside a statement. It is inductive with the type invariant, because exclusive use alone says
  nothing of *where* a thread is when it recycles. From it: `Exclusive`, `TakenOutNeverUsed`,
  `OnlyThreeMethodsLose` and `Refinement` (every step lends, returns, loses, breaks or retires one
  connection, opens all, or is a stutter; `place` is where a connection is, `broken` the set of those
  whose link has failed). `Starved` is a counting argument: if nothing is lost and the bag is
  empty, holders map onto the connections, and the thread that asks holds none. `Stored` and
  `OnExistingTables` follow from `JobsInv`, which says for each thread what its position in its job
  implies for the database (tables and rows are never removed, so what one thread knows no other thread
  can undo). The inductive lemmas are stated for `Safety`, the specification without its fairness.
  `NothingComesBack` and `NobodyServedAgain` say what the leak amounts to: a lost connection is in no
  place where a step looks for one, so losses add up, and after as many as there are connections the
  bag is empty for ever. `OutageStays` adds the failed links: once no connection in the bag or in use is
  open, none is open again and nothing more is stored until the process ends. It needs `LinkInv`: nobody
  else breaks a connection between the two statements of a transaction or under an open reader.
* **DBWriteTasks_proofs.** Every step of the tasks is a step of `DBService` or leaves it alone
  (`WritesAreSteps`), so `Safety` and all that follows from it carry over. `TaskInv` relates the status
  of a task to its place in its job: a status that is not `Running` means an idle job, and
  `RanToCompletion` means that the job returned. `TaskTypesHold`, `CompletedIsStored` and
  `DoneTasksQuiet` follow. For `LossesReported` one step loses at most one connection, and only of a
  thread whose job has just thrown (`WhoLoses`, `LoserFails`); the set of tasks with a failed job only
  grows and gains exactly that one (`FailedGrows`). `TasksKeepLease` carries the refinement over.
  `EnoughForEachTask` bounds the damage of the leak: a thread that asks holds nothing and its task has
  not failed, so connections held and lost together belong to the *other* tasks, and one is left if
  there are as many connections as tasks. So `db_leak` needs more store calls than connections.
* **UniqueIdGenerator_proofs.** `IdsIncrease` does not bound the ids by what the generator remembers. `IdInv`
  does: while the clock was not set back no id is above `Highest`, the last id while the lock is free and
  the last possible one of the millisecond while a caller waits inside it. `Increasing` and `Unique`
  follow. `Neighbours` holds even when the clock is set back: the last id that was returned is the one
  that `ms_LastTimestamp` and the sequence number stand for, and either the timestamp or the number
  changes (`LastId`).
* **OrderPlacement_proofs.** Each order step is a step or a stutter of the generator, so `IdInv` carries
  over (`OrdersIncrease`). `OrderInv` says which ids belong to which request and that ids of different
  requests differ while the clock is not set back: `OrderTypes`, `StatusHasOrder`, `KeysAreNew`.
  `PlacedInv` counts: what the exchange accepted of an order is at the account with the user's id and is
  the number of accounts visited so far (`CountsOfPlacements`). `NeverTwice` and `StoredIsPlaced` speak of
  the *sum* over the accounts, a fold. A fold is defined by recursion over the subsets of the accounts,
  and induction is not to be had; but natural numbers have a least element (`LeastElement`, from
  `WFMin`), so a smallest set whose partial sum is not what it should be leads to a contradiction
  (`SumsExist`, `SumAtOne`). Two theorems give the scope of the findings. `StatusNamesNoOrder`: unless the clock was
  set back a status row never carries the id of *any* order row, not only not of its own.
  `PlacedAtOwnAccount`: a placed order is one per account exactly when no account is connected but the
  one with the user's own id.
* **SetLeverage_proofs.** `LeverageInv` ties each task's state to its answer and each result to the one
  task that saw its index. If no element is null, `results` is an injection of the finite set of
  accounts into itself, so it reaches each of them: `OnceEach`, and from it `SetEverywhere`. `ThrowsOnlyForAReason` is the other direction: if all tasks
  ended well and an element is null, the slots are not onto, hence not one-to-one, so two tasks saw the
  same `index`. `NoTaskOutlives` is the action property that `WaitAll` buys: it waits for the faulted
  tasks too.
* **Sessions_proofs.** `StartAsync` awaits the message loop, so only one runs (`OneAtATime`). Then nobody
  can replace the entry of a session while it lasts (`OwnEntry`), which gives `AnswersArrive`.
  `AudienceInv` follows a broadcast: for each client that was logged in at its start and still is,
  either it has been sent the message or an entry with its socket is still ahead; `BroadcastsArrive` is
  the case where nothing is ahead. `ClosedEntriesStop` says what the finding of `sessions_logout` leads
  to: closed sockets stay closed, so a broadcast with such an entry ahead of it never ends, and only a new
  login of that user (or an accident) takes the entry out of its way. `AnswersArrive` does rest on the
  `await` in `StartAsync`: with `Accept` unawaited TLC finds an answer at the wrong client.
* **CandleIntegrity_proofs.** `VerifiedDaysAccounted` speaks of a JSON that may be several crashes old, so
  the invariant follows the search in memory. `Searched`: a time between the listing and the last candle
  seen is accounted for, or lies in an interval found so far (`InGap`), or its day is being fetched
  (`Pending`). When the gaps are used up this is what `StrategyDone` records (`RecordAccounted`), and
  `PassRecords` carries it to the write. Nothing of it survives a crash, and nothing needs to: files
  only grow (`FilesGrow`), so what an old record vouches for stays accounted for. Skipping a file that
  exists is right only because of `TornExplained`: a torn file is about to be queried, or given up, or
  cut. `NoUnfinishedDay` needs `FetchInOrder` (days being fetched are before today) and that `now` is a
  midnight that has passed. Three theorems follow what a crash leaves. `CutForEver`: a torn file is not
  absent, so its day never gets among the failed ones that the API writes again (`CutInv`).
  `VerifiedForEver`: no range reaches past the midnight of the pass under way (`JsonBehind`), so the
  record never shrinks. `TornRecordStays`: nothing starts the pass over a torn JSON. `OneBarSizeIsKept`
  gives the scope of the finding: with one cache strategy the promise is kept.
* **ClientsAndServer_proofs.** `RetryArmed` is not inductive: `onDisconnected` starts no timer once the
  retries are used up. What saves it is `CountedByTimer`: a retry was counted only while the timer ran,
  and the timer is stopped only where the count is reset. `NobodyForgotten` holds because a connection is
  left unread only by an exception, which ends the loop. `OneConnectionHolds` relates the two programs: a
  client that opens again first gives up what it had, so its new connection goes to the end of a queue
  that has no other of its own, and what the server answers is the client's present connection.

Every invariant and every action property that the passing runs check is proved, and so is the
refinement. The theorems whose property no run names (`EnoughForEachTask`, `NothingComesBack`,
`NobodyServedAgain`, `OutageStays`, `Neighbours`, `StatusNamesNoOrder`, `PlacedAtOwnAccount`, `NoTaskOutlives`,
`ThrowsOnlyForAReason`, `ClosedEntriesStop`, `CutForEver`, `VerifiedForEver`, `TornRecordStays`, `OneConnectionHolds`) define it beside
the proof, in the module of the proofs.

**Only model-checked**: the liveness properties (`TasksComplete`, `RequestsEnd`, `SetLeverageEnds`,
`LeaversFreeTheServer`, `ComesUp`, `GetsThrough`, `NobodyIsServedForLong`), because fairness and ENABLED
are out of the prover's reach.

## 5. What the checks do not show

* Ids repeat after the system time is set back. `IdsAreUnique` is proved only while it was not; the
  code has no test for it. Only of two consecutive calls is more known (`Neighbours`).
* That what `GetConnection` hands out works is not claimed, because it is not so: a connection whose link
  failed in `TableExists`, `CreateTable` or `QueryField` (`DBService.cs:149-152`, `191-194`,
  `DBTable.cs:315-318`) is in the bag again, and fails the next job that takes it; that job loses it if
  its statement has no `finally` block, and puts it back otherwise. Nothing opens a connection after
  `OnStart`. `ClosedNeverUsed` speaks only of what `OnDestroy` took out, and `ConnectionLease` says that
  a connection may be lent broken. A link that fails while its connection lies in the bag shows at the
  next statement, and is modelled there. `StarvedOnlyByLossOrLoad` counts connections, whole or broken.
* `SetLeverage` does not refetch the brackets after an exception, though `AbstractTradingService.cs:333`
  says a refetch follows a failure.
* SQL text, column mapping, prices, quantities and message formats are abstracted.
* `WebSocketService.StartAsync` has no caller, and the registry's tags do not match its delegates:
  handlers are modelled as called by their public signature.
* A broadcast that throws half-way ends the process; the clients behind the throwing entry get nothing,
  and `BroadcastReachesTheServed` says nothing of them.
* What `VerifiedDaysAccounted` accepts as accounted for is not always data. A first candle at the moment
  of listing is not searched for, and of a gap that ends at a stored candle the day of that candle is not
  downloaded (`NotSearched`). A day that both sources refuse is recorded as verified all the same
  (`gaveUp`). A file that a crash tore before the fallback could replace it is taken for complete for
  ever (`cut`, and `CutForEver`). And the files are never read into the tables: the loop at `QuoteProviderService.cs:444`
  begins with `break`, and the store at `AbstractQuoteProviderService.cs:570` is commented out.
* A JSON that a crash tore is not repaired: every later start throws in `DeserializeObject`, until
  somebody deletes the file (`TornRecordStays`). `ComesUp` excepts it.
* With exactly one proxy the index at `QuoteProviderService.cs:194` leaves the list; the start fails
  before the pass that `CandleIntegrity` models.
* No client and server of this repository understand each other. Apart from the two compressions, the
  client sends its messages without the `Request` envelope that the server parses, and nobody logs in
  again after a reconnect. `connectUrl`, `sendLoginRequest` and `StartAsync` have no caller. That
  `NobodyIsForgotten` holds does rest on that: with messages that can be read, a refused login
  (`WebSocketService.cs:79-82`, `LoginRefused` in `Sessions`) goes on to the next client and leaves a
  connected one unread.
* "Max retry attempts reached. Giving up." (`WebSocketClient.cpp:79`) is only logged: `RetryArmed`, a
  theorem, says that the client goes on.

### Not modelled, and why

`PROJECT.json` lists each component with its reason. In short:

* **Generated and vendored code.** Of the roughly 123,000 lines of C and C++ in the repository about
  115,000 are serialisation code written by `protoc`, kept twice (`Lampyris.Client.Crypto/sources/Protocol`
  and `Protocol/output/cpp`). They hold no decision of this program. The program's own logic is in C#,
  and it is what the modules are about.
* **Code that nothing calls.** `JobSystem`, `PlannedTaskScheduler`, `CoroutineManager`, `RateLimiter`,
  `QuoteProviderService.HandleSymbolChange`, `AbstractQuoteProviderService.HandleSymbolChanges`, the
  pushes of `QuoteSubscriptionService`, and the feed of the indicators. Without a caller their use, and so what their states can be,
  is not in the source. (Read on their own, `HandleSymbolChanges` compares the new symbols with
  themselves, and `HandleSymbolChange` starts its loop at its end.)
* **Code that is not written yet.** `UpdateOrderStatus` is empty, closing positions throws
  `NotImplementedException`, and the subscriptions after the integrity pass are commented out.
* **Code without an order to check.** The in-memory candle lists are library collections changed without
  a lock, whose torn states the source does not define; the averages of `UpdatePosition` and the
  formulas of the market monitor are arithmetic on decimal numbers.
* **The client's user interface.** `TradeManager.h:39` hands stack objects to
  `set_allocated_...`, `CandleQuoteDisplayWidget` and the launcher work on widgets and processes: what
  they do is a matter of memory and of Qt, not of a protocol.

## 6. Plan

In this order, the most important behaviour first:

1. *done* `ConnectionLease`, `DBService`, `TaskManager`, `DBWriteTasks`; `UniqueIdGenerator`,
   `OrderPlacement`; `SetLeverage`; `Sessions`; `CandleIntegrity`; `WebSocketClient`,
   `ClientsAndServer`; each with its proofs.
2. When the pushes of `QuoteSubscriptionService` get a caller: its maps together with `Sessions`.
3. When the subscriptions after the pass are switched on: the step from the pass to the live candles
   (`SubscribeAndDownloadMissingData`), which must neither miss a minute nor store one twice.
4. When the trading data are complete: a refresh against the updates of the user-data stream.
