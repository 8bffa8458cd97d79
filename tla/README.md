# Verification of crypto_public

TLA+ specifications of the stateful parts of this repository, model-checked with
TLC on small instances, and proofs about them checked by TLAPS for every value
of the constants. File names without a directory are modules of this directory;
paths with one are the repository's, relative to its root (`src/`).

1. [The system](#1-the-system)
2. [Modules and how they correspond to the code](#2-modules-and-how-they-correspond-to-the-code)
3. [Runs](#3-runs)
4. [Fairness](#4-fairness)
5. [Proofs](#5-proofs)
6. [What the work brought up](#6-what-the-work-brought-up)
7. [What is not modelled](#7-what-is-not-modelled)
8. [Plan](#8-plan)

## 1. The system

The repository is a collection of trading programs. Some run for a long time,
with several processes, threads or coroutines, against nodes and exchanges that
fail; others are jobs that are cut off and started again. These are what the
project is about.

### 1.1 The block scanner, `altcoin/web3bsc/web3bsc.py`

One class (3389 lines) that follows a chain, decodes every transaction and
reacts to some of them. Its parts:

| part | state | operations | talks to |
|---|---|---|---|
| block number poller (`poll_block_num`) | `prev_block_number`, `block_num` | ask every node, predict when they lag, append the numbers | main loop, through the manager list `block_list` |
| main loop (`poll_transactions`) | `bs_to_rm`, `workers` | start a process per due block, remove the started entries, drain `worker_tx_queue` | workers; transaction processing, in the same process |
| block workers (`get_block_transactions`) | the block being fetched, `recursion_cnt` | fetch, retry with a delay, give up, queue the transactions | `block_list`, `worker_tx_queue` |
| exit (`wait_all_th_finish`) | `all_worker_free`, the time waited | wait, drain, terminate | all workers |
| replay mode | `block_num`, range or list of blocks | push blocks through the worker slots, wait for all of them at every fiftieth block | workers |
| trade guard (`process_trading`) | `trading_details`: `is_running`, `kill_trading`, `last_trade_ts`, `successful_trade_cnt`, `transaction_lock_time` | test the limits, wait for the lock time, start a trade | other guards and trades, the operator, all through shared arrays without a lock |
| trade (`_trade_some_token_`) | the same arrays | stamp, count, build, sign, send | node |
| presale trigger (`presale_process`, `presale_claim`, `decode_dxsale_details`) | `_PRESALE_`, `_PRESALE_CLAIM_`, `presale_start_utc`, `presale_address`, `prev_block_timestamp`, `block_dt_collection` | learn the sale, watch block times, send at the right one, claim | called by every block worker and by the main loop |
| wallet cache (`get_wallet_balance`, `get_currency`) | tables `wallet_holdings` and `currency` | expire, clear, ask a site, insert; find, add and reprice | trade processes and reports, through one database |
| listeners (transfers, pools, dividends, mints) | tables of the database | recognise and record | `reward_token/db_handler.py` |
| pool access (`directWeb3.py`) | `reserves_buffer` | encode calls, pool arithmetic | node |

Hard behaviour: the poller, the loop and the workers all edit one list; a block
that fails comes back into the list while the loop is about to remove the entry
it was started from; numbers are predicted, and nodes disagree; every trigger
starts a process of its own and all of them test and set the same flags, read
the same clock and fill the same window; an exit meets running workers; the
database is used by processes whose locks are copies. Correct means: every block
ends in exactly one way, is fetched by one process at a time and costs a bounded
number of calls; no number is left out; the flags never get stuck; the limit and
the lock time hold; a stop order is obeyed; money is sent at the right time to the
right address and not again and again; an exit loses nothing; the holdings are
those of the wallet.

### 1.2 The transfer jobs, `altcoin/web3bsc/transferUtils.py`

`transfer_all` hands the tokens and the native currency of a chain of accounts
to a last one, `convert_all_to_bnb` swaps the tokens of one. State: the balances
still to go through and a nonce counted locally; everything else is on the chain.
Hard behaviour: a job ends at the first failure and is started again; nodes answer
late. Correct means: the nonce keeps step, nothing is left on the way, approvals do
not pile up.

### 1.3 The contract finder, `altcoin/crygo/div_finder/div_finder.go`

A Go program that walks from a block to the latest one with at most 50
goroutines, each of which reads a block, retries when it gets none, and sends
what it finds to `main`. State: `block_num`, `end_block`, the tokens in
`limiter_ch`, the channel `c`. Hard behaviour: a retry takes a second token
while it keeps its own; a goroutine that gives up does not return its token;
the end of the walk moves; `c` is closed while goroutines still scan. Correct
means: tokens are accounted for, no block is skipped or done twice, results are
not written twice, and an end of the program loses little.

### 1.4 The listing bot, `binance_listing_bot/`

| part | state | operations | talks to |
|---|---|---|---|
| listing poller (`BinanceListingBot.py`) | `article_dict`, `poll_result_queue`, `initial_article_cnt` | poll in processes of their own, process new articles | Binance |
| order book (`LocalOrderBook.py`) | published book, ring buffer, queue | snapshot, replay of the buffer, updates, rebuild | websocket callback, trader |
| trader (`GateioTrader.py`) | order, session totals, `listed_coins` | buy in several orders, watch and sell | order book, Gate.io |

Hard behaviour: polls overlap and go by the ids known when they were started;
answers are short, old or broken, the first one too; updates are lost, repeated
and reordered while a snapshot is under way; partial fills, failed orders and
lost answers; two coroutines that share an entry. Correct means: a listing is
announced, an old one is not; the published book is the exchange's book of its
id and never goes back; the buyer spends what it may and settles; the seller
sees what was bought.

### 1.5 The futures data grabber, `data_download/binance_future/binance_data_grabber.py`

Asks for one interval after another of every data type. State: a table with a row
per request, a lock, a thread per row that waits for its file, and the progress
file, from which a later start goes on. Hard behaviour: `run` looks at the table
without the lock; threads fail silently; the program is killed while a file is
downloaded or the progress file rewritten. Correct means: the rows cover the
dates without a hole, no file is written by two threads, a row that names a file
has it, and the return of `run` means that all is recorded.

### 1.6 The rest

Listed in [section 7](#7-what-is-not-modelled): offline calculations, scripts,
machine learning, vendored code. `PROJECT.json` lists every component with its
status, and under `hazards` what is hard to test, at its line.

## 2. Modules and how they correspond to the code

| module | models | proofs |
|---|---|---|
| `BlockPipeline` | poller, main loop, workers and exit of the realtime scanner | `BlockPipelineProofs` |
| `BlockLifecycle` | what the scanner promises about one block (abstract) | `BlockPipelineProofs`: the pipeline implements it |
| `Replay` | replay mode: the same workers, another main loop | `ReplayProofs` |
| `TradeGuard` | `process_trading`, the counting part of `_trade_some_token_`, the operator's commands | `TradeGuardProofs` |
| `Presale` | `presale_process`, `presale_claim`, `decode_dxsale_details` | `PresaleProofs` |
| `WalletCache` | `get_wallet_balance`, `get_currency`, `get_bnb_price` and their two tables | `WalletProofs` |
| `TransferChain` | `transferUtils.py` | `WalletProofs` |
| `DivFinder` | `div_finder.go` | `DivFinderProofs` |
| `ListingPoll` | `BinanceListingBot.py` | `ListingBotProofs` |
| `LocalOrderBook` | `LocalOrderBook.py` | `ListingBotProofs` |
| `GateioTrader` | `buy_thread`, `sell_thread`, `currencies_thread`, `place_order` | `ListingBotProofs` |
| `DataGrabber` | `binance_data_grabber.py` | `DataGrabberProofs` |

`MC*` modules only hold what a `.cfg` cannot write (books, functions over
strings, sequences, symmetry sets). `PROJECT.json` maps each definition to its
lines. Every module has a type invariant `TypeOK` (`TraderTypeOK` and `PollTypeOK`
in the two of the listing bot whose names carry a prefix, so that one module can
prove about all three of the bot); where a theorem does not prove
it for every value of the constants, a run checks it as a part of `Inv`.
Definitions whose comment begins with `fault:` are the mutated forms of
the definition that follows them; no specification uses them.

### BlockPipeline

One step is what another process can see between two accesses of shared state.

| code | model |
|---|---|
| `prev_block_number`, `block_num` of the poller | `prev`, `target`; `target` keeps its value between iterations because the code's variable does |
| `block_list` (manager list of number, `recursion_cnt`, `time_to_process`) | the set `block_list` of pairs, and `due`, the pairs whose time has come. A set, because `AppendsAreFresh` (proved) says that an append never meets its own entry; the order of the list only decides which block meets a full pool, which is a choice in the model |
| the for loop over the list, then the removal of `bs_to_rm` | `ScanStart`, `ScanNoWorker`, `ScanRaises`, `ScanEnd`, then `RemoveOne` per entry: workers append in between |
| `get_block_transactions` | `FetchRetry`, `FetchMissed`, `FetchSucceeds`, `PresaleRaises`, `Deliver` |
| `start_worker` draining `worker_tx_queue` | `Process`, `ProcessRaises`, `ProcessEnd`; an own or a swap transaction also starts a process in each of some free slots (`OwnJobsStart`), which ends at `OwnJobDone` |
| `wait_all_th_finish` | `WaitCheck`, `FlushEnd`, `WaitTimeout` |
| the nodes | `PollAnswered(top)` with any highest answer that is at most `MaxLag` behind the chain, and any last answer below it; `PollFails` |

The poller's numbers follow the code in detail (`ChooseTarget`), because that
is where a number could be left out: the height read, less the offset; the
prediction when the height has not grown; and, when neither branch assigns, the
raw answer of the last node that is still in the variable.

`BlockLifecycle` knows nothing of lists, slots and queues. A block is unseen,
waiting, fetching, handed, and then scanned, missed, dropped or lost, and its
calls are counted. `StatusOf` maps the pipeline onto it. The abstraction is
where a reader can see that a block is never asked for by two processes, nor
handed over twice, and which ends exist.

### Replay

`todo` is what is left of the walk from `block_num` on (`WalkOf`: a range, a
list, or 0 and a number, which is walked down). A turn of the main loop is the
scan of the retries, the placing of the next block (`BatchWait`, `StartBlock`,
`NoWorker`, or `SkipWaits` with `FetchedHere`, `FailedHere` and `RaisedHere` for
`skip_multithreading`), and the drain of `worker_tx_queue`, where an own
transaction takes a worker too (`ProcessMine`), or, while the loop holds
`workers_lock` itself, never gets one (`LocksItself`), and with `_LPPAIR_SEARCH_`
a new pair is written to `lppair_list.txt` (`ProcessPair`). `fate` records how each
block has ended.

### TradeGuard

Every access to a shared array that another process may notice is an action of
its own: `ReadLimit`, `CheckRunning`, `SetRunning`, `StopOpposite`, then the
loop `StartTrade` / `WaitForLock`, `RereadLimit`, `ObeyKill`, and
`ClearRunning`; in the trade `Stamp`, `ReadCount`, `WriteCount`, and what
follows. `successful_trade_cnt += 1` on a shared value is a read and a write.
Triggers are `Trigger` and `SwapSeen`; commands `Order`, `CountedOrder`,
`BuyThis`, `KillCommand`, `ClearCommand`, `SetLockTime`. `attended`, chosen at the
start, says whether the operator gives the kill, clear and counted commands in this run:
one that does and one that does not are then checked together, each with the directions
(`Attended`, `Used`) that keep it small. A time stamp is kept
as its age, so that time needs no bound. Accounts do not share entries; one
stands for all. History variables: `left` (what the limit still allows),
`raced` (the limit was read while a trade was not in the count) and `quiet`
(time since the last start of a trade).

### Presale

A process of a block goes through the points its `slot[p].at` names: `claim` and
`ask` (`presale_claim`, which is called in place), `watch`, `start` (the address is
read before the start), `gap`, `store`, `count`, `median` and `reset`. Between two
points another process, or the main loop with `DecodeStart` and `DecodeAddress`,
may change what it has read. The distance is stored as a `c_ulonglong`
(`% Modulus`), which is where a negative one becomes huge; the window is kept with
its index, and the median is that of the first `idx` entries. `presale_start_utc`
is represented by the sale it was read from. `Configured` has the ways `__init__` may
leave these: no address, an address of either kind whose sale is read now, or one whose
start is given. `contract` holds `data_json['contracts']` of the two kinds. `Recipient` is
where `SendMoney` sends: the address that has been read, or, of a pinksale, the
contract put down at the start, whatever a transfer of the owner has replaced since.

### WalletCache

A call of `get_wallet_balance` is the list of tokens still to be stored, a call of
`get_currency` one or two frames, `own` and, for the price of the native token,
`native`. `Filled`, `Place` and `Stored` are the list `get_wallet_holding_addresses`
makes of the rows, without those that are NULL. A statement with its commit is one
step, since each process has a copy of `conn_lock`. The sites differ in what they
store when a request fails (`Etherscan`, `Poocoin`, `Bscscan`, `SiteFails`). Prices are old or not.

### TransferChain

`Holdings` is the look at an account, `SkipToken` and `SendToken` the loop over its
tokens, `TransferToken`, `Approve` and `Swap` the transactions, `Hand` the native
one, `Restart` the operator who starts the job again. `Accepted` is what a node
asks of a transaction: the next nonce and enough native currency.

### DivFinder

A goroutine is its block and its recursion. `task` is the point it has come to,
`limiter` the tokens in the channel. `c` is unbuffered, so a send and `main`'s
write are one step (`SendResult`) or, after `close(c)`, a panic (`SendPanics`).
`status` is how the program has ended: `log.Fatal`, a panic, or the return of
`main`.

### ListingPoll

`FirstPoll`, `FirstPollRefused`, `DrainFirst` and `Initialized` are the
constructor; `ReadResult`, `ReadEnd`, `NotYet` and `StartPoll` the loop; `Answer`
and `Put` a poll process, which has the ids of its start and puts what it finds new
newest first (`NewestFirst`). The site is the number
of articles published, the server that answers any one at most `MaxLag` behind;
an answer may end anywhere (`Prefixes`), because `poll` catches every exception
and keeps what it has put.

### LocalOrderBook

`run` is the variables `pc`, `since`, `cand`, `pos`, `ob`; the callbacks are
`buf`, `bufMax`, `q`, `blocked`. The loop is asyncio's: a replay has no
`await`, so no callback runs inside it (`CallbackRuns`). The exchange's books
are `hist`, numbered; an update `[U, u]` carries the levels that changed with
those ids. Its levels are therefore a function of `hist`, and the model can say
what *true* means. The network is the quantifier in `Callback(m)`: any update
of the past, at any time, any number of times, or never. The logging line that
indexes `asks[0]` is part of the model, because it raises.

### GateioTrader

Prices are abstracted to what an order costs against its plan: an order planned
for `c` that buys `units` costs at most `units + MaxSlip`. A turn of `buy_thread` is one
step, except for its wait for the order book. `OrderFails`, `AnswerLost`, `Cleared`,
`PartialFill`, `Filled` and `PlanDies` are its outcomes; an order that buys in
`AnswerLost` (the call raised) or in `Cleared` (it was neither closed nor cancelled
with a rest) is not booked, and the next turn buys again. `LocalOrderBook` gives
it nothing but the ready event and a book of any depth.

### DataGrabber

`df` is the table, `th` what the thread of each row is at, `csv` the progress
file. `run` goes through `NextType`, `Request`, `TypeDone`, `Check`,
`StartThread`, `WriteBegin` and `WriteEnd`; a thread through `LinkReady`,
`Copied`, `Mark` and `Release`, the last two because `file_path` and `ongoing`
are set one after the other under the lock, which `ToStart` does not take.
`Restart` is a kill at any moment, with any prefix of the progress file, and a
torn row, if it was being written.

## 3. Runs

Each ends within three minutes with two TLC threads (`tlc -workers 2 -config X.cfg M`, where `M` is the
`MC*` module if there is one).

| run | configuration | bounds | checks |
|---|---|---|---|
| `pipeline` | `BlockPipeline.cfg` | blocks 0 and 1, 2 nodes with lag 1, 2 slots, no second retry | `Accounted`, `NoGap`, `CleanExit`, `KeepsLifecycle` (refinement), `EveryBlockEnds`, `KeepsUp` |
| `replay` | `Replay.cfg` | the calls 1–3, 0–3, 3–1 and the lists 3, 1, 2 and 2, 1, 2; 2 workers, a wait at every second block; one block may hold an own, a bad or a liquidity transaction | `Inv` (types, `Accounted`), `SkipsNeedCause`, `TailIsDrained`, `WalkEnds` |
| `guard` | `TradeGuard.cfg` | 2 processes, limit 1; with the operator's commands: buys, orders up to 2, one kill scope; without: sells | `RunningIsHeld`, `LimitUnlessRaced`, `IntervalUnlessRaced`, `KillWorks` |
| `presale` | `Presale.cfg` | 2 workers, 2 block times; configured a pinksale that starts at once, a far DxSale, or none; a near DxSale in the transfers; window 3, modulus 100 | `OncePerWorker`, `EarlyOnlyIfRaced`, `MoneyFitsStart`, `SendsInTheEnd` |
| `wallet` | `WalletCache.cfg` | 2 processes (symmetric), 2 tokens, an empty and a full wallet | `CacheInv` (types, `FewDoubles`, `IdsAgree`, `ListIsBounded`), `StoredIsAnswer` |
| `transfer` | `TransferChain.cfg` | 2 accounts and the last one, 2 tokens, 3 paths, one of which comes back, 2 starts | `Inv` (types, `NonceIsNext`), `AllArrives`, `FewAllowances` |
| `divfinder` | `DivFinder.cfg` | 5 blocks, 3 tokens, 1 retry, lag 1 | `OneInCharge`, `LossIsBounded`, `EndsOrHangs` |
| `listing` | `ListingPoll.cfg` | 4 articles, 2 of them old, 2 polls at a time, pages of 1 or 2, lag 1 | `PollInv` (types, `CountFits`, `CopiesAreFew`), `OldStaysSilent`, `Reported` |
| `orderbook` | `LocalOrderBook.cfg` | 3 books, 3 levels, queue 1, cache 2 (1 after a reset), 1 waiting callback | `BookIsTruth`, `CacheIsChain`, `NeverGoesBack`, `CatchesUp` |
| `gateio` | `GateioTrader.cfg` | budget 4, slip 1, 2 orders that are not booked | `SellerCanPrice`, `OneSlipAtMost`, `BuyerSettles` |
| `gateio_budget` | `GateioBudget.cfg` | budget 4, slip 1, 1 order that is not booked | `StopsAtBudget`, which is violated |
| `grabber` | `DataGrabber.cfg` | 2 data types, 2 intervals, 1 request under way, 1 restart | `NoHole`, `RecordedIsThere`, `EndIsRecorded`, `EndsUnlessStuck` |

Properties that section 5 proves and no run repeats are the type invariants of the
proved modules and `AppendsAreFresh`, `OneFetchPerBlock`, `RetryBudget`,
`TokensAccounted`, `NoDuplicate`, `FewOngoing` and `OneThread`. What runs and
theorems show together, in words:

- **Scanner.** A retry appended while its predecessor waits to be removed is
  not taken away with it, no block is fetched twice at once, none disappears,
  none costs more than `MaxRecursion + 2` calls, and none is called missed
  before it has had them. The numbers read, predicted and leaked leave no hole.
  An exit without a timeout leaves no transaction in the queue, no block with a
  process, and no process but those that its own last drain has started for own or
  swap transactions: nothing waits for these.
  Under fair scheduling every queued block ends and the poller does not fall
  behind for good.
- **Replay.** Every block of the walk ends in one way, or waits for a retry the
  end of the walk forgets. A range passes over a block only when a retry or an own
  transaction has taken a worker. No pair is written twice unless a list names its
  block twice. The last wait drains what was started, and the
  walk ends unless a transaction stops it.
- **Guard.** `is_running` never outlives its owners, although two processes may
  both have set it. The limit holds unless a process read the count while a
  trade was missing from it. The lock time holds unless a trade has not put down
  its stamp. A stop order ends a waiting process without the lock time running out.
- **Presale.** Several workers may send, but none twice. Money is sent early
  only when two processes read the clock at the same time. Sent by address, it goes to
  the sale that has started unless the main loop wrote start or address in between;
  a pinksale's goes to its contract, even when a transfer of the owner has replaced
  the start that is waited for, and to nobody when that contract was never put down.
  The process that is to send it is started in the end.
- **Wallet cache.** Concurrent callers double a row of a token, at most once per
  process, and all of them go by the first one all the same. An update that ran to
  its end, and alone, leaves the site's list, in spite of what failed before.
- **Transfer jobs.** The nonce keeps step unless a node was late. A run that comes to
  its end with good answers leaves nothing on the way, whatever an earlier run left
  where; each run leaves one allowance at most.
- **Finder.** Tokens and blocks are accounted for, no result is doubled, the
  loss at the end is bounded by the tokens, and only retries can hang the walk.
- **Listing poller.** What the first poll has taken as old stays silent. A listing
  comes at most once more than there are polls at a time, one of the
  constructor's at most once for each page it read. A new one is reported unless
  newer ones push it off the page or its symbol is not found.
- **Order book.** Whatever arrives, the published book equals the exchange's
  book of its id; its id never falls, not even over a rebuild; and what a
  callback has taken in gets into it, as long as requests do not raise.
- **Trader.** The seller sees the session's totals and never divides by zero,
  what it books exceeds the budget by one slip at most, and the buyer settles. What
  it *pays* has no such bound: an order that buys without being booked is bought again,
  and each of them costs up to the budget and a slip. So the buyer does not "stop buying
  more than our config amount" (`GateioTrader.py:257`), which `gateio_budget` shows.
- **Grabber.** The rows have no hole after refusals, failures and kills, a file has
  one thread, a recorded file is on disk, the return of `run` has recorded it all, and
  `run` ends unless a request raises or a thread dies.

**Bounds.** Two processes, polls or callbacks are enough for each race that the code
has between like actors; the pipeline has two slots, so that a process of a
transaction in one and a block in the other are a full pool, and its proofs cover any
number of slots; three tokens are enough for a retry
that waits for a token others hold. The blocks suffice for one that is being retried
beside one that is new, and the retry bound for first try, retry and giving up.
Three books give an update in order, one with a gap, one of the past and one over
several ids; a queue of one place makes callbacks wait, and a cache of two overflows
and shrinks. Two block times make one block late; the window of 3 fills, wraps and
empties; a far sale lies beyond every distance that is not wrapped;
a transfer replaces it, or the pinksale, by another. Two intervals of
two types make a type wait for another, and one restart meets every point of a
download. Two starts of a transfer let the second one find what the first has left.
The proofs lift most of the safety results to all bounds.

Bounds that a guard or a quantifier enforces are `MaxBlock`, `MaxAhead`, `MaxHead`, `MaxId`,
`MaxBlocked`, `Procs` (guard), `MaxOver`, `MaxOrder`, `Cap`, `Budget`, `MaxSlip`,
`MaxUnbooked`, `MaxArticle`, `Pollers`, `MaxStarts`, `MaxTime`, `Modes`, `Sales`,
`Listed`, `Named`, `Used`, `Attended`, `Scopes`, `LockTimes`, `Inputs`,
`Contents`, `Paths`, `MaxNative` and `MaxRuns`; each is marked `bound` in its module
(`Budget` is the program's own). `EpochAhead` stands for the first prediction of the poller, which in the
code is the Unix time over three. In `Presale` every block after `MaxTime` counts as
that one, and counters that only a property reads stop at two.

**Deadlock** is checked for the pipeline, the guard, the listing poller, the presale
and the wallet cache. The others really stop: the task dies or the bound of the exchange's
ids is reached, the program ends or hangs, the coroutines return, the walk or the
job is over. Their liveness properties say when.

## 4. Fairness

- `BlockPipeline`: weak fairness of the poller, the main loop, each worker and
  each delay: they are operating-system processes and sleeps. Strong fairness of
  a poll in which the best node is up to date, that is, nodes do not all fail or
  lag for ever. No fairness of a crash, a timeout, the exit command or the chain,
  nor of the end of a process that a transaction has started.
- `Replay`: weak fairness of the main loop and of each worker; a request ends, if
  only by the time-out of its connection. None of the exit command or of the time-out
  of a wait.
- `TradeGuard`: weak fairness of each guard process. None of the trades, the operator or
  the clock.
- `Presale`: weak fairness of each process, and of its getting a block again:
  blocks keep coming. None of the owner's transfer.
- `DivFinder`: weak fairness of the walk, of `main`, of some goroutine that can
  work and of some retry that can start. Nothing about a particular goroutine:
  Go's scheduler is fair enough for more, and no more is needed.
- `ListingPoll`: weak fairness of the constructor, of the loop and of each poll
  process. Strong fairness of starting a poll, since `poll_interval` passes again and
  again, and of one full and recent answer, since the site is not broken for ever.
  None of the publishing of articles.
- `LocalOrderBook`: weak fairness of `run` and of answered requests; strong
  fairness of a waiting callback that gets its place, since `asyncio.Queue`
  wakes waiters in order. None of the exchange or the websocket.
- `GateioTrader`: weak fairness of the buyer's turns, which is the asyncio loop.
  None of the list of currencies or of the order book.
- `DataGrabber`: weak fairness of `run` and of each thread, strong fairness of a
  thread that waits for the lock: `run` holds it only while it writes. None of a kill or
  a request that raises.
- `WalletCache` and `TransferChain` have safety properties only, and no fairness.

## 5. Proofs

All theorems hold for every value of the constants that the named assumption of
the module allows (`PipelineAssumption`, `GuardAssumption`, `BookAssumption`,
`TraderAssumption`, `ListingAssumption`, `FinderAssumption`, `PresaleAssumption`,
`ReplayAssumption`, `TransferAssumption`, `CacheAssumption`,
`GrabberAssumption`): numbers are
naturals, limits positive, initial books not crossed. TLC evaluates each of them in its runs.

**`BlockPipelineProofs`** (`TypeCorrect`, `BlocksAccounted`, `NoDoubleFetch`,
`RetriesBounded`, `ExitIsClean`, `FreshAppends`, `NoHoles`). The properties are
not inductive alone. `IInv` adds that due and taken entries are in the list and
the list's blocks were queued (`ListInv`), that a live entry excludes another one
and a process for its block (`LiveInv`), and, decisive for the removal after the
scan, that an entry in `bs_to_rm` is older than any work on its block
(`OlderInv`): so the removal never hits the fresh retry. `AttemptsInv` ties the
calls made to `recursion_cnt`, `ExitInv` the last look at the slots to what is
alive: once it has found them all free, only the drain that follows can put a process
in one, and only a process of a transaction (`LateJob`). One lemma per action that moves work;
`QuietSteps` has the others. `NoHoles` is inductive beside `IInv`: only the poller moves its variables.

The same module proves the refinement (`Refinement`: `Spec => KeepsLifecycle`). `Placed`
turns membership into the value of `StatusOf` once, using `Accounted` (the
places are disjoint). Each action that moves work then has a lemma that it is
the abstract step of its blocks; the others leave all statuses alone.

**`TradeGuardProofs`** (`TypeCorrect`, `NeverSticks`, `LimitHolds`, `IntervalHolds`).
`RunningIsHeld` is inductive over the types. The limit needs `BudgetInv`: for a
direction without a race, `Limit - cnt` and `left` agree but for one trade on
its way into the count, and at most one process is past the limit test. The lock
time needs `QuietInv`: the stamps are at most as old as the last trade, unless one
is still to come; a reset keeps it because it forgets both.

**`PresaleProofs`** (`TypeCorrect`, `SendsOnce`, `MoneyIsRight`, `EarlyNeedsRace`).
`IInv` has a part for each thing shared without a lock. `OnceInv`: who has sent is
either about to reset `_PRESALE_` or finds it reset, so it never gets past the
test again. `SaleInv`: start and address are of one sale unless the main loop is
between its two writes, and so is what a process has read unless it is marked as
touched; and a pinksale's contract, which never changes, is of the sale of the start
until a transfer replaces that. `ClockInv`: without two processes at the clock at one time, every distance
is one between a block and a later one, so none wraps and all are at most
`MaxGap`. That the median of the window is one of its distances is `NthIsSeen`: the
least number that enough entries do not exceed exists by well-founded induction on
a set, and the counts of the entries below it and up to it differ, so it is an entry.

**`DivFinderProofs`** (`TypeCorrect`, `TokensAreAccounted`, `ExactlyOneInCharge`,
`NeverDuplicated`, `LossBounded`). `IInv` adds that the goroutines of a
block follow each other, so that one is in charge, those before it wait with their nil
block and none comes after (`Succession`), that who retries has a try left
(`TriesLeft`), and that what was written is what the reader sent (`Written`). The
tokens are the cardinality of the set of holders, so each step adds or removes an
element; an unfinished block has a holder in charge of its own, which bounds the loss.

**`ListingBotProofs`** has the three modules of the bot, which share no state; a proof
of each ends in its theorems. *Order book* (`TypeCorrect`, `PublishedIsTrue`,
`NoWayBack`, `CacheHasNoHole`). `IInv` says that all updates in the queue, the cache and the waiting callbacks
are of the past. Then an update that fits a true book makes a true book
(`UpdateIsTrue`), so the overlap check cannot fire (`NoOverlap`). For
`NoWayBack`, `PastInv` has the published book no newer than `since`, the height
at which the next snapshot is requested, so the snapshot cannot be older. The cache
is a chain: what is appended follows its last update (`ChainGrows`), and forgetting
the oldest leaves a chain (`ChainShrinks`).

*Trader* (`TraderTypes`, `SellerIsRight`, `OneSlip`). `FillFits`: an order made
for what remains costs at most what remains and one slip, and when nothing
remains none is filled; `BookedStep` carries it into the totals. What is not booked
is bounded order by order.
*Poller* (`CopiesStayFew`, `OldIsSilent`). `PollIInv` counts the copies of an article
there are and those still to come, one for each poll under way that did not know it
(`AllCopies`): a poll that starts knows what was announced, so nothing else can add one
(`CopiesInv`). `OriginInv` and `NewsInv` say what the first page has made old, and that
whatever a poll brings is neither that nor known to the constructor, unless the site
has gone back.

**`DataGrabberProofs`** (`TypeCorrect`, `NoIntervalMissed`, `FewUnderWay`,
`OneThreadPerRow`, `RecordedOnDisk`, `EndRecorded`). The table only grows by
`Request`, and the row it appends is the next interval (`NextIsNew`); what a restart
reads is a part of the table (`TornIsPart`), and a part of a table without a hole has
none. So no two rows are of one interval (`RowsDiffer`): the file of a row is its own,
and the table is no longer than the intervals (`TableIsShort`). `ThreadInv`
then ties a thread to a row that is awaited, with the file closed before the row is
marked; `LockInv` gives the lock one holder; with both, no thread is left when `run`
finds no row that waits (`EndInv`). `FewInv` counts the rows that wait against
what `new_request` may still ask for, in the progress file as well.

**`ReplayProofs`** (`BlocksAreAccounted`, `SkipsHaveCause`, `TailDrained`). A block is
ahead, or somewhere else (`FoundInv`), and one that the walk names once in one of the
places only, and only once there (`SingleInv`), each for the walks it is claimed of.
While the loop waits for a block it has fetched itself, the block is both ahead and
elsewhere; `WaitInv` says so, and that the walk then advances over it. `PairsInv` puts
every pair written at its block's end. One lemma per action that moves a block shows
that it stays somewhere (`Stays`) and keeps its place single. `FreeInv` (a wait that
has seen all workers free starts none with a block) gives the drained end. For
`SkipsHaveCause` the walk is consecutive (`Consecutive`) and, while nothing else takes
workers, no more of them are busy than blocks have passed since the last multiple of
`Every` (`FewBusy`, `Since`), where the wait has left none; four lemmas on the remainder of
a successor carry this from block to block, up and down.

**`WalletProofs`** has the two jobs on wallets, which share no state of the models.
*Cache* (`DoublesAreHarmless`, `AnswerIsKept`). `CacheIInv` has a part for each promise
and `CallsFit`, which says how the frames of a call go together. `IdsInv`: a row that a
call knows, or that is stored, is the first of its token; rows are only added behind,
so it stays the first (`FirstStays`). `DoublesInv` counts, with the rows of a token,
the processes that have found none and are about to insert one: a process becomes one
of them only while there is no row, so both together never exceed the processes.
`TimesInv` does the same for the stored copies of a token and the updates that may
still store one. `AloneInv`: while an update is alone, what is stored is the beginning of
the answer and its list the rest. That the stored rows that are not NULL can be read
in order at all is `KthOf`: of finitely many numbers there is a k-th.

*Transfer jobs* (`NoncesKeepStep`, `NothingIsLeft`, `OneAllowanceARun`).
`NonceIsNext` is inductive over the types. For the arrival `HoldInv` says that, with
good answers, what the account holds of value is still on the list or at hand, and
`PassedInv` that the accounts passed hold nothing of value and no native currency
but what they have been handed since, if the path comes back to them. `AllowInv` and
`CountInv` follow the allowances: each is for a token that is still there, and one is
ahead of the number of runs only between the two transactions of a swap, or for good when
the job stops there. A path may name an account twice, and the last one anywhere.


**Only model-checked**: everything temporal under fairness (`EveryBlockEnds`,
`KeepsUp`, `KillWorks`, `CatchesUp`, `EndsOrHangs`, `BuyerSettles`, `Reported`,
`EndsUnlessStuck`, `SendsInTheEnd`, `WalkEnds`), which the prover cannot do.

## 6. What the work brought up

Behaviours a reader of the code may not expect. All of them are steps of the
models, and the properties are stated so that they say what remains true.

*Scanner*

- A process that the last drain of an exit starts for a transaction outlives the loop, because
  `all_worker_free` is computed before the drain (`web3bsc.py:3286`), in replay mode as well.
- A due block that meets a full pool is logged and removed from the list without
  ever having been asked for (`web3bsc.py:3114`).
- The handler of the scan formats `block_num`, which realtime mode never assigns,
  so the first exception ends the main loop (`web3bsc.py:3177`).
- When neither branch assigns `block_num`, the number that remains is the raw
  answer of a node, so the poller queues blocks nearer to the tip than
  `block_offset` intends ("to ensure block available", `web3bsc.py:2998`).
- When every node fails at the first poll the prediction divides the whole Unix
  time, and the poller begins at block 0 (`web3bsc.py:3016`).
- Replay: a pair `[b, 0]` walks nothing, only `[0, b]` walks down; a list never waits
  for its workers, so a long one passes over blocks; what waits for a retry at the end
  of the walk is forgotten; with `skip_multithreading` an own transaction waits for a
  lock its own process holds, and a block whose transaction raises is fetched for
  ever.

*Guard and presale*

- Two triggers of one event both pass the limit and both trade (`web3bsc.py:856`).
- A guard that is told to stop when its lock time is already over trades all the
  same, because the time is looked at first (`web3bsc.py:875`).
- The lock time is not kept against a trade that has been started but has not
  put down its stamp (`web3bsc.py:920`).
- Every `block_dt_collection_max_size` blocks the window is empty, `median` raises and the
  block's transactions are lost (`web3bsc.py:2886`). With no more places in the window
  than blocks that overlap this could go on for ever; the model keeps to windows that
  are larger.
- With both presale modes on, `presale_start_utc` is set back to -1 (`web3bsc.py:560`).
- `mp.Process(target=self.presale_claim())` runs the claim in place (`web3bsc.py:2862`).
- The presale's trade does not go through the trade guard.
- With `pinksale_address`, a transfer of the owner replaces the start that is waited for, but the
  money still goes to the configured pinksale (`web3bsc.py:2892`), without any race. With
  `presale_start_utc` given as well, the contract is never put down (`web3bsc.py:533`), the
  process that should pay dies on it (`web3bsc.py:1499`), and `_PRESALE_` is off all the same.

*Wallet cache and transfer jobs*

- A call that fails while the decimals or the price of a token are asked marks the
  token as fake for ever (`web3bsc.py:2585`).
- An answer with another status than 200 is recorded as an empty wallet, and a row
  that cannot be parsed ends the list.
- `fill_db_from_file` names a column `token_addr` that does not exist; `clear_risk_status`
  returns -1 with its deletes not committed (`db_handler.py`).
- A late node makes the transfer job skip what has just arrived, and a missing list of
  holdings makes it leave the tokens behind (`transferUtils.py:177`).

*Finder, listing bot, grabber*

- The goroutine that has started a retry goes on to read the block it did not get,
  and panics (`div_finder.go:117`).
- The buyer may pay more than its budget (finding `StopsAtBudget`): the limit price is five
  percent above the plan that the assertion compares with it (`GateioTrader.py:258`), and
  an order that bought while its call raised (412), or that is cleared without being booked
  (367), is made again.
- The seller leaves at the first failed order, though the buyer goes on (`GateioTrader.py:307`).
- Once the published book has lost its last ask, every callback raises before it
  has used its update, and the book stays as it is (`LocalOrderBook.py:241`).
- `run` may return before `end_date`, although its help says "request data till this date":
  a turn that meets nothing but refusals, or threads that end between two looks, is
  enough. A refused interval is skipped for good, and a row cut by a kill counts as downloaded.

## 7. What is not modelled

- *Decoding of transactions, listeners, token research* (`web3bsc.py`): data; the
  scanner's control depends on it only through exceptions, which are modelled.
- *Pending transactions* (`web3bsc.py`): switched off by `_SKIP_PENDINGS_`; the same
  holds for what `_wait_for_events_to_claim` switches, and for
  `wait_my_tx_to_be_mined` and `manual_push_through`, which nothing calls.
- *Amounts, gas and the kinds of transaction in `_trade_some_token_`*: sequences
  of external calls after the counting part; the early returns are there.
- *The dividend, reward and risk tables of `db_handler.py`*: nothing calls their inserts.
- *`directWeb3.py`*: one formula per call, no state; unit tests reach it.
- *`binance_trader.py`*: three threads, two events, one sale, for one day.
- *`walletFactory.py`, `walletBalance.py`, `web3Utils.py`, `web3bsc_control.py`,
  `scraper.py`, `ABIs`, `BackTest.py`, `binance_get_symbol_list.py`,
  `binance_klines`*: sequential
  reports, conversions, I/O or data, with no state that outlives a call.
- *`arbitrage`, `cryptobot`*: floating-point search and machine learning.
- *`nft`, `ethernaut`, `scripts`*: one-shot scripts, solutions of puzzles and benchmarks.
- *`3rd_party/tectonicdb`*: vendored.

Abstractions inside the modelled parts: transactions of a block travel together;
with both presale modes on, an address is configured;
wall-clock time only matters as order (delays end, ages grow), except for the
block times of the presale; log and result messages are left out; a snapshot is
not cut to 100 levels; errors that come as an order-book message (the connection
is closed) are left out; the start of a process does not fail in replay mode;
amounts of tokens are worth a transaction or not; with `_LPPAIR_SEARCH_` a replayed
block holds liquidity transactions only, without it none that counts.

## 8. Plan

What is left, in this order:

1. `PoolMath`: `get_swap_amount_out` and `get_swap_amount_in` over integers:
   the product of the reserves never falls, a swap never empties a pool; lemmas for all reserves.
2. `BinanceTrader`.
3. `ListingTrade`: composition of `GateioTrader` with `LocalOrderBook` (ready
   event, depth of the book) and with the announcements of `ListingPoll`.

Dependencies: `BlockPipelineProofs` extends `BlockPipeline`, which instantiates
`BlockLifecycle`; `ListingBotProofs` extends `LocalOrderBook`, `GateioTrader` and
`ListingPoll`, and `WalletProofs` `WalletCache` and `TransferChain`; each other `*Proofs` and `MC*` module extends its component's module,
and nothing else depends on anything.
