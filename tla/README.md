# Formal model of the Helios arbitrage bot

TLA+ specifications of this repository, TLC configurations that
check them on small instances, and TLAPS proofs of the main results for every
value of the constants.  Source paths below are relative to the repository.

## 1. Inventory

Helios is one Rust process (`helios/src/main.rs`) of some twenty threads, joined
by crossbeam channels and shared `DashMap`s, and a few helper services.

| component | state | operations | interacts through |
|---|---|---|---|
| Packet ingest, `SigVerifier` | sockets, leader schedule | receive, parse, verify | `try_send` on a bounded channel to signal-processor |
| Deduper, `FecAssembler`, `BlockhashDeriver` (`spy-node/src`) | LRU of shred keys; FEC sets and slot buffers; one hash | `is_duplicate`, `ingest`, `prune_old_slots`, `on_entries_decoded` | one thread, signal-processor; blocks go to the decoder, the hash to the executor |
| `SignalProcessor`, `NewPoolMonitor`, `WalletTracker` (`market-engine/src`) | dirty marks, watch list, histories of wallets | decode, apply, insert pools, search unknown pools, emit signals | `PoolStateCache`, signal channel, threads of its own |
| `PoolStateCache` (`market-engine/src/pool_state.rs`) | pools, vault index, pair index, `swap_gen` | upsert, remove, `update_reserve_by_vault`, `apply_swap_delta`, `apply_shred_delta` | every producer and consumer of prices |
| dirty-vault-refresh, `PoolHydrator` | the marks or pools being fetched | drain, fetch, overwrite | `PoolStateCache`, RPC |
| sig-fanout and the route engine thread (`helios/src/main.rs`, `market-engine/src/route_engine.rs`) | `RouteCache`, token graph, rejected cycles, cooldown, last emitted generation | turn of the loop, Bellman-Ford, emission | signal channel in, opportunity channel out |
| Scanners and quote engines (`cross_dex.rs`, `opportunity_scanner.rs`, ..., `orca.rs`, `meteora.rs`, ...) | counterpart index | scan, quote, rank | add routes to a turn of the engine |
| Executor thread and send tasks (`executor/src/lib.rs`) | `route_dedup`, cached blockhash, environment file | cooldown, re-quote, build, simulate, send, poll, record | opportunity channel in; Jito, TPU and RPC out; ML scorer |
| `TxBuilder`, flash loans, `FlashSelector`; programs `helios-arb` and `port-flash-receiver` | token programs of mints | choose lender, build, fall back; check, hop, repay | executor; the chain |
| ALT cache (`executor/src/alt_loader.rs`) | maps in memory, a JSON file, pending creations | `try_get_or_spawn_create`, create, extend, persist, restore | executor thread, `alt-create-bg` threads, the chain |
| Graduation sniper (`executor/src/sniper.rs`, thread in `helios/src/main.rs`) | tokens and pools sniped, open auto-sell tasks | deduplicate, check, buy, watch the price, sell or burn | graduation channel, RPC, Jito, a runtime of its own |
| Strategy logger (`strategy-logger/src`), ML scorer | bounded channel, batch, tables; models | log, batch, write; score | every thread; PostgreSQL, Redis |
| agave-lite-core, mini-agave, sim-server | caches of accounts, blockhash, epoch | poll, subscribe, reconnect, serve | RPC, gRPC, HTTP |
| geyser-plugin, local receiver, Richat feed | vaults watched, subscriptions | load keys, send, receive, resubscribe | UDP, gRPC, `PoolStateCache` |

### What is hard here

* **Unreliable delivery.**  Shreds are lost, duplicated and reordered; the
  boundary of an entry batch may be the one that is missing.
* **Lock granularity.**  `DashMap` guards are held for single statements: a value
  read under one guard is used after it was dropped (`route_dedup`, pool quotes,
  `swap_gen`, the map that is written to the ALT file).
* **Late results.**  Send tasks outlive the opportunity that started them by
  seconds, creation threads outlive their 60 s entry, and status polls give up
  on transactions that land afterwards.
* **Limits.**  LRU eviction, `try_send` on full channels, `retain` on a full map,
  arithmetic in 64 bits on amounts taken from foreign transactions.
* **Two writers of one value.**  A poller and a stream store the same account, a
  hash and its slot are written in two steps, a pool is inserted by one thread and
  fetched by another.
* **Agreement at a distance.**  A transaction carries indices, counts and account
  lists that other programs take apart again; a scanner's profit is computed on
  pools that have moved.
* **Crash and restart.**  The bot restarts itself when it switches to live
  trading, the ALT file is rewritten without a temporary file, and ids start again
  with every process while the tables of the log stay.

The full list, one entry per place in the code, is `hazards` in `PROJECT.json`,
with the properties that cover each of them.

## 2. Modules and the code

One module per component; `MC*` modules give the constants for TLC and compose
components, `*Cases` modules hold the inputs of a run, `*Proofs` modules the
theorems.  `map` in `PROJECT.json` gives the source lines of every definition.
Definitions marked "Mutant" are deliberately wrong versions of the definition
after them; no specification uses them, they serve to show that a property can
fail.

| module | component | composed by |
|---|---|---|
| `FecAssembler` | shreds to decoded batches | `MCShredPipeline` |
| `SwapDecoder`, `Signals`, `WalletTracker` | transactions to signals | `MCShredPipeline` |
| `AltCache` | lookup tables | `MCAltCache`, `MCTransactions` |
| `FlashTx` | builder, lenders, on-chain programs | `MCTransactions` |
| `PoolState` | one pool and its writers | `MCPoolState` |
| `RouteEngine` | the engine's turn and its cache | `MCRoutes` |
| `PoolQuotes`, `Search`, `TokenGraph`, `VenueQuotes`, `RouteSearch` | what a turn finds | `MCRoutes` |
| `Executor` | executor thread and send tasks | `MCExecutor`, `MCOutcomes` |
| `StrategyLogger` | the log | `MCOutcomes` |
| `Sniper` | graduation sniper | `MCSniper` |
| `LatestSlot`, `AgaveLite`, `MiniAgave`, `SimServer`, `PoolHydrator` | services that follow the chain | `MCFeeds` |
| `VaultFeeds` | geyser plugin, local receiver, Richat feed | `MCVaultFeeds` |

**Composition.**  `MCShredPipeline`, `MCTransactions`, `MCRoutes`, `MCOutcomes` and
`MCFeeds` put components side by side that share a data path but, in the code, no
state that one writes and the other reads back: the processor's transactions are
any that a block can hold, a lookup table changes how a transaction is written
and not what it does, the log is write-only, the services share nothing but the
chain.  Interleaving such components would multiply their states and add no
behaviour either of them can notice, so a variable `part` picks the one that runs
and the others rest.  Where components do share state the module itself has all
of them: `Signals` the processor, its three kinds of threads, the monitor and the
engine; `PoolState` every writer of a pool; `AgaveLite` and `MiniAgave` pollers
and stream; `FlashTx` builder, lender, venue and program.  A property of a
composite is the conjunction of those of its parts, under one name.

### FecAssembler

The signal-processor thread from a verified shred to decoded entry batches.
`Ingest(s)` is the whole of what the thread does for one shred: the Deduper's
insertion with eviction (`seen`), the coding header the FEC set keeps
(`setMeta`), Reed–Solomon recovery (`setData`, `setCode`), the slot buffer and
its boundaries (`buf`, `ends`), emission of every complete block, the blockhash
update (`bh`) and pruning.  `Duplicate(s)` is the skip; `Lose(s)` is a shred that
never gets there.  The leader's block (how many shreds, where batches end), what
each coding header claims, and which payloads are malformed are constants.
Reed–Solomon itself is external: it gives back the missing shreds if all headers
agree with the leader's geometry and an error if they do not.
The loop of `emit_ready_blocks` is the set `Ready`; `MCShredPipeline` writes
`find_complete_data_block` and the loop out, one index and one turn at a time, and
`ReadyIsTheLoop` says of all buffers and boundary sets that the loop takes exactly
that set and leaves nothing its scan would still find.

### PoolState

One pool, its two sets of reserves (`res`: polled, `opt`: optimistic) and all
the threads that write them.  The chain's true balances and the older,
finalized ones an RPC node answers with are part of the model, so that
accuracy is a statement about two states and not about an assignment.  Arithmetic is
modulo `Mod` (2^64 in the code), saturating where the code says `saturating_*`
and wrapping where it does not.  The steps are cut where a guard is dropped:
`ProcessSwap` (tracker, under its guard), `QuoteSwap`, `ApplySwapDelta`; `Drain`
(iterate) and `DrainRemove` (remove the collected keys), `Fetch` or
`FetchFails`, one `ApplyVaultBalance` per vault.  The set of marks belongs to all pools:
`Others` are the vaults of the rest, marked by swaps there (`MarkOther`), and a
drain breaks off at `MaxDrain` vaults, any ones, since a `DashMap` iterates in
the order of its hashes.  A mark left behind waits for a later turn.

### RouteEngine

The engine's turn: `Take` everything queued and keep the newest signal, drop it if it
is a transaction detected too long ago (a signal of another kind is dated when it is
taken and never too old: `fresh`) or if the engine is in its cooldown, read `swap_gen` (`ReadCurrent`), skip or run Bellman-Ford (`ReadGen`, `Hit`, `Scan`,
`Store`), then `NothingFound`, `Suppress` or `Emit`.  Writers write and bump in two
steps that other threads can separate, or in one when the code holds the guard.
Reserves are abstracted to the number of writes each writer has made: a search
result is the vector of writes it has seen, which is exactly what "stale"
means.  `Scan` sees any vector between what is published and what is written,
because the engine copies the pools one by one.

### Executor

`executor_loop` (cooldown check, failure count read, claim, then the FAST_ARB or
the simulated path with each of its early `continue`s) and up to |Sends|
concurrent send tasks with their channels, polls and outcomes.  `Restart` is the
`systemctl restart` that `flip_to_live` spawns.  What a re-quote, a build, a
simulation and the network answer is a choice.

### AltCache

`try_get_or_spawn_create`, the creation thread step by step (create, extend per
chunk, wait for activation, enter the map, collect, truncate, write, remove the
pending entry), failures of each step including "reported as failed but landed",
expiry of the 60 s entry, crash and restore from the file.

### SwapDecoder and Signals

`SwapDecoder` is what the processor reads in the top-level instructions of a
transaction: an instruction is its program, discriminator, size, direction byte,
amount and accounts, of which those that only a lookup table names are `Loaded`.
`Signals` is `handle_new_tx`, one step per lookup, write, send and early return,
with what it shares: the pool cache, the watch list of `NewPoolMonitor` (also swept
by the engine's thread) and the threads it starts for a graduation, for the
counterparts of a pool and for unknown pools.  Reserves are abstracted to their
origin (`empty`, `partial`, `estimate`, `chain`), which is what the properties ask.
The engine's loop takes all that is queued and keeps the newest signal; `EngineTooOld`
drops a transaction past its age and `EngineRests` whatever comes in the cooldown
after a turn without a route, both before any scan and before the watch list is looked
at; `EngineWakes` is a turn that scans.  Transactions of other pools come in between,
any number of them, and leave a signal (`ForwardUnrelated`).
`stale` remembers the writes since the engine last *took* a signal, and of a swap whether a
whale swap of its transaction was signalled before it (finding 12); what the engine takes it
may still drop.
`WalletTracker` is `observe_swap`: a ring of swaps per wallet, its category, its
patterns.

### FlashTx

From a route to the chain.  `Select` is `FlashSelector`; the builders of every lender
produce sequences of instructions whose data are the fields a program reads and
whose accounts carry their role; one action of the model executes one instruction:
token accounts, borrow, swaps, `helios-arb` with its hop loop and profit check, the
Port receiver, repayment, tip.  A failing instruction undoes all of it.  What a swap
yields is a choice, also nothing near what was quoted.  Lenders' and venues'
programs are external and check what the code's comments and builders rely on; `KnownOps`
are the discriminators the venues take, in the run both of the two the code has for
Meteora and of Raydium's the one of `build_swap_data`; the direct builder has another
one for Raydium and names no health accounts at the end of its loan (finding 14).  Direct transactions, which the fast path builds with MarginFi
only, therefore never land in the model.  `PreflightOk` has all checks of
`preflight::check`, profit and risk included, and `DirectEncodable` asks, as the code,
for less complete metadata than `Encodable`.

### PoolQuotes, Search, TokenGraph, VenueQuotes, RouteSearch

`PoolQuotes` is the cache as the scanners read it: quotes, fees, pair keys, and what
a route is.  Each scanner of `Search` is a set: the routes it may return on the pools of
a moment, whatever order it walks a hash map in; `found` holds them until the
engine takes them on, while feeds move the pools and the counterpart index grows
old.  The backrunner is one of them; `AfterWhale` are the pools it takes for granted.
`TokenGraph` is the persistent graph of Bellman-Ford: rebuilt or re-weighted,
searched from one start token after the other with the cache moving underneath,
cycles rejected for ten seconds, `cycle_to_route` with rotation and bridging.  The
pools of a cycle are chosen in one step (`WalkCycle`) and quoted in another
(`RequoteCycle`), so a route may be quoted on pools that have moved since it was
chosen.  Within each of the two, `cycle_to_route` reads the cache once per hop and the model
all hops at once: a feed that writes between two hops of one quote mixes two moments,
which no model here shows.  The
rates are exact fractions instead of logarithms.  What a route is worth is found by replaying
it hop by hop (`Replay`): each hop meets the reserves the hops before it left, and a pool
with ticks or bins trades at the price of the active one throughout (`Landed`), so that
`RoutesPay` says nothing about routes that move such a pool across a tick.  `VenueQuotes` takes the walks of a
Whirlpool, a DLMM pool and a stable-swap pool one iteration per step and quotes the
output back.  `RouteSearch` puts the three together.

### StrategyLogger

The bounded channel (`Send` never waits), the pg-logger thread (`Connect`, `Prepare`,
`TakeBatch`, one `Write` per event) and the tables whose rows refer to each other.  A write
may fail for its own reasons or because the connection is gone, which no code makes
again.  `Restart` keeps the tables and starts the ids again.

### LatestSlot, AgaveLite, MiniAgave, SimServer

An account's data is the slot of its last change, so stale is less.  `LatestSlot` is
the abstract cache: the slot an account is held for never goes back.  `AgaveLite`
(poller with its batches, stream with its reconnects, `upsert` and its `fetch_max`)
implements it through `held <- [k |-> cache[k].slot]`.  `MiniAgave` has the pollers of
hash, accounts and metadata, the stream, and the handlers, which read pairs of atomics
in two steps; the hash poller compares slots, writes the hash and raises the slot in three
(`HashPolled`, `HashWritten`, `HashStamped`).  `SimServer` has the blockhash cell with two writers, the accounts of the
geyser cache, and the dispatch of each method to cache, upstream or TPU.

### PoolHydrator

`refresh_all` as a thread in rounds (pool accounts, then the arrays or market each refers
to, then vaults), each answer fetched first and stored entry by entry;
`refresh_single_pool` beside it; requests that fail in whole or in part; the filter of
NO_AGAVE.

### VaultFeeds

The geyser plugin from its file of keys (decoded with the digits of base 58, here base
5) to the datagrams it sends, which may be lost; the local receiver with an index that
is rebuilt every minute; the Richat feed with subscription, re-subscription and backoff.

### Sniper

The graduation-sniper thread: `Receive` (token map), the two `block_on` calls
before `snipe`, the pool map, the two buy paths (`safety`, `vault`, `build`,
`simulate`, `spawn` for PumpSwap; `v4` for Raydium) with every early return.
`auto_sell` tasks run on the thread's current-thread runtime and take steps only
while the thread is inside a `block_on` (`Driven`).  The task's loop is
`Monitor`: `Observe` keeps peak and drops, one operator per exit rule decides.
Time passes for a holding task whether it is driven or not (`HoldExpires`).
The chain is not state: a read finds any reserves in `Markets` or fails, and a
failed read is 0, as in `read_vault_balance`; the two vaults of a poll are read one after
the other, so they may be of two markets, and either read may fail alone.  Values are integers as in the code;
the two comparisons of floating-point percentages are cross-multiplied.  Entries of
the maps may expire at any moment at which no snipe is working on them, since
300 s are more than the timeouts of one snipe add up to.

## 3. Runs

| run | result | what it shows |
|---|---|---|
| `shred_pipeline` | passes | `ReadyIsTheLoop`: the set the model emits is what the code's scan and loop find; `BlocksAreBatches`: a block is exactly one entry batch; `DeliveredOnceDetermined`: no block is forgotten that could be known; `ReplayNeedsEveryShredAgain`: a block comes twice only if each of its shreds did; `BlockhashOfNewestSlot`; `SignalsAreComplete`: every transaction is announced once and, but for the swaps after a whale swap (finding 12), no swap or refresh it caused is left unannounced (`ChangesAreAnnounced`); `NewPoolsFollowed`: fetched reserves give way to estimates only in two named cases, and a watched token's second pool is found if scans go on (finding 15); `SmartMoneyIsNeverFound`: no wallet can get that category (finding 11) |
| `transactions` | passes | `TransactionsAreRoutes`: the accounts helios-arb cuts out of its list are those of each hop; `LandedIsSafe`: brackets close around all swaps whatever stands before them (`LoansAreBracketed`), what lands has repaid, and through helios-arb costs at most the lender's fee; `MappedTablesActive`: the builder never gets a table that is incomplete or not active, through failures, expiries and crashes; `CreationsBounded` |
| `executor` | passes | `SendsSpaced`, `BlacklistUntilEvicted`; `OutcomesTrue`: records and failures say what happened; `ModesKept`: JITO_ONLY holds on every path and nothing is sent before a simulation passed in DRY_RUN; `FastSendsRecorded`; `LogIsTrue`: no event is lost uncounted, executions are linked to their own opportunity whenever it was written, outcomes and sales are on the right rows |
| `pool_state` | passes | `MarksReachTheFetch`: a vault marked at any moment of a drain is still marked or in the request; `SwapKeepsProduct`: applying a quoted swap that wraps nowhere never lowers the constant product; `MarksAreServed`: a mark is asked for eventually if the marks come to fit into one turn or no other pool is marked afresh (finding 4) |
| `route_engine` | passes | `RouteCacheCurrent`, `EmittedRoutesCurrent`: no cached or emitted Bellman-Ford route misses a write that was published before; `OneEmissionPerGeneration`; `RoutesPay`: every route found is closed, chained and pays what it claims on the pools it was quoted from; `BorrowsAnchor`: but for three scanners and stored circuits from USDT (finding 13) it borrows what a lender lends; `QuotesHold`: no quote gains by going there and back, walks use the liquidity of their position and all of their bins |
| `sniper` | passes | `NoDoubleBuy`: signals repeated for other pools and launchpads buy a token once per entry; `OnlyLiveSends`; `ClosedWhileDriven`: while the runtime is driven again and again, every position is closed or given up |
| `feeds` | passes | `AccountCacheImplementsLatest`: the account cache implements `LatestSlot`; `FeedsCatchUp`: once the chain rests, accounts, hash and reserves come to be the chain's for good; `AnswersAreSound`: pairs in order, methods that agree, lists from one source; `UnresolvedOnlyOnFailure` |
| `swap_direction` | violated | a single B→A swap moves optimistic reserves that were right until then the wrong way (finding 4) |
| `alt_persistence` | violated | two creations lose each other's mapping in the file (finding 2) |
| `sniper_auto_sell` | violated | with no further graduation the auto-sell task never ends (finding 5) |
| `sniper_burn` | violated | one failed read of a vault makes tokens of full value be burnt (finding 6) |
| `geyser_plugin` | violated | the keys of the file decode to no keys at all and the plugin watches nothing (finding 7) |

Five more configurations are for reading by hand; each ends in the counterexample of
a finding: `MCBlockhash.cfg` (module `MCShredPipeline`, finding 1), `MCBlacklist.cfg`
(`MCExecutor`, 3), `MCSafetyNet.cfg` (`MCTransactions`, 8), `MCBackrun.cfg` (`MCRoutes`, 9),
`MCTrailingSwap.cfg` (`MCShredPipeline`, 12).

### Findings

1. `blockhash_deriver.rs:83` overwrites the hash with the batch decoded last,
   not with the latest batch, against the comments at lines 51 and 82.
2. `alt_loader.rs:351` collects the map and writes the file without a lock; the
   older snapshot can win, against "so this ALT survives restarts" (line 184).
3. `executor/src/lib.rs:198` evicts by age against 5 s and not by each entry's
   own cooldown, against "blacklisted 5min" (lines 932 and 1090).
4. `shred_delta_tracker.rs:134` takes the direction of a swap from the order of
   its accounts, which does not depend on the direction.  Line 336 takes at most 50 marks
   in the order of the map, so under a steady load of swaps in other pools a marked vault
   may never be among them; `MarksAreServed` has its premise for that reason.
5. `sniper.rs:497` spawns `auto_sell` on the current-thread runtime of
   `helios/src/main.rs:2322`, which is driven only inside `block_on`; while the thread
   waits for the next graduation nothing is sold, against "then sell tokens back to
   SOL" (line 483) and "Max hold 8s" (line 1643).
6. `sniper.rs:1810` burns the tokens when their value is below 5000 lamports, and a
   failed read of a vault (line 1606) makes the value 0, against "reads token balance
   and sells all" (line 1615).
7. `geyser-plugin/src/lib.rs:188` carries from the wrong end when it decodes base 58, so
   the keys of its file become longer strings of bytes, which `on_load` (line 78) drops
   without a word: the plugin watches none of the vaults.
8. `tx_builder.rs:732` calls the repayment "the ultimate safety net"; it is taken from
   the payer's own account, which may make up for what the swaps did not yield
   (`MCSafetyNet.cfg`: swaps of Jupiter in a loan of Kamino land at a loss).
9. `whale_backrun.rs:113` applies the whale's swap to reserves that have it already,
   and line 120 redefines the token to look for, so that of a whale that sold the
   token none is found.
10. `executor/src/lib.rs:1330` sends the outcome of a slow-path execution under a bundle
    id, though the row was stored without one, and line 715 counts a pool's
    performance only when it landed.
11. `wallet_tracker.rs:56` asks for a win rate of 0.6; the rate is at most 0.5.
12. `signal_processor.rs:905` forwards no transaction with a whale swap, against "Forward
    all DEX transactions to route engine" (line 902): when the engine takes the signal
    of the whale swap before the later swaps of the transaction are applied, nothing
    wakes it for those.
13. `pool_hydrator.rs:470` ("either absent or fully resolved") and 887 (the filter's
    description), `agave-lite-core/src/feed.rs:130` (answers stamped with another slot),
    `helios/src/main.rs:1777` ("whale-backrun" for "whale_backrun"), `stablecoin_arb.rs:74`
    (borrows USDT), `cross_dex.rs:1308` (circuits of the database borrow USDT) and
    `opportunity_scanner.rs:200` ("Best borrow") differ from what is said of them.
14. `tx_builder.rs:1218` puts eight bytes before the amounts of a direct Raydium swap and line
    1278 another discriminator before those of a Meteora swap than `build_swap_data` (lines 812
    and 845), and `flash_loans.rs:203` ends the direct loan without health accounts.
15. `helios/src/main.rs:1339` drops the whole turn in the cooldown, graduations and the watch
    list too, against "skip BF" (line 1279), so `SecondPoolFound` needs scans to go on; and the
    2000 ms for graduations (line 1319) decide nothing, as line 1310 dates them when they
    are taken.

### Bounds

* `shred_pipeline`: two slots with three data shreds, two batches and two FEC
  sets each.  That is the smallest block with a batch that spans a FEC boundary,
  a batch that starts after another one, and a short last FEC set.  Two copies of
  the first FEC set and an LRU of two make eviction and replay happen;
  `PruneEvery = 2`, `PruneKeep = 0` make slot 2 prune slot 1.  The second batch
  of a slot does not decode, so a block without entries occurs.
* `pool_state`: `Mod = 64`, fee 2/8, three events (transactions, writes of a feed, upserts).
  Amount 40 makes `amount * fee` wrap and is above every reserve.  Three events are enough
  for a mark during a drain and for a quote that is stale when it is applied.  One vault of
  another pool and drains of one vault: the least with which a turn leaves a mark behind.
  `swap_direction` has two events and swaps
  of one size in both directions, and no other pool.
* `route_engine`: two writers with one write each and bumps up to generation 3,
  so one write can be unpublished while the other one is published; both channels have
  capacity 1 and overflow; Bellman-Ford on every second signal.
* `executor`: two routes over a map of capacity 1, so eviction occurs; two sends,
  so two tasks of one route overlap; durations keep the order of the code's
  constants (re-quote < cooldown = backoff unit < blacklist) on a clock of three
  ticks; one poll stands for twenty.  The four settings of FAST_ARB, JITO_ONLY and
  DRY_RUN in `MCExecutor` are initial states: blind sends after a flip from DRY_RUN in
  JITO_ONLY mode, blind sends on all channels, and the simulated path live with and
  without JITO_ONLY.
* `executor`, the log: a channel and batches of two, so a third event is dropped and a
  batch holds both an event and the one that refers to it; one bundle over two
  starts of the process, which is what it takes for an id to be used twice; two snipes of
  one token over two starts; a bundle of the SQLite feed, which is never logged, next
  to another row.
* `transactions`: two routes, three tables, one expiry and one crash: the least
  with which a second creation of a route overlaps the first and a restart
  interrupts a write.  Transactions: one pool per venue, routes of two and three hops
  between two anchors and a Token-2022 mint, every lender with one configured twice and
  one whose address does not parse, pools with none, part or all of their metadata, a route
  that preflight rejects for its profit and one for its risk, yields below, at and above what was borrowed, a payer
  with and without funds of his own.
* `shred_pipeline`, processor: one token that graduates to a pool of one of two
  launchpads and has a second one created by hand, so the pair forms, expires or
  graduates again; two transactions, the second while one thread of the first still
  runs.  Of the transactions two have a large swap after a small one or the reverse, so a
  swap that starts a refresh and one that follows a whale swap both occur.  The five seconds
  between two refreshes end only between two transactions, as `handle_new_tx` does not
  wait.  Wallets: two, of which one is remembered; rings of two and three swaps, which
  reach every category and pattern at thresholds of two.
* `route_engine`, search: thirteen pools over five tokens (`MCRoutes`), of which three
  or four move in a behaviour between two or three sets of reserves, and as often as
  they like: a pair that diverges in both directions, dollar pairs, staked tokens, a
  triangle, pools without metadata, with a thin curve or below a threshold.  Percentages
  stand for basis points so that products fit 32 bits.  Venues: arrays of three ticks
  or bins, two to four of them with gaps, amounts that end inside a bin or tick range,
  cross several, or run out; curves up to a third off balance, and every way in which an
  account fails to decode.
* `feeds`: one pool, of each kind of venue in turn, one to three accounts per service, slots up
  to 2 or 3; every request may fail and every stream may break at any point.
* `geyser_plugin`: keys of three bytes in base 5; one carry between bytes is enough.
* `sniper`: one token reported for a PumpSwap pool, for the same pool by a launchpad
  that is skipped and for a second pool of the other buy path; one task at a time,
  which is all a single token can have within its entry.  Seven pairs of reserves:
  a slow fall in four steps (three drops in a row without any other rule), a rise
  beyond the profit rule, a crash beyond the stop, and a pool drained on both sides
  at an unchanged price.  A cost of 100 and a balance of 99 put prices on both sides
  of every threshold.  Two polls stand for three and for fifteen.  Poll counts above
  4 are not told apart by any rule.

`CHECK_DEADLOCK FALSE` is used where a run ends because its bound is used up (no
shreds left, no transactions left, the clock at its end).

### Fairness

* `PoolState`: weak fairness of the dirty-vault-refresh thread.  It is a loop with
  a two-second sleep that waits for nothing but an RPC call with a timeout
  (`helios/src/main.rs`), so it never stops; no fairness is assumed of the chain,
  the feeds or signal-processor, and none of the choice of the vaults a drain takes:
  that no load is high for ever is a premise of `MarksAreServed` and not of the
  specification.
* `Executor`: weak fairness of each send task.  A tokio task that has been spawned
  is polled until it ends, and every await in it is a sleep or an HTTP request
  with a timeout.  No fairness is assumed of the executor thread.
* `Sniper`: weak fairness of a snipe, whose awaits are HTTP requests with timeouts
  and sleeps; weak fairness of the clock (`HoldExpires`); strong fairness of each
  auto-sell task, because it can take steps only inside `block_on`: a runtime that is
  driven again and again, each time until an HTTP answer arrives, polls the tasks
  that are ready.  No fairness of graduations: they may stop, which is what
  `sniper_auto_sell` is about, and `ClosedWhileDriven` has `[]<>Driven` as its
  hypothesis.
* `Signals`: weak fairness of the route engine's loop, which blocks on its channel only.
  None of the processor, its threads, the network or the clock.  A step of the loop may
  be one that drops its signal; that scans go on for ever is a premise of `SecondPoolFound`
  (`[]<><<EngineWakes>>_vars`), since no fairness the code has would give it.
* `AgaveLite`, `SimServer`, `PoolHydrator`: weak fairness of the polling threads, which sleep
  and send requests with timeouts, and of handling a message that was received; strong
  fairness of one request per batch, or of one round of requests, being answered: a node
  that fails every time leaves nothing to promise.  No stream need ever connect.

### Memory model

`swap_gen` and the counters are atomics with `Relaxed` ordering.  The models are
sequentially consistent, as the deployment target x86-64 is for these accesses:
`fetch_add` is a locked instruction, hence a full barrier, and a `DashMap` guard
acquires and releases.

## 4. Proofs

All theorems hold for every value of the constants that the named assumptions of
the module admit; no theorem uses a bound of a TLC run except as a parameter.

**PipelineProofs** — about the composition `MCShredPipeline`, in three parts.

The assembler: assumptions `SlotsAssumption`, `SizeAssumption`, `BlockAssumption`,
`WireAssumption`; five theorems of its own specification, each with the part the
invariant of the run lacks to be inductive, and one about its scan.

* `TypeCorrect`, `EmittedBlocksAreBatches`.  A block is emitted between two *observed*
  boundaries, and is a batch only because there is no unobserved boundary inside.  That
  follows from `BoundariesObserved`: every index of a slot that is in the buffer and is a
  boundary of the leader has been observed as one, since received and recovered shreds
  alike register it.  The invariant is
  `TypeOK /\ BoundariesObserved /\ BlocksAreBatches`; the key lemma says that a set of
  indexes in the buffer between observed boundaries contains no other boundary.
* `HashIsNewest`.  The hash follows the decoded blocks step by step, once no block of a
  slot beyond the newest is decoded without it.
* `ReplaysNeedEveryShred`.  `ReplayInv` counts for each shred: the emissions of its batch,
  and one more while it lies in the buffer, are at most the times it was accepted or
  rebuilt.  Emission takes the whole batch out of the buffer, and only a shred learnt
  anew puts an index back.
* `DeterminedIsDelivered`.  `DeliverInv` follows a shred through the assembler: a set holds
  every shred known of it (`SetsHoldKnown`), keeps a good header when all its headers are
  good (`MetaOfHeaders`), is complete as soon as it holds enough shreds (`SetsComplete`:
  `maybe_recover` ran at that very shred), each of its data shreds is in the slot buffer
  or has gone out with its batch (`ShredsAccountedFor`), and the scan leaves no complete
  block behind (`NothingReady`).  `KnownAreHeld` compares the sizes of the known and the held
  shreds of a set.
* `LoopIsReady`.  The scan and the loop are recursive functions over `0 .. NumData`;
  `IterationExists` shows that such a function is there (without it the `CHOOSE` behind
  the definition says nothing) and `Upwards` is induction over its indexes, both for a
  *set* of numbers, so no theorem with an operator parameter is needed.  `ScanInv`: before
  index `i` the next block starts just after the last boundary below `i`, and no block of
  the buffer ends below `i`.  `LoopInv`: what is left to take is what is ready less what was
  taken, since a block out of the buffer neither hides nor makes another one
  (`TakingOneBlock`), and each turn leaves fewer shreds, so `NumData` turns are enough.

The signal processor: `SignalsStayComplete` and `EstimatesStayYielding`, for any pools, tokens,
listings, transactions and numbers of threads; assumption `SignalAssumption` (a pool has one
token besides wrapped SOL, the venues are those of the source, and a transaction that creates
a pool creates none that another graduates to: an address is created once).
`SignalsAreComplete` speaks of the moment at which all is done; `SigInv` says what is owed
before it.  It holds whatever the engine does with the signals it takes: it may drop each
of them.

* `Announced`: a write that no signal followed yet is covered by a signal in the channel,
  by the transaction that is still going to be forwarded (`Owed`: no whale swap was sent), or
  by a thread of a prediction that will send one at its end; else it is a swap after a whale
  swap.  The last disjunct was found by this proof: without it the swap step is not
  inductive, and the counterexample is finding 12.
* `PhasesSound`: what has been sent at which point of `handle_new_tx`; `ForwardedOnce` follows.
* `ThreadsSound`: a thread writes to pools that are cached, which it was told when it started,
  and nothing leaves the cache (`CacheGrows`).
* `WatchedGraduated`: a watched token is watched with a pool it graduated to, which is why a
  pool created later by hand is another one (`SecondPoolIsAnother`).

`EstimatesStayYielding` is the action property, one case per writer of the cache.

The wallet tracker: `SmartMoneyStaysUnfound`, for any history size, thresholds and swaps and
without an assumption.  `Tracked` says that the swaps counted are the buys and the sells;
`HalfInPercent` is the division.

**RouteEngineProofs** — in two parts, as a behaviour of `MCRoutes` runs one of them.

The swap generation protocol: `TypeCorrect`, `CacheIsCurrent`, `EmissionsAreCurrent`,
`NoSecondEmission`, for any number of writers, any capacity and any generation
count; assumption `EngineConstants`.  The inductive invariant adds three parts.
`CacheInv`: the key of the cache is at most the current generation.  `TurnInv`:
what the engine has read in this turn is ordered (`cur <= gen`, the published
writes at the first read are among those at the second, a result in hand covers
them), phase by phase.  `GensInv`: the emitted generations are strictly
increasing and end in `last`.  The argument for the cache: a bump makes a new
generation and publishes at once, so as long as the generation is still the key
nothing has been published since the key was read, and the search started after
that read.

The routes: `RoutesAreSound` and `RoutesBorrowAnchors`, theorems of the composition `MCRoutes`,
for any pools, reserves, fees, prices, amounts, thresholds, start tokens and stored routes.
Assumptions: `PoolAssumption` (amounts, fees and reserves are natural numbers, a fee is at most
the whole, a price is positive, a pool's two tokens differ), which is what the unsigned types of
`pool_state.rs` hold, what `10_000 - fee_bps` takes for granted, the test for a zero
`sqrt_price`, and what the venues let be created; `HotAssumption` (stored pairs are pools of
one pair, stored circuits three different pools around from an anchor), which is how
`ml-scorer/src/snapshot_scanner.rs` finds what it stores.

* `Fit` is what each route owes: closed, chained, positive, and landing on the pools of the cache
  (a backrun: on those after the whale) at no less than it claims.  `CrossDexFit`, `LstFit`,
  `TrianglesFit`, `BackrunFit`, ...: each scanner returns only such routes.  All rest on
  `AroundPays`: a route that visits its pools once meets in each the reserves it was quoted
  from (`ReplayPrefix`, an induction along the hops).
* The graph search may use a pool twice.  When a cycle is bridged to WSOL and back through one
  pool, the way back is paid on reserves the first hop has moved: `QuoteMoved` shows in integer
  division that a constant-product pool that was swapped through pays no less for the way back, and
  a pool that quotes at its active tick is not read differently.  When a cycle of two tokens
  takes one pool there and back, `QuoteBack` says that it returns no more than went in, so it
  never passes the test for a profit, with or without a bridge (`BackFit`, `BridgeLoses`).
  A walk takes no other pool twice because its edges belong to different pairs (`WalkApart`).
* Bridged or rotated, a route starts at a token that can be borrowed (`TurnFacts`,
  `RotatedAround`, `BridgeAround`).
* `SearchInv` is the inductive invariant: the cache holds what the feeds may store (`Stocked`), the
  counterpart index and the graph name pools of the right tokens (`Indexed`, `Wired`), and
  what was found fits the cache, which does not move until it is handed on.  The routes alone
  are not inductive: the index is up to a minute old, and what a scan finds through it is
  sound only because of what is said of it.
* The functions the model is built from recursively (hops along pools, replay, walks) are shown to
  exist by the least length for which they would not (`LeastNat`, `HopsDef`, `ReplayDef`,
  `WalksDef`), since an induction theorem cannot be instantiated.

**SniperProofs** — `TypeCorrect`, `SendsOnlyLive`, `BuysOnce`, for any
set of signals, prices and balances and any number of tasks; assumption
`SniperConstants`.  The inductive invariant adds: `NotYetBought` (between its signal
and its buy a token is not among those bought since its entry was made, from which
`NoDoubleBuy` follows at the two buying steps), `SignalReceived`, `PastDryRun` (the
phases after the test of DRY_RUN, and every open task, are live),
`DropsTakePolls` (n drops take more than n polls, so the condition `poll_count >= 4`
of the rug rule never delays it and three drops never leave a task holding) and
`NoPriceYet`.  `ObserveInv` is about one turn of the loop.

**TransactionProofs** — about the composition `MCTransactions`, in two parts.

The lookup tables: `AltTypeCorrect`, `MappedTablesAreActive`, `CreationsAreBounded`, for any
routes, tables, chunks per table, failures and crashes; assumption `AltAssumption` (finitely
many tables).  That a mapped table is active is not inductive: the mapping also travels
in the snapshot a creation thread took before it writes the file (`SnapshotsActive`), and
how far a table has come follows from where its thread stands (`TablesFollowThreads`).
The bound on overlapping creations becomes inductive when a route without a fresh entry
has one creation less (`CreationsFollowEntries`): that one is what the next spawn adds.

The transactions: `LoansStayBracketed` and `LandedStaysSafe`, for any pools, routes, fees,
collateral, balances, configuration and yields of the pools; assumption
`ExecutableAssumption` (a route is a sequence of hops between known mints with natural
numbers as amounts, fees and balances are natural numbers).

* What the builders promise is proved builder by builder: every one of them frames the
  instructions of its loan between plain ones (`Framed`), so the indices it writes into
  `begin`, `end` and `repay` point at their partners (`Brackets`), whatever the number of token
  accounts, a table that is missing or a lender that falls back; a lender that takes a
  repayment finds one after its loan (`RepayFollows`); a transaction through helios-arb
  takes one loan and swaps nowhere else (`HeliosSound`).
* `RepayInv`: a debt to such a lender is only found inside its bracket or inside the call
  of the Port receiver, which repays before it returns.  The end of a transaction is
  neither, so what lands has repaid.
* `CostInv`: between two instructions the payer's balance of the borrowed token covers what
  he had, but for the fee, and what he owes.  Inside the hop loop it need not, since hops
  yield what they like: there the balance that helios-arb read at its start covers it, and
  the profit check at the end carries that over.  It starts to hold because nothing has
  moved before the one loan of the transaction.  `LandedIsSafe` itself says nothing
  about the balances of a running transaction and is not inductive.

**ExecutorProofs** — `ExecutorTypeCorrect` and four results, for any routes, tasks, counts of
polls and durations within `DurationAssumption` (the order of the source's durations: the
cooldown is no longer than the blacklist, the backoff or the window of `retain`) and
`BoundAssumption`.

* `OutcomesAreTrue`: a failure count is read by the thread, carried by a task and written
  back later, while other failures are counted; `CarriedCounts` says that a carried count
  is never above the recorded failures.
* `ModesAreKept`: `DryFromBirth` says that a process born in DRY_RUN of which no simulation
  passed has nothing on a path that sends, which rests on the fast path being closed to a
  dry process and on the flip being the only writer of the flag.
* `SendsAreSpaced`: `SpaceInv` says that after a send the entry of the route bars it for the
  cooldown (`Barred`).  The claim wrote that entry before the send; `retain` only drops
  entries as old as its window, which is longer; what a task writes afterwards
  lasts longer.
* `BlacklistKeeps`: the same for the blacklist, except after an eviction, which the
  property excludes because the code's retain does forget it.  `BlackInv` needs that no
  task of the fast path, whose backoff is shorter, lives in a process that simulates.

**PoolStateProofs** — `PoolTypeCorrect`, `MarksAreNotLost`, `SwapsKeepTheProduct`, for any even
width of the integers, any fee and any traffic; assumption `PoolConstants`.
`MarksReachTheFetch` is inductive given the types: `drain_dirty_vaults` collects before it
removes, and removes what it has collected.  `SwapKeepsProduct` is an action property over
real division: `ProductKept` bounds the quoted output and `DeltaExact` says when
`apply_shred_delta` is exact.  Its proof needs what the property now says, that
the reserve of the output side is below half of the width: a larger one is negative as
`i64` and `apply_shred_delta` clamps it to 0.

**FeedProofs** — `AnswersStaySound`, `CacheImplementsLatest`, `MarketsAreAskedFor`, theorems of the
composition `MCFeeds` itself, for any venues, mints, batches, backoffs, queues, pools on file,
requests, failures and slots; assumption `DeploymentAssumption` (batches of at least one, bounds
that are natural numbers, at least one slot per epoch).  `FeedsInv` has one part per service, and
`PartsAtRest` says that a step of one leaves the others alone.

* Hydrator: the fields of entries and rounds (`Shape`); balances are bounded by the changes of the
  chain, a round's answers are disjoint from what is left to ask, pending pools are mapped ones;
  `MarketsAccounted`: during the market stage the market of a pending pool is still to be asked
  for, just answered, kept or lost.
* agave-lite-core: whatever a writer carries, an update on the stream, the stamp of the poller, the
  slot the subscriber will report, is of a slot the chain has reached.  `UpsertIsStore` maps an
  upsert to a `Store` of `LatestSlot` or to a stutter, and `StepIsStore` goes through the actions:
  that is the refinement.
* mini-agave: `HashAhead`: without a stream the hash runs ahead of the slot it is listed with, and
  no reader's slot is newer than that.
* Simulation server: `SimInv`: what the stream carries is no newer than the account.

**StrategyLoggerProofs** — `LogTellsTheTruth` of the log alone and `LogStaysTrue` of the composition
`MCOutcomes`, from `LogAssumption` (capacity, batch and starts are numbers, a batch holds at
least one event), for any bundles, opportunities, snipes and outcomes.
`LogInv` has five parts beside the types: `EventsAccounted` and one per row that refers to
another (`LinkInv`, `OutcomeInv`, `PerfInv`, `SaleInv`).  They speak of `Pending`, the batch
followed by the queue: senders only add at its end, the writer only takes from its front, so
the events about one bundle or snipe that still wait keep their order (`Ahead`), and when the
second of two is written the first is in the table or was dropped and counted.

TLC checks each inductive part's consequence on small instances (and `ReplayInv` and
`DeliverInv` themselves were checked on the instance of `shred_pipeline` before they were
proved); the proofs are independent of TLC.

### Only model-checked

* Liveness, which is out of the prover's reach: `MarksAreServed`, `FastSendsRecorded`,
  `ClosedWhileDriven`, `FeedsCatchUp`, and of `NewPoolsFollowed` that a second pool is found.
* Statements about what folds and iterations compute, checked over bounded inputs: the walks
  and the Newton iteration of the venues (`QuotesHold`) and the accounts that helios-arb cuts
  out of the flat list the builder concatenates (`TransactionsAreRoutes`).

## 5. Not modelled

`components` in `PROJECT.json` gives the reason for each part.  In short: sockets,
HTTP, byte layouts of foreign accounts, SQL and command-line tools are I/O or
one-shot; ML scores are floating point; tick, bin and stable-swap curves are modelled
at small widths, with Orca's floating point made linear; leader schedules, tip floors
and transports of the send channels; `liquidation_scanner`, `backrun_calculator` and
`shred_strategies`, whose results are reported or go nowhere; `risk_manager.rs`, which
is not compiled into the crate; helios-ingest, which nothing reads.  Of the pool cache,
two upserts that race for one entry of the pair index are left out: the worst they do is
to list a pool twice.

## 6. Plan

The modules of the first plan are written.  What remains:

* an abstract, generation-stamped price store that `RouteEngine` implements;
* the leader schedule and the tip floor of the send channels.
