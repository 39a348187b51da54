------------------------------ MODULE Signals ------------------------------
(***************************************************************************)
(* The signal processor (signal_processor.rs) with the new-pool monitor    *)
(* (new_pool_monitor.rs) it shares with the route engine's thread, and the *)
(* threads it starts: the refresh of a graduated pool, the refresh of the  *)
(* counterparts of a pool that was hit, the search for unknown pools.      *)
(*                                                                         *)
(* Reserves are abstracted to where they come from: "empty" (both sides    *)
(* zero), "partial" (a swap applied to an empty pool), "estimate", "chain" *)
(* (fetched).  A swap carries its amount as the class of its impact on the *)
(* pool: "none", "small", "whale" (1% or more), "huge" (50% or more).      *)
(***************************************************************************)
EXTENDS SwapDecoder, Integers, FiniteSets

CONSTANTS
    Pools,          \* pool addresses
    Mints,          \* tokens other than wrapped SOL
    MintOf,         \* the token of each pool
    Txs,            \* the transactions that arrive
    Listed,         \* pool -> venue, what the pair listing service returns
    Bootstrapped,   \* pool -> venue, pools the bootstrap may have loaded
    MaxThreads,     \* bound: threads alive when a transaction is taken
    MaxTxs          \* bound: transactions taken

VARIABLES
    cache,      \* PoolStateCache.inner
    watching,   \* NewPoolMonitor.watching
    cooling,    \* ml_refresh_cooldown: tokens refreshed less than 5 s ago
    threads,    \* the threads alive
    pending,    \* the newest signal queued for the route engine: "none", a
                \* "transaction" (it ages) or an "event" (dated when it is taken)
    dropping,   \* to_remove of a check_watched_tokens in progress
    engine,     \* the route engine's loop: "ready" for a signal, "resting" (ready
                \* but in the cooldown), "checking" the watch list in a turn
    taken,      \* how many transactions were taken (bounded)
    pc, tx, at, \* where the processor stands in handle_new_tx
    sent,       \* the kinds of signals this transaction was forwarded as
    stale,      \* history: the writes since the route engine last took a signal: a
                \* pool, and "trailing" if a whale swap of the transaction was
                \* signalled before
    reported    \* history: <<first pool, second pool>> of the opportunities of the
                \* check being made

procVars == <<taken, pc, tx, at, sent>>
vars == <<cache, watching, cooling, threads, pending, dropping, engine, taken, pc, tx, at,
          sent, stale, reported>>

Missing == [from |-> "missing"]
NotWatched == [pool |-> "none"]

Entry(dex, from, meta) == [dex |-> dex, from |-> from, meta |-> meta]

\* A signal reaches the route engine's queue.  The fan-out does not wait: when
\* the queue is full the signal is lost and the newest stays the newest.
Signal(kind) ==
    pending' \in {kind} \union (IF pending = "none" THEN {} ELSE {pending})

Known(p) == cache[p] # Missing
PoolsForToken(m) == {p \in Pools : Known(p) /\ MintOf[p] = m}

\* Pools of the same token, other than p, with something on side A.
Counterparts(p) ==
    {c \in PoolsForToken(MintOf[p]) : c # p /\ cache[c].from # "empty"}

Keys(t) == {t[i].prog : i \in DOMAIN t} \union
           UNION {{t[i].accs[k] : k \in DOMAIN t[i].accs} : i \in DOMAIN t}

-----------------------------------------------------------------------------
(* Graduations.                                                             *)

\* The launchpad named by the account keys, in the order they are tried.
GraduationSource(t) ==
    CASE "launchlab" \in Keys(t) -> "launchlab"
      [] "moonshot" \in Keys(t) /\ "launchlab" \notin Keys(t) -> "moonshot"
      [] "pumpswap" \in Keys(t) /\ Keys(t) \intersect {"launchlab", "moonshot"} = {} -> "pumpswap"
      [] OTHER -> "none"

GraduationDex(t) ==
    LET source == GraduationSource(t)
    IN IF source = "pumpswap" THEN "pumpswap"
       ELSE IF /\ source = "moonshot" /\ "raydium" \notin Keys(t)
               /\ Keys(t) \intersect {"meteora", "meteora_dyn"} # {}
            THEN "meteora"
            ELSE "raydium"

Graduates(t) == GraduationSource(t) # "none" /\ Graduation(t) # NoEvent

\* The usual reserves for a token with at most two pools, zero for the others.
EstimateFor(m) == IF Cardinality(PoolsForToken(m)) <= 2 THEN "estimate" ELSE "empty"

\* Whatever the cache held for the pool is replaced, its metadata too.
Upserted(p, dex, from) == [cache EXCEPT ![p] = Entry(dex, from, FALSE)]

Receive ==
    /\ pc = "idle"
    /\ Cardinality(threads) <= MaxThreads
    /\ taken < MaxTxs /\ taken' = taken + 1
    /\ \E t \in Txs : tx' = t
    /\ pc' = "classify" /\ at' = 1 /\ sent' = {}
    /\ UNCHANGED <<cache, watching, cooling, threads, pending, dropping, engine, stale, reported>>

Graduate ==
    /\ pc = "classify"
    /\ IF Graduates(tx)
       THEN LET g == Graduation(tx)
            IN /\ cache' = Upserted(g.pool, GraduationDex(tx), EstimateFor(g.mint))
               /\ threads' = threads \union {[kind |-> "graduated", pool |-> g.pool]}
               /\ pc' = "watch"
       ELSE pc' = "creations" /\ UNCHANGED <<cache, threads>>
    /\ UNCHANGED <<taken, watching, cooling, pending, dropping, engine, tx, at, sent, stale, reported>>

\* on_graduation: a token that already has a second pool is not watched.
OnGraduation(m, p) ==
    IF Cardinality(PoolsForToken(m)) >= 2 THEN watching
    ELSE [watching EXCEPT ![m] = [pool |-> p, expired |-> FALSE]]

\* The signal goes out and nothing else of the transaction is looked at.
GraduationSignal ==
    /\ pc = "watch"
    /\ LET g == Graduation(tx) IN watching' = OnGraduation(g.mint, g.pool)
    /\ Signal("event") /\ sent' = sent \union {"graduation"} /\ pc' = "idle"
    /\ UNCHANGED <<taken, cache, cooling, threads, dropping, engine, tx, at, stale, reported>>

\* The thread of a graduation reads the vaults where PumpSwap keeps them,
\* whatever the venue: elsewhere it finds nothing.  It wakes nobody.
RefreshGraduated ==
    \E j \in {x \in threads : x.kind = "graduated"} :
      /\ threads' = threads \ {j}
      /\ \/ UNCHANGED cache
         \/ /\ cache[j.pool].dex = "pumpswap"
            /\ cache' = [cache EXCEPT ![j.pool].from = "chain"]
      /\ UNCHANGED <<watching, cooling, pending, dropping, engine, procVars, stale, reported>>

-----------------------------------------------------------------------------
(* Pool creations and the watch list.                                       *)

\* Mutant: the cache is not asked.
InsertAlways(c) == Upserted(c.pool, c.dex, "empty")

\* An unknown pool enters the cache with zero reserves.
InsertCreated(c) ==
    IF Known(c.pool) THEN cache ELSE Upserted(c.pool, c.dex, "empty")

Report(m, p) == <<watching[m].pool, p>>

\* The watched tokens among the mints of a new pool: on_new_pool_detected scans
\* the venues for them now, and forgets them in a second step.
WatchedMints(c) == {m \in {c.a, c.b} \intersect Mints : watching[m] # NotWatched}

CreatePool ==
    /\ pc = "creations"
    /\ LET creations == Creations(tx)
       IN IF at <= Len(creations)
          THEN /\ cache' = InsertCreated(creations[at])
               /\ reported' = {Report(m, creations[at].pool) : m \in WatchedMints(creations[at])}
               /\ pc' = "forget" /\ UNCHANGED at
          ELSE /\ pc' = "liquidity" /\ at' = 1
               /\ UNCHANGED <<cache, reported>>
    /\ UNCHANGED <<taken, watching, cooling, threads, pending, dropping, engine, tx, sent, stale>>

ForgetWatched ==
    /\ pc = "forget"
    /\ LET c == Creations(tx)[at]
       IN watching' = [m \in Mints |-> IF m \in {c.a, c.b} THEN NotWatched ELSE watching[m]]
    /\ pc' = "creations" /\ at' = at + 1 /\ reported' = {}
    /\ UNCHANGED <<taken, cache, cooling, threads, pending, dropping, engine, tx, sent, stale>>

\* check_watched_tokens, run by the route engine's thread when a signal wakes
\* it and it scans: expired tokens and tokens with a second pool are gathered in
\* one pass over the list and removed after it.
SecondPools(m) == PoolsForToken(m) \ {watching[m].pool}

DueTokens ==
    {m \in Mints : /\ watching[m] # NotWatched
                   /\ \/ watching[m].expired
                      \/ /\ Cardinality(PoolsForToken(m)) >= 2
                         /\ SecondPools(m) # {}}

\* The loop takes every queued signal and keeps the newest.  A transaction more
\* than MAX_SIGNAL_AGE_MS old is dropped; the other kinds carry no time of their
\* own and are never too old.
EngineDrops ==
    /\ pending' = "none" /\ stale' = {}
    /\ UNCHANGED <<cache, watching, cooling, threads, dropping, engine, procVars, reported>>

EngineTooOld == engine # "checking" /\ pending = "transaction" /\ EngineDrops

\* In the cooldown after a scan that found nothing, whatever was taken is
\* dropped, a graduation too.
EngineRests == engine = "resting" /\ pending # "none" /\ EngineDrops

\* Any other signal is scanned for.
EngineWakes ==
    /\ engine = "ready" /\ pending # "none"
    /\ engine' = "checking" /\ pending' = "none" /\ stale' = {}
    /\ dropping' = DueTokens
    /\ \E second \in [{m \in DueTokens : ~watching[m].expired} -> Pools] :
         /\ \A m \in DOMAIN second : second[m] \in SecondPools(m)
         /\ reported' = {Report(m, second[m]) : m \in DOMAIN second}
    /\ UNCHANGED <<cache, watching, cooling, threads, procVars>>

\* The gathered tokens are forgotten; in every hundredth turn (cleanup_expired)
\* also what has expired since.  A turn that found no route starts the cooldown.
EngineRemoves ==
    /\ engine = "checking" /\ engine' \in {"ready", "resting"}
    /\ \E swept \in {{}, {m \in Mints : watching[m] # NotWatched /\ watching[m].expired}} :
         watching' = [m \in Mints |->
           IF m \in dropping \union swept THEN NotWatched ELSE watching[m]]
    /\ dropping' = {} /\ reported' = {}
    /\ UNCHANGED <<cache, cooling, threads, pending, procVars, stale>>

\* BF_COOLDOWN_MS pass, or ten generations of the cache.
RestEnds ==
    /\ engine = "resting" /\ engine' = "ready"
    /\ UNCHANGED <<cache, watching, cooling, threads, pending, dropping, procVars, stale, reported>>

\* Twenty-four hours pass.
WatchExpires ==
    \E m \in Mints :
      /\ watching[m] # NotWatched /\ ~watching[m].expired
      /\ watching' = [watching EXCEPT ![m].expired = TRUE]
      /\ UNCHANGED <<cache, cooling, threads, pending, dropping, engine, procVars, stale, reported>>

\* The five seconds between two refreshes pass: not while a transaction is being
\* handled, as nothing in handle_new_tx waits.
CooldownEnds ==
    \E m \in cooling :
      /\ pc = "idle" /\ cooling' = cooling \ {m}
      /\ UNCHANGED <<cache, watching, threads, pending, dropping, engine, procVars, stale, reported>>

-----------------------------------------------------------------------------
(* Liquidity events and the filter.                                         *)

\* Whether a withdrawal is more than 1% of side A: of an empty side any is, as
\* it is measured against one unit; a side that one swap filled may be either.
LargeFor(e) ==
    LET large == e.amount \in {"whale", "huge"}
        any == e.amount # "none"
    IN CASE cache[e.pool].from = "empty" -> {any}
         [] cache[e.pool].from = "partial" -> {large, any}
         [] OTHER -> {large}

\* A large withdrawal from a known pool is signalled; transactions that call no
\* monitored program end here.
LiquidityAndFilter ==
    /\ pc = "liquidity"
    /\ LET removals == {e \in LpEvents(tx) : e.remove /\ e.pool \in Pools /\ Known(e.pool)}
       IN \/ /\ \E e \in removals : TRUE \in LargeFor(e)
             /\ Signal("event")
          \/ /\ \A e \in removals : FALSE \in LargeFor(e)
             /\ UNCHANGED pending
    /\ pc' = IF \E i \in DOMAIN tx : tx[i].prog \in Monitored THEN "observe" ELSE "idle"
    /\ UNCHANGED <<taken, cache, watching, cooling, threads, dropping, engine, tx, at, sent, stale, reported>>

-----------------------------------------------------------------------------
(* Swaps.                                                                   *)

Swap == DecodedSwaps(tx)[at]
SwapPool == Swap.pool

\* What the predictor (predictive_arb.rs) computes from the swaps it has seen of
\* a pool, the last of them just now, in tenths: swaps per second, the largest
\* burst, the imbalance, the volume spike, the hour's sine, the largest impact
\* ever.  Counts and impact are never reset; old swaps leave after two hundred.
Features ==
    [velocity : {1, 10}, burst : {10, 60}, imbalance : {0, 10}, spike : {0, 30},
     hour : {-10, 10}, impact : {0, 10}]

\* The logit in hundredths, with the initial weights: nothing calls learn.
\* A score above 0.6 is a logit above 0.405.
Logit(f, venues) ==
    10 * f.velocity + 20 * f.burst + 15 * f.imbalance + 10 * f.spike
      + 15 * f.hour + 20 * f.impact + 400 * venues - 200

Alert(f, venues) == Logit(f, venues) > 40 /\ (venues > 0 \/ f.burst > 50)

Venues(p) == Cardinality(PoolsForToken(MintOf[p])) - 1

\* The threads of an alert: a search for pools when the token has three or
\* fewer, and a refresh of copies of the counterparts.
SearchThread(m) ==
    IF Cardinality(PoolsForToken(m)) > 3 THEN {}
    ELSE {[kind |-> "search", mint |-> m, left |-> DOMAIN Listed, seen |-> "none"]}

PredictedThread(p) ==
    LET copies == {[pool |-> c, meta |-> cache[c].meta] : c \in Counterparts(p)}
    IN IF copies = {} THEN {}
       ELSE {[kind |-> "predicted", pool |-> p, left |-> copies, wrote |-> FALSE]}

\* An alert on a known pool wakes the engine and, if the token has another
\* venue and has not been refreshed for five seconds, starts the threads.
Predict ==
    /\ pc = "observe" /\ at <= Len(DecodedSwaps(tx))
    /\ pc' = "apply"
    /\ LET p == SwapPool
       IN \E alert \in IF p \in Pools /\ Known(p) THEN {Alert(f, Venues(p)) : f \in Features}
                       ELSE {FALSE} :
            /\ IF alert THEN Signal("event") ELSE UNCHANGED pending
            /\ IF alert /\ Venues(p) > 0 /\ MintOf[p] \notin cooling
               THEN /\ cooling' = cooling \union {MintOf[p]}
                    /\ threads' = threads \union SearchThread(MintOf[p]) \union PredictedThread(p)
               ELSE UNCHANGED <<cooling, threads>>
    /\ UNCHANGED <<taken, cache, watching, dropping, engine, tx, at, sent, stale, reported>>

\* The impact is taken on the reserves before the swap; an empty side has none.
Impact(swap) ==
    IF cache[swap.pool].from = "empty" THEN "none"
    ELSE swap.amount

\* Reserves move by the constant product; an empty pool gains its input side.
Moved(swap) ==
    IF cache[swap.pool].from = "empty" /\ swap.amount # "none"
    THEN [cache EXCEPT ![swap.pool].from = "partial"]
    ELSE cache

\* Whether a whale swap of the transaction was signalled before.
Position == IF "whale" \in sent THEN "trailing" ELSE "leading"

\* The swap is applied to the pool's reserves.  A whale swap is signalled, and
\* one of half the reserves starts the refresh of the counterparts.  The price
\* comparison with another pool may send a liquidity signal.
ApplySwap ==
    /\ pc = "apply"
    /\ at' = at + 1 /\ pc' = "observe"
    /\ IF SwapPool \in Pools /\ Known(SwapPool)
       THEN LET impact == Impact(Swap)
                others == Counterparts(SwapPool)
            IN /\ cache' = Moved(Swap)
               /\ stale' = IF Swap.amount = "none" THEN stale
                           ELSE stale \union {<<SwapPool, Position>>}
               /\ \E spread \in BOOLEAN :
                    /\ spread => others # {}
                    /\ sent' = sent \union (IF impact \in {"whale", "huge"} THEN {"whale"} ELSE {})
                    /\ IF spread \/ impact \in {"whale", "huge"} THEN Signal("event")
                       ELSE UNCHANGED pending
               /\ threads' = IF impact = "huge" /\ others # {}
                             THEN threads \union {[kind |-> "reactive", pool |-> SwapPool, left |-> others]}
                             ELSE threads
       ELSE UNCHANGED <<cache, stale, sent, pending, threads>>
    /\ UNCHANGED <<taken, watching, cooling, dropping, engine, tx, reported>>

\* What is left is forwarded unless a whale swap already carries it.
Forward ==
    /\ pc = "observe" /\ at > Len(DecodedSwaps(tx))
    /\ IF "whale" \in sent THEN UNCHANGED <<sent, pending>>
       ELSE sent' = sent \union {"transaction"} /\ Signal("transaction")
    /\ pc' = "idle" /\ at' = 1
    /\ UNCHANGED <<taken, cache, watching, cooling, threads, dropping, engine, tx, stale, reported>>

\* Transactions of monitored programs that concern none of the pools are handled
\* too, any number of them: all that is left of one is its signal.
ForwardUnrelated ==
    /\ pc = "idle" /\ Signal("transaction")
    /\ UNCHANGED <<cache, watching, cooling, threads, dropping, engine, procVars, stale, reported>>

-----------------------------------------------------------------------------
(* The refresh threads and the search.                                      *)

Fetched(p) == [cache EXCEPT ![p].from = "chain"]

\* The thread of a large swap reads the vaults its pools have now, and wakes
\* the engine after each of them that answers.
RefreshReactive ==
    \E j \in {x \in threads : x.kind = "reactive"} :
      IF j.left = {}
      THEN /\ threads' = threads \ {j}
           /\ UNCHANGED <<cache, watching, cooling, pending, dropping, engine, procVars, stale, reported>>
      ELSE \E c \in j.left :
             /\ threads' = (threads \ {j}) \union {[j EXCEPT !.left = @ \ {c}]}
             /\ \/ UNCHANGED <<cache, stale, pending>>
                \/ /\ Known(c) /\ cache[c].meta
                   /\ cache' = Fetched(c)
                   /\ stale' = IF cache' = cache THEN stale ELSE stale \union {<<c, "leading">>}
                   /\ Signal("event")
             /\ UNCHANGED <<watching, cooling, dropping, engine, procVars, reported>>

\* Mutant: the fetched reserves are not announced.
PredictedInSilence(j) == FALSE

\* Whether a prediction's thread has something to announce when it ends.
Announces(j) == j.wrote

\* The thread of a prediction works from the copies it was given, can read a
\* PumpSwap pool's vaults in its account, and wakes the engine once, at the
\* end, if it changed anything.
RefreshPredicted ==
    \E j \in {x \in threads : x.kind = "predicted"} :
      IF j.left = {}
      THEN /\ threads' = threads \ {j}
           /\ IF Announces(j) THEN Signal("event") ELSE UNCHANGED pending
           /\ UNCHANGED <<cache, watching, cooling, dropping, engine, procVars, stale, reported>>
      ELSE \E c \in j.left :
             /\ \/ /\ threads' = (threads \ {j}) \union {[j EXCEPT !.left = @ \ {c}]}
                   /\ UNCHANGED <<cache, stale>>
                \/ /\ c.meta \/ cache[c.pool].dex = "pumpswap"
                   /\ cache' = Fetched(c.pool)
                   /\ stale' = stale \union {<<c.pool, "leading">>}
                   /\ threads' = (threads \ {j}) \union
                                 {[j EXCEPT !.left = @ \ {c}, !.wrote = TRUE]}
             /\ UNCHANGED <<watching, cooling, pending, dropping, engine, procVars, reported>>

\* The search takes the listed pools of the token one by one: a pool that is
\* not cached when it looks is inserted in a second step.
SearchLooks ==
    \E j \in {x \in threads : x.kind = "search" /\ x.seen = "none"} :
      \/ /\ j.left = {} /\ threads' = threads \ {j}
         /\ UNCHANGED <<cache, watching, cooling, pending, dropping, engine, procVars, stale, reported>>
      \/ \E p \in j.left :
           /\ threads' = (threads \ {j}) \union
                {[j EXCEPT !.left = @ \ {p},
                           !.seen = IF Known(p) \/ MintOf[p] # j.mint THEN "none" ELSE p]}
           /\ UNCHANGED <<cache, watching, cooling, pending, dropping, engine, procVars, stale, reported>>

SearchInserts ==
    \E j \in {x \in threads : x.kind = "search" /\ x.seen # "none"} :
      /\ cache' = Upserted(j.seen, Listed[j.seen], "estimate")
      /\ threads' = (threads \ {j}) \union {[j EXCEPT !.seen = "none"]}
      /\ UNCHANGED <<watching, cooling, pending, dropping, engine, procVars, stale, reported>>

\* The hydrator, asked by try_send or on its own round, fetches the reserves
\* and the metadata of a cached pool.
Hydrate ==
    \E p \in Pools :
      /\ Known(p)
      /\ cache' = [cache EXCEPT ![p].from = "chain", ![p].meta = TRUE]
      /\ UNCHANGED <<watching, cooling, threads, pending, dropping, engine, procVars, stale, reported>>

-----------------------------------------------------------------------------
Init ==
    /\ \E loaded \in SUBSET DOMAIN Bootstrapped :
         cache = [p \in Pools |-> IF p \in loaded THEN Entry(Bootstrapped[p], "chain", TRUE)
                                  ELSE Missing]
    /\ watching = [m \in Mints |-> NotWatched]
    /\ cooling = {} /\ threads = {} /\ pending = "none" /\ dropping = {}
    /\ engine = "ready"
    /\ taken = 0 /\ pc = "idle" /\ tx = <<>> /\ at = 1 /\ sent = {}
    /\ stale = {} /\ reported = {}

Processor ==
    \/ Graduate \/ GraduationSignal \/ CreatePool \/ ForgetWatched
    \/ LiquidityAndFilter \/ Predict \/ ApplySwap \/ Forward \/ ForwardUnrelated

Engine == EngineTooOld \/ EngineRests \/ EngineWakes \/ EngineRemoves

Next ==
    \/ Receive \/ Processor \/ Engine \/ RestEnds
    \/ WatchExpires \/ CooldownEnds
    \/ RefreshGraduated \/ RefreshReactive \/ RefreshPredicted
    \/ SearchLooks \/ SearchInserts \/ Hydrate

\* The route engine is a loop on a thread of its own that blocks on the signal
\* channel only.  No fairness is assumed of the processor, the other threads,
\* the network or the clock.
Spec == Init /\ [][Next]_vars /\ WF_vars(Engine)

-----------------------------------------------------------------------------
Entries == {Missing} \union
    [dex : {"raydium", "orca", "meteora", "cpmm", "pumpswap"},
     from : {"empty", "partial", "estimate", "chain"}, meta : BOOLEAN]

\* Type invariant.
TypeOK ==
    /\ cache \in [Pools -> Entries]
    /\ watching \in [Mints -> {NotWatched} \union [pool : Pools, expired : BOOLEAN]]
    /\ cooling \subseteq Mints /\ dropping \subseteq Mints
    /\ pending \in {"none", "transaction", "event"}
    /\ engine \in {"ready", "resting", "checking"}
    /\ sent \subseteq {"graduation", "whale", "transaction"}
    /\ stale \subseteq Pools \X {"leading", "trailing"}
    /\ reported \subseteq Pools \X Pools

\* When the processor is done with a transaction, it was forwarded once: a
\* graduation as that and nothing else, a transaction of a monitored program as
\* a plain transaction or as whale swaps but never both, and any other not at
\* all (handle_new_tx; liquidity events are sent besides).
ForwardedOnce ==
    pc = "idle" /\ tx # <<>> =>
      IF Graduates(tx) THEN sent = {"graduation"}
      ELSE IF \E i \in DOMAIN tx : tx[i].prog \in Monitored
           THEN ("whale" \in sent) # ("transaction" \in sent)
           ELSE sent = {}

\* The processor and the threads it started for a swap are done.
Settled == pc = "idle" /\ \A j \in threads : j.kind \notin {"reactive", "predicted"}

\* No reserve written by a swap or by a refresh it caused is left unannounced, but
\* for the swaps that follow a whale swap in its transaction: once all is done,
\* the route engine has taken a signal since the write, or one waits for it (the
\* sends of handle_new_tx and of its two refresh threads).  What it takes it may
\* still drop unscanned, as too old or in its cooldown.
ChangesAreAnnounced == Settled => pending # "none" \/ \A w \in stale : w[2] = "trailing"

\* "Forward all DEX transactions to route engine" (signal_processor.rs): not
\* so, a whale swap's signal may be taken before the swaps after it are applied.
AllSwapsForwarded == Settled => pending # "none" \/ stale = {}

\* An opportunity names two different pools of one token, both cached: the pool
\* a token graduated to is never taken for its second one
\* (on_new_pool_detected, check_watched_tokens).
SecondPoolIsAnother ==
    \A r \in reported : r[1] # r[2] /\ MintOf[r[1]] = MintOf[r[2]] /\ Known(r[2])

\* Fetched reserves give way to an estimate only when the pool graduates again,
\* or when a search that found it missing inserts it late (upsert in
\* handle_new_tx and discover_pools_from_dexscreener).
EstimatesYield ==
    [][\A p \in Pools : cache[p] # Missing /\ cache[p].from = "chain" =>
         \/ cache'[p].from = "chain"
         \/ pc = "classify" /\ Graduates(tx) /\ Graduation(tx).pool = p
         \/ \E j \in threads : j.kind = "search" /\ j.seen = p]_vars

\* A watched token with a second pool leaves the watch list, whatever the
\* processor does meanwhile, if the route engine scans again and again: a signal
\* that is taken too old or in the cooldown does not look at the list
\* (check_watched_tokens).
SecondPoolFound ==
    []<><<EngineWakes>>_vars =>
      \A m \in Mints :
        (watching[m] # NotWatched /\ Cardinality(PoolsForToken(m)) >= 2)
          ~> (watching[m] = NotWatched)

=============================================================================
