----------------------------- MODULE PoolQuotes -----------------------------
(***************************************************************************)
(* The pool cache as the opportunity scanners read it: the quote of a      *)
(* pool, the fee tables, the canonical pair and the route a scanner        *)
(* returns (market-engine/src/pool_state.rs, types.rs, cross_dex.rs,       *)
(* fee_tiers.rs).  Search and TokenGraph build on it.                      *)
(*                                                                         *)
(* A pool's own fee is a share of Bps, so that TLC's integers hold the     *)
(* products of a quote; margins and fee tables are in basis points, as in  *)
(* the code.  A concentrated-liquidity pool whose metadata is loaded       *)
(* quotes at the price of its active tick or bin, whatever its reserves.   *)
(***************************************************************************)
EXTENDS Integers, Sequences, SequencesExt, FiniteSetsExt

CONSTANTS
    Pools,        \* pool -> [dex, a, b, fee, meta, ticks, liquid, price]
    ReservesOf,   \* pool -> the [ra, rb, ea, eb] it may be seen with
    Rank,         \* token -> its place in the order of public keys
    Wsol, Usdc, Usdt,
    Bps,          \* the 10_000 of a pool's quote
    DefaultFee,   \* the fee_bps that pool_fee_bps does not trust
    MinReserve,   \* MIN_RESERVE
    TxFee,        \* TX_FEE_PER_HOP, 5_000 lamports
    Amounts       \* borrow_amounts, a sequence

Tokens == DOMAIN Rank
PoolIds == DOMAIN Pools
Anchors == {Wsol, Usdc}

VARIABLES
    cache,   \* pool -> its reserves; ea and eb are the effective ones
    found    \* the routes the last search step returned

-----------------------------------------------------------------------------
(* A pool.                                                                 *)

Trades(p, t) == t \in {Pools[p].a, Pools[p].b}
Opposite(p, t) == IF t = Pools[p].a THEN Pools[p].b ELSE Pools[p].a
ReserveOf(p, t) == IF t = Pools[p].a THEN cache[p].ra ELSE cache[p].rb
EffectiveOf(p, t) == IF t = Pools[p].a THEN cache[p].ea ELSE cache[p].eb

\* pair_key: the token with the smaller public key comes first.
PairKey(t, u) == IF Rank[t] < Rank[u] THEN <<t, u>> ELSE <<u, t>>
KeyOf(p) == PairKey(Pools[p].a, Pools[p].b)
PairKeys == {KeyOf(p) : p \in PoolIds}

Dust(p) == cache[p].ra < MinReserve \/ cache[p].rb < MinReserve

Concentrated(p) == Pools[p].dex \in {"orca", "clmm", "meteora"} /\ Pools[p].meta

\* quote_a_to_b when t is the pool's token a, quote_b_to_a otherwise, with the
\* reserves c: what an amount of t buys.  Zero where the pool is empty, or has
\* no liquidity at its price.
QuoteAt(p, c, t, amount) ==
    LET pool == Pools[p]
        x == IF t = pool.a THEN c.ea ELSE c.eb
        y == IF t = pool.a THEN c.eb ELSE c.ea
        net == amount * (Bps - pool.fee)
        num == IF t = pool.a THEN pool.price[1] ELSE pool.price[2]
        den == IF t = pool.a THEN pool.price[2] ELSE pool.price[1]
    IN  IF x = 0 \/ y = 0 THEN 0
        ELSE IF Concentrated(p)
             THEN IF pool.liquid = "none" THEN 0 ELSE (net * num) \div (Bps * den)
        ELSE (net * y) \div (x * Bps + net)

Quote(p, t, amount) == QuoteAt(p, cache[p], t, amount)

\* What a scanner calls the price impact of a swap, compared with a bound in
\* per cent: the share of the stored reserve that goes in.
ImpactAbove(p, t, amount, pct) == amount * 100 > pct * Max({ReserveOf(p, t), 1})

\* dex_fee_bps: what a scanner takes for the fee of a venue.
DexFeeBps(p) ==
    CASE Pools[p].dex \in {"raydium", "clmm", "cpmm"} -> 25
      [] Pools[p].dex \in {"orca", "meteora", "fluxbeam"} -> 30
      [] Pools[p].dex = "pumpswap" -> 100
      [] Pools[p].dex = "saber" -> 4
      [] OTHER -> 50

\* fee_tiers::pool_fee_bps: the pool's fee unless it is the default, and then
\* the one its tick spacing or bin step stands for.
PoolFeeBps(p) ==
    LET own == (Pools[p].fee * 10000) \div Bps
    IN  IF Pools[p].fee > 0 /\ Pools[p].fee # DefaultFee THEN own
        ELSE IF Pools[p].dex \in {"orca", "clmm", "meteora"} /\ Pools[p].meta
             THEN Pools[p].step
        ELSE IF Pools[p].dex = "orca" THEN 30 ELSE 25

-----------------------------------------------------------------------------
(* Routes.                                                                 *)

Hop(p, t, out) == [pool |-> p, in |-> t, out |-> Opposite(p, t), amount |-> out]

\* Mutant: every hop is fed the borrowed amount.
HopsOfBorrow(pools, t, amount) ==
    LET hops[i \in DOMAIN pools] ==
            LET in == IF i = 1 THEN t ELSE hops[i - 1].out
            IN  Hop(pools[i], in, Quote(pools[i], in, amount))
    IN  hops

\* The hops that carry an amount of t through the pools, each fed with what
\* the hop before it pays.
HopsAlong(pools, t, amount) ==
    LET hops[i \in DOMAIN pools] ==
            LET paid == IF i = 1 THEN [out |-> t, amount |-> amount] ELSE hops[i - 1]
            IN  Hop(pools[i], paid.out, Quote(pools[i], paid.out, paid.amount))
    IN  hops

AmountIn(route, i) == IF i = 1 THEN route.borrow ELSE route.hops[i - 1].amount

Candidate(pools, t, amount, cost, strategy) ==
    LET hops == HopsAlong(pools, t, amount)
        gross == Last(hops).amount - amount
    IN  [hops |-> hops, borrow |-> amount, gross |-> gross, net |-> gross - cost,
         strategy |-> strategy]

ImpactWithin(route, pct) ==
    \A i \in DOMAIN route.hops :
        ~ImpactAbove(route.hops[i].pool, route.hops[i].in, AmountIn(route, i), pct)

\* MAX_RETURN_MULTIPLIER: a return above pct per cent is taken for a phantom.
Plausible(route, pct) == route.gross > 0 /\ route.gross * 100 <= route.borrow * pct

\* The routes with the highest net_profit, for loops that keep the best one.
BestOf(routes) == {r \in routes : \A q \in routes : q.net <= r.net}

\* sort_by(net_profit) and truncate(k): which of several equals stay depends
\* on the order of the map the pools came from.
Truncations(routes, k) ==
    {kept \in kSubset(Min({k, Cardinality(routes)}), routes) :
        \A r \in kept, q \in routes \ kept : q.net <= r.net}

\* cross_dex::route_tier, 99 for a route through a fragile Orca pool.
Tier(route) ==
    LET pools == {route.hops[i].pool : i \in DOMAIN route.hops}
        dexes == {Pools[p].dex : p \in pools}
        orca == {p \in pools : Pools[p].dex = "orca"}
    IN  IF dexes \subseteq {"raydium"} THEN 1
        ELSE IF dexes \subseteq {"raydium", "meteora"} THEN 2
        ELSE IF "pumpswap" \in dexes THEN 3
        ELSE IF orca = {} THEN 5
        ELSE IF \A p \in orca : Pools[p].meta /\ Pools[p].liquid = "deep" THEN 4
        ELSE 99

NotFragile(routes) == {r \in routes : Tier(r) < 99}

-----------------------------------------------------------------------------
(* What a route is worth when it lands.                                    *)

\* The reserves of a pool after a swap of paid units of t for got units of the
\* other token (external: what a venue does).
Swapped(c, p, t, paid, got) ==
    IF t = Pools[p].a
    THEN [ra |-> c.ra + paid, ea |-> c.ea + paid, rb |-> c.rb - got, eb |-> c.eb - got]
    ELSE [ra |-> c.ra - got, ea |-> c.ea - got, rb |-> c.rb + paid, eb |-> c.eb + paid]

\* ... in a pool that trades at the price of its active tick or bin nothing
\* that a later quote would read.
Landed(c, p, t, paid, got) == IF Concentrated(p) THEN c ELSE Swapped(c, p, t, paid, got)

\* A swap on the reserves s.pools, which the next one meets.
SwappedAt(s, h) ==
    LET got == QuoteAt(h.pool, s.pools[h.pool], h.in, s.amount)
    IN  [amount |-> got,
         pools |-> [s.pools EXCEPT ![h.pool] = Landed(@, h.pool, h.in, s.amount, got)]]

\* The route executed hop by hop on pools with these reserves.
ReplayFrom(reserves, r) ==
    LET after[i \in 0..Len(r.hops)] ==
            IF i = 0 THEN [amount |-> r.borrow, pools |-> reserves]
            ELSE SwappedAt(after[i - 1], r.hops[i])
    IN  after[Len(r.hops)]

\* ... as they are now.
Replay(r) == ReplayFrom(cache, r)

\* A route a flash loan can carry: it starts and ends in the borrowed token,
\* and each hop spends what the hop before it bought, in a pool that trades it.
Closed(r) ==
    LET n == Len(r.hops)
    IN  /\ r.hops[n].out = r.hops[1].in
        /\ \A i \in 1..n : Trades(r.hops[i].pool, r.hops[i].in)
        /\ \A i \in 2..n : r.hops[i].in = r.hops[i - 1].out

\* Every route a scanner or the graph search returns, except those of the
\* liquidity-event scanner and the backruns, can be carried by a flash loan, and landing on the
\* pools it was quoted from pays at least what it claims: the quotes of the
\* hops are chained, and a bridged route, which goes through one pool twice,
\* still pays after its own first swap moved that pool.
RoutesPay ==
    \A r \in found :
        r.strategy \notin {"liquidity-event", "whale_backrun"} =>
            Closed(r) /\ Replay(r).amount >= r.borrow + r.gross /\ r.net > 0

\* What a route may borrow: the circuits read from the database also start from
\* USDT, an anchor of the scanner that stored them.
Borrowable(r) == IF r.strategy = "hot-route" /\ Len(r.hops) > 2 THEN Anchors \cup {Usdt} ELSE Anchors

\* Every route but those of three scanners, and the circuits of the database
\* that start from USDT, borrows a token some flash-loan provider lends
\* (BORROWABLE_MINTS, the anchors of cross_dex and cyclic_arb): a cycle found
\* from another start token is rotated or bridged to one.
BorrowsAnchor ==
    \A r \in found :
        r.strategy \notin {"stablecoin_arb", "liquidity-event", "stale-oracle"} =>
            r.hops[1].in \in Borrowable(r)
=============================================================================
