------------------------------- MODULE Search -------------------------------
(***************************************************************************)
(* The opportunity scanners of the market engine: each reads the pool      *)
(* cache, compares the prices of the pools of a pair (or of the legs of a  *)
(* triangle) and returns routes that borrow, swap and repay                *)
(* (market-engine/src/cross_dex.rs, cyclic_arb.rs, stablecoin_arb.rs,      *)
(* lst_scanner.rs, dlmm_whirlpool_arb.rs, pump_graduation_arb.rs,          *)
(* opportunity_scanner.rs, clmm_tick_arb.rs, strategies.rs, and             *)
(* executor/src/whale_backrun.rs).                                          *)
(*                                                                         *)
(* The pools change between two scans, and the counterpart index of the    *)
(* vault-update scanner is rebuilt only once a minute, so it may be older  *)
(* than the pools.  A scanner walks a hash map, so which of two pools with *)
(* the same rate it takes is not determined: found holds the routes of     *)
(* every order.                                                            *)
(***************************************************************************)
EXTENDS PoolQuotes

CONSTANTS
    Lsts,          \* LST_MINTS
    Focus,         \* FOCUS_TOKENS
    EstimatedSol,  \* 79 SOL, the reserve given to a pool nobody has fetched
    MinReserveSol, \* MIN_RESERVE_SOL
    MinLiquidity,  \* MIN_POOL_LIQUIDITY
    MaxBorrow,     \* MAX_BORROW_LAMPORTS
    HotRoutes,     \* the pool pairs load_hot_routes reads from the database
    HotCycles,     \* the multi-hop routes load_snapshot_hot_routes reads
    TickPrices,    \* prices a decoded swap may move a tick pool to
    OraclePrices,  \* token -> its price for detect_oracle_lag
    WhaleAmounts   \* what a WhaleSwap signal says went into the pool

VARIABLE index    \* counterpart_index: pool -> the other pools of its pair

searchVars == <<cache, found, index>>

Sizes == Range(Amounts)
Reference == Amounts[1]

-----------------------------------------------------------------------------
(* Rates and divergence.                                                   *)

\* The rate of a pool in the direction t -> the other token, times Reference.
Rate(p, t) == Quote(p, t, Reference)

\* The pools with the highest and the lowest rate, where these differ.
Extremes(pools, t) ==
    {pair \in pools \X pools :
        /\ Rate(pair[1], t) > Rate(pair[2], t)
        /\ \A q \in pools : Rate(q, t) <= Rate(pair[1], t) /\ Rate(pair[2], t) <= Rate(q, t)}

Gap(x, y) == IF x < y THEN y - x ELSE x - y

\* x is off y by at least the basis points: |x / y - 1| * 10_000 >= bps.
OffBy(x, y, bps) == Gap(x, y) >= (bps * y + 9999) \div 10000

Diverges(pair, t, margin) ==
    OffBy(Rate(pair[1], t), Rate(pair[2], t), DexFeeBps(pair[1]) + DexFeeBps(pair[2]) + margin)

\* A pair can be borrowed for when one of its tokens is an anchor, and is not
\* one of the stablecoin pairs.
BorrowablePair(key) ==
    /\ key[1] \in Anchors \/ key[2] \in Anchors
    /\ key # PairKey(Usdc, Usdt)
    /\ (key[1] \in Anchors /\ key[2] \in Anchors) => Wsol \in {key[1], key[2]}

\* The Raydium vaults are known; Orca and Meteora metadata are loaded.
RaydiumReady(p) == Pools[p].dex = "raydium" => Pools[p].meta
FullyReady(p) == Pools[p].dex \in {"raydium", "orca", "meteora"} => Pools[p].meta

-----------------------------------------------------------------------------
(* Round trips: two pools of one pair.                                     *)

\* build_cross_dex_route: borrow t, buy the other token where it is cheap,
\* sell it where it is dear.
BuildCrossDexRoute(high, low, t, amount, strategy) ==
    {r \in {Candidate(<<high, low>>, t, amount, 2 * TxFee, strategy)} :
        /\ ReserveOf(high, t) >= 10 * amount
        /\ ImpactWithin(r, 5)
        /\ Plausible(r, 5)
        /\ r.net > 0}

\* build_cross_dex_route_reverse: borrow the second token of the pair.  There
\* is no depth check in this direction.
BuildCrossDexRouteReverse(low, high, t, amount, strategy) ==
    {r \in {Candidate(<<low, high>>, t, amount, 2 * TxFee, strategy)} :
        /\ ImpactWithin(r, 5)
        /\ Plausible(r, 5)
        /\ r.net > 0}

\* The round trips of a pair, a set for each direction that borrows an
\* anchor, with every size in it.
Directions(pair, key, strategy) ==
    {UNION {IF t = key[1] THEN BuildCrossDexRoute(pair[1], pair[2], t, x, strategy)
            ELSE BuildCrossDexRouteReverse(pair[2], pair[1], t, x, strategy) : x \in Sizes} :
        t \in {key[1], key[2]} \cap Anchors}

\* The best size of each direction.
BestSizes(pair, key, strategy) == UNION {BestOf(routes) : routes \in Directions(pair, key, strategy)}

\* scan_cross_dex_opportunities: every pair, the extreme pools of it.
CrossDexPools(key) ==
    {p \in PoolIds : /\ KeyOf(p) = key
                     /\ ~Dust(p) /\ FullyReady(p)
                     /\ Pools[p].dex \notin {"unknown", "clmm", "cpmm"}
                     /\ Rate(p, key[1]) > 0}

ScanCrossDex ==
    NotFragile(UNION {UNION {BestSizes(pair, key, "cross-dex") :
                             pair \in {e \in Extremes(CrossDexPools(key), key[1]) :
                                         Diverges(e, key[1], 30)}} :
                      key \in {k \in PairKeys : BorrowablePair(k)}})

\* scan_pair_opportunities: the pair a whale swap touched; every size counts.
PairPools(key) ==
    {p \in PoolIds : /\ KeyOf(p) = key
                     /\ ~Dust(p) /\ RaydiumReady(p)
                     /\ Pools[p].dex \notin {"unknown", "clmm"}
                     /\ Rate(p, key[1]) > 0}

ScanPair(key) ==
    IF ~BorrowablePair(key) THEN {}
    ELSE NotFragile(UNION UNION {Directions(pair, key, "whale-backrun") :
             pair \in {e \in Extremes(PairPools(key), key[1]) : Diverges(e, key[1], 15)}})

\* scan_hot_routes: the pool pairs that paid before, with half the margin.
ScanHotRoutes ==
    NotFragile(UNION {LET key == PairKey(hr.tokens[1], hr.tokens[2])
                      IN  UNION {BestSizes(pair, key, "hot-route") :
                              pair \in {e \in Extremes({hr.pools[1], hr.pools[2]}, key[1]) :
                                            /\ \A p \in {e[1], e[2]} : ~Dust(p) /\ Rate(p, key[1]) > 0
                                            /\ Diverges(e, key[1], 15)}} :
                      hr \in {h \in HotRoutes : BorrowablePair(PairKey(h.tokens[1], h.tokens[2]))}})

\* scan_lst_opportunities: WSOL against a liquid staking token.  Rates come
\* from the stored reserves, and the return may be 2% at most.
LstPools(key) ==
    {p \in PoolIds : /\ KeyOf(p) = key
                     /\ ~Dust(p) /\ RaydiumReady(p)
                     /\ Pools[p].dex \notin {"unknown", "clmm"}}

LstKeys == {key \in PairKeys : \E lst \in Lsts : key = PairKey(Wsol, lst)}

\* a/b compared with c/d as a*d with c*b.
RatioExtremes(pools, t, u) ==
    {pair \in pools \X pools :
        LET hi == pair[1]
            lo == pair[2]
            Above(p, q) == ReserveOf(p, u) * ReserveOf(q, t) > ReserveOf(q, u) * ReserveOf(p, t)
        IN  Above(hi, lo) /\ \A q \in pools : ~Above(q, hi) /\ ~Above(lo, q)}

\* The quotient of the two reserve ratios is above 1 by the basis points
\* (scaled down before the product).
RatioDiverges(hi, lo, t, u, bps) ==
    OffBy((ReserveOf(hi, u) * ReserveOf(lo, t)) \div 1000,
          (ReserveOf(lo, u) * ReserveOf(hi, t)) \div 1000, bps)

ScanLst ==
    UNION {LET t == key[1]
               u == key[2]
           IN  UNION {BestOf({r \in UNION Directions(pair, key, "lst-arb") :
                                  r.hops[1].in = Wsol /\ Plausible(r, 2)}) :
                   pair \in {e \in RatioExtremes(LstPools(key), t, u) :
                                RatioDiverges(e[1], e[2], t, u, DexFeeBps(e[1]) + DexFeeBps(e[2]) + 10)}} :
           key \in LstKeys}

\* scan_bin_divergence: a Whirlpool against a DLMM pool of the same pair.
ScanBinDivergence ==
    LET whirlpools == {p \in PoolIds : /\ Pools[p].dex = "orca" /\ Pools[p].meta
                                       /\ Pools[p].ticks /\ Pools[p].liquid # "none"
                                       /\ ~Dust(p)
                                       /\ {Pools[p].a, Pools[p].b} \cap Focus # {}}
        bins == {p \in PoolIds : Pools[p].dex = "meteora" /\ Pools[p].meta /\ ~Dust(p)}
    IN  UNION {LET key == KeyOf(wp)
               IN  UNION {BestOf({r \in routes : Plausible(r, 3)}) :
                       routes \in UNION {Directions(pair, key, "dlmm_whirlpool_arb") :
                           pair \in {e \in UNION {Extremes({wp, d}, key[1]) :
                                                    d \in {b \in bins : KeyOf(b) = key}} :
                                        /\ Rate(e[1], key[1]) > 0 /\ Rate(e[2], key[1]) > 0
                                        /\ Diverges(e, key[1], 20)}}} :
               wp \in whirlpools}

\* scan_graduation_arb: every two pools of a graduated token.  Two pools of
\* one venue are skipped while the reserves of one are the estimate.
Estimated(p) == EstimatedSol \in {cache[p].ra, cache[p].rb}

GraduationPools(token, key) ==
    {p \in PoolIds : /\ Trades(p, token) /\ KeyOf(p) = key
                     /\ ~Dust(p) /\ RaydiumReady(p)
                     /\ Pools[p].dex \notin {"unknown", "clmm"}
                     /\ Trades(p, Wsol) => ReserveOf(p, Wsol) >= MinReserveSol
                     /\ Rate(p, key[1]) > 0}

ScanGraduation(token) ==
    UNION {LET pools == GraduationPools(token, key)
           IN  UNION {BestSizes(pair, key, "pump_graduation_arb") :
                   pair \in {e \in pools \X pools :
                                /\ Rate(e[1], key[1]) > Rate(e[2], key[1])
                                /\ Pools[e[1]].dex = Pools[e[2]].dex
                                      => ~Estimated(e[1]) /\ ~Estimated(e[2])
                                /\ Diverges(e, key[1], 20)}} :
           key \in {k \in PairKeys : k[1] \in Anchors \/ k[2] \in Anchors}}

-----------------------------------------------------------------------------
(* Round trips that do not come from cross_dex.                            *)

\* build_stablecoin_route and build_tick_arb_route: the same walk with other
\* bounds.
BuildRoundTrip(buy, sell, t, amount, depth, impact, cap, strategy) ==
    {r \in {Candidate(<<buy, sell>>, t, amount, 2 * TxFee, strategy)} :
        /\ ReserveOf(buy, t) >= depth * amount
        /\ ImpactWithin(r, impact)
        /\ Plausible(r, cap)
        /\ r.net > 0}

\* is_eligible_pool of the stablecoin scanner.
StablePools(stable) ==
    {p \in PoolIds : /\ KeyOf(p) = PairKey(Wsol, stable)
                     /\ cache[p].ra >= MinLiquidity /\ cache[p].rb >= MinLiquidity
                     /\ Pools[p].dex \notin {"unknown", "cpmm"} /\ FullyReady(p)
                     /\ EffectiveOf(p, Wsol) > 0 /\ EffectiveOf(p, stable) > 0}

\* implied_sol_price, times 1000.
SolPrice(p, stable) == (EffectiveOf(p, stable) * 1000) \div EffectiveOf(p, Wsol)

\* scan_stablecoin_pair: buy SOL where it is cheap with borrowed stablecoins,
\* or sell borrowed SOL where it is dear.
ScanStablePair(stable) ==
    LET pools == StablePools(stable)
        Price(p) == SolPrice(p, stable)
        extremes == {e \in pools \X pools :
                        \A q \in pools : Price(q) <= Price(e[1]) /\ Price(e[2]) <= Price(q)}
        Spread(e) == ((Price(e[1]) - Price(e[2])) * 20000) \div (Price(e[1]) + Price(e[2]))
    IN  UNION {UNION {BuildRoundTrip(e[2], e[1], stable, x, 5, 5, 2, "stablecoin_arb")
                          \cup BuildRoundTrip(e[1], e[2], Wsol, x, 5, 5, 2, "stablecoin_arb") :
                      x \in Sizes} :
               e \in {f \in extremes : /\ f[1] # f[2]
                                       /\ Spread(f) >= DexFeeBps(f[1]) + DexFeeBps(f[2]) + 30}}

\* on_clmm_swap: a decoded swap that crosses a tick moves the price of a tick
\* pool to a new one; the pool is compared with the Raydium pools of its pair.
\* The route itself is quoted at the price the cache still holds.  Nothing in
\* the program calls this scanner.
ScanTickCrossing(p, price) ==
    IF ~(Concentrated(p) /\ Pools[p].dex # "meteora" /\ Pools[p].liquid # "none") \/ price = Pools[p].price
    THEN {}
    ELSE LET moved == (price[1] * 1000) \div price[2]
             Amm(q) == (EffectiveOf(q, Pools[p].b) * 1000) \div EffectiveOf(q, Pools[p].a)
             amms == {q \in PoolIds : /\ KeyOf(q) = KeyOf(p) /\ Pools[q].dex = "raydium"
                                      /\ Pools[q].meta /\ ~Dust(q)
                                      /\ cache[q].ea > 0 /\ cache[q].eb > 0}
             wide == {q \in amms : OffBy(moved, Amm(q), 100)}
             buy(q) == IF moved > Amm(q) THEN q ELSE p
             sell(q) == IF moved > Amm(q) THEN p ELSE q
         IN  UNION {IF t = Pools[p].b
                    THEN BuildRoundTrip(buy(q), sell(q), t, x, 10, 10, 5, "clmm_tick_arb")
                    ELSE BuildRoundTrip(sell(q), buy(q), t, x, 10, 10, 5, "clmm_tick_arb") :
                    q \in wide, t \in {Pools[p].a, Pools[p].b} \cap Anchors, x \in Sizes}

\* e5_opportunity: a pool whose spot price is off the oracle's against the
\* deepest pool with the same two tokens in the same order.  The first token
\* is borrowed, whatever it is; no caller exists.
OracleLag(p) ==
    LET spot == (cache[p].rb * 1000) \div cache[p].ra
        oracle == (OraclePrices[Pools[p].a] * 1000) \div OraclePrices[Pools[p].b]
    IN  [above |-> spot >= oracle, off |-> OffBy(spot, oracle, 30)]

ScanOracleLag(p) ==
    LET deeper == {q \in PoolIds : /\ q # p /\ Pools[q].a = Pools[p].a /\ Pools[q].b = Pools[p].b
                                   /\ cache[q].ra > cache[p].ra}
        refs == {q \in deeper : \A r \in deeper : cache[r].ra <= cache[q].ra}
        Trip(q) == IF OracleLag(p).above THEN <<q, p>> ELSE <<p, q>>
    IN  IF cache[p].ra = 0 \/ cache[p].rb = 0 \/ ~OracleLag(p).off THEN {}
        ELSE {r \in {Candidate(Trip(q), Pools[p].a, x, 2 * TxFee, "stale-oracle") :
                        q \in refs, x \in Sizes} : r.net > 0}

\* e4_opportunity: after a liquidity event, the affected pool against a pool of
\* another venue.  Each pool is quoted from its own token a, so the two hops
\* chain only when both list the pair in the same order; no caller exists.
SpotOf(p) == (cache[p].rb * 1000) \div cache[p].ra

EventRoute(buy, sell, amount) ==
    LET mid == Quote(buy, Pools[buy].a, amount)
        out == Quote(sell, Pools[sell].b, mid)
    IN  [hops |-> <<Hop(buy, Pools[buy].a, mid), Hop(sell, Pools[sell].b, out)>>,
         borrow |-> amount, gross |-> out - amount, net |-> out - amount - 3 * TxFee,
         strategy |-> "liquidity-event"]

ScanLiquidityEvent(p) ==
    LET others == {q \in PoolIds : /\ q # p /\ Pools[q].dex # Pools[p].dex /\ KeyOf(q) = KeyOf(p)
                                   /\ \A s \in {p, q} : cache[s].ra > 0 /\ cache[s].rb > 0
                                   /\ OffBy(SpotOf(q), SpotOf(p), 50)}
    IN  {r \in {IF SpotOf(p) < SpotOf(q) THEN EventRoute(p, q, x) ELSE EventRoute(q, p, x) :
                    q \in others, x \in Sizes} : r.net > 0}

-----------------------------------------------------------------------------
(* The backrun of a whale's swap (executor/src/whale_backrun.rs).          *)

\* simulate_post_swap: the reserves of p once amount of t has gone in, without
\* the fee.
PostSwap(p, t, amount) ==
    LET x == EffectiveOf(p, t)
    IN  Swapped([cache[p] EXCEPT !.ra = cache[p].ea, !.rb = cache[p].eb], p, t, amount,
                (EffectiveOf(p, Opposite(p, t)) * amount) \div (x + amount))

\* xy_k_quote: hop 2 sells on the simulated reserves, at constant product
\* whatever the venue of p.
SellAfter(p, t, amount, mid) ==
    LET post == PostSwap(p, t, amount)
        sol == IF t = Pools[p].a THEN post.ea ELSE post.eb
        meme == IF t = Pools[p].a THEN post.eb ELSE post.ea
        net == mid * (Bps - Pools[p].fee)
    IN  IF sol = 0 \/ meme = 0 THEN 0 ELSE (net * sol) \div (meme * Bps + net)

\* Borrow x of t, buy what the whale bought in q and sell it in p.
BackrunRoute(p, q, t, amount, x) ==
    LET mid == Quote(q, t, x)
        out == SellAfter(p, t, amount, mid)
    IN  [hops |-> <<Hop(q, t, mid), Hop(p, Opposite(p, t), out)>>,
         borrow |-> x, gross |-> out - x, net |-> out - x,
         strategy |-> "whale_backrun", whale |-> amount]

\* check_backrun: a whale has put amount of t into p.  When t is not WSOL, the
\* token the whale bought is, and no pool passes for a counterpart.  The refresh
\* of the counterparts reads their balances into copies; here they are the
\* cached ones.
ScanBackrun(p, t, amount) ==
    LET others == {q \in PoolIds \ {p} : /\ KeyOf(q) = KeyOf(p)
                                         /\ cache[q].ra > 0 /\ cache[q].rb > 0
                                         /\ cache[q].ea > 0 /\ cache[q].eb > 0}
        post == PostSwap(p, t, amount)
        depth == IF t = Pools[p].a THEN post.ea ELSE post.eb
    IN  IF t # Wsol \/ cache[p].ea = 0 \/ cache[p].eb = 0 \/ amount * 100 < EffectiveOf(p, t)
        THEN {}
        ELSE {r \in {BackrunRoute(p, q, t, amount, x) :
                        q \in others, x \in {y \in Sizes : y <= depth \div 2}} :
                r.hops[1].amount > 0 /\ r.net >= TxFee}

\* "Deduplicate": the best route of each counterpart; the sort keeps the order
\* of equals, which is the smaller borrow first.
BestPerCounterpart(routes) ==
    {r \in routes : \A q \in routes :
        q.hops[1].pool = r.hops[1].pool =>
            q.net < r.net \/ (q.net = r.net /\ r.borrow <= q.borrow)}

-----------------------------------------------------------------------------
(* Triangles and longer cycles.                                            *)

ReturnBps(route) == (route.gross * 10000) \div route.borrow

FeesOf(route) == MapThenSumSet(LAMBDA i : DexFeeBps(route.hops[i].pool), DOMAIN route.hops)

\* scan_cross_dex_3hop measures an impact against the larger reserve.
WithinLarger(route) ==
    \A i \in DOMAIN route.hops :
        LET c == cache[route.hops[i].pool]
        IN  AmountIn(route, i) * 100 <= 5 * Max({c.ra, c.rb, 1})

TrianglePools ==
    {p \in PoolIds : ~Dust(p) /\ RaydiumReady(p) /\ Pools[p].dex \notin {"unknown", "clmm", "cpmm"}}

\* The pools of a set that pay the most for an amount of t.
BestPaying(pools, t, amount) ==
    {p \in pools : /\ Quote(p, t, amount) > 0
                   /\ \A q \in pools : Quote(q, t, amount) <= Quote(p, t, amount)}

\* The triangles anchor -> x -> y -> anchor through p1 and p2: the best pools
\* for the last leg at the reference amount.
TrianglesThrough(p1, p2, anchor, x) ==
    LET y == Opposite(p2, x)
        paid == Quote(p2, x, Quote(p1, anchor, Reference))
        last == {p \in TrianglePools : {Pools[p].a, Pools[p].b} = {y, anchor}}
    IN  IF y = anchor \/ paid = 0 THEN {}
        ELSE {<<p1, p2, p3>> : p3 \in BestPaying(last, y, paid)}

\* The best pool for the first leg, any pool for the middle one.
Triangles(anchor) ==
    LET First(x) == {p \in TrianglePools : {Pools[p].a, Pools[p].b} = {anchor, x}}
        xs == {Opposite(p, anchor) : p \in {q \in TrianglePools : Trades(q, anchor)}} \ Anchors
    IN  IF Cardinality(xs) > 200 THEN {}
        ELSE UNION {UNION {TrianglesThrough(p1, p2, anchor, x) :
                           p1 \in BestPaying(First(x), anchor, Reference),
                           p2 \in {q \in TrianglePools : Trades(q, x)}} :
                    x \in xs}

\* scan_cross_dex_3hop: a triangle must pay twice its fees and 20 bps at the
\* reference amount, then takes its best size.
TriangleRoute(legs, anchor, amount) ==
    Candidate(legs, anchor, amount, 3 * TxFee, "cross_dex_3hop")

PayingTriangles(anchor) ==
    {legs \in Triangles(anchor) :
        LET r == TriangleRoute(legs, anchor, Reference)
        IN  /\ Plausible(r, 5)
            /\ ReturnBps(r) >= FeesOf(r) + 20
            /\ 5 * r.net >= TxFee}

ScanTriangles ==
    NotFragile(UNION {UNION {BestOf({r \in {TriangleRoute(legs, anchor, x) : x \in Sizes} :
                                        Plausible(r, 5) /\ r.net > 0 /\ WithinLarger(r)}) :
                             legs \in PayingTriangles(anchor)} :
                      anchor \in Anchors})

\* scan_multihop_hot_routes: a cycle read from the database, re-quoted.
ScanHotCycles ==
    NotFragile({r \in {Candidate(hc.pools, hc.token, x, TxFee + Len(hc.pools) * TxFee, "hot-route") :
                          hc \in HotCycles, x \in Sizes} :
                    /\ \A i \in DOMAIN r.hops : r.hops[i].amount > 0
                    /\ ImpactWithin(r, 10)
                    /\ r.net > TxFee})

\* VENUE_COMBOS of the cyclic scanner.
VenueCombos ==
    {<<"raydium", "orca", "meteora">>, <<"raydium", "meteora", "orca">>,
     <<"orca", "raydium", "meteora">>, <<"orca", "meteora", "raydium">>,
     <<"meteora", "raydium", "orca">>, <<"pumpswap", "raydium", "orca">>,
     <<"pumpswap", "meteora", "raydium">>, <<"fluxbeam", "meteora", "orca">>,
     <<"saber", "orca", "raydium">>, <<"cpmm", "raydium", "orca">>}

\* best_pool_for_pair: the pools of a venue and a pair with the largest sum of
\* reserves.
LargestPools(dex, t, u) ==
    LET pools == {p \in TrianglePools : Pools[p].dex = dex /\ {Pools[p].a, Pools[p].b} = {t, u}}
    IN  {p \in pools : \A q \in pools : cache[q].ra + cache[q].rb <= cache[p].ra + cache[p].rb}

\* quote_3leg_cycle.
ThreeLegCycle(legs, anchor, amount) ==
    {r \in {Candidate(legs, anchor, amount, 3 * TxFee, "cyclic_3leg")} :
        /\ \A i \in 1..3 : ReserveOf(legs[i], r.hops[i].in) >= 2 * AmountIn(r, i)
        /\ ImpactWithin(r, 10)
        /\ Plausible(r, 5)
        /\ r.net > 0
        /\ ReturnBps(r) >= FeesOf(r) + 30}

\* scan_cyclic_opportunities: three venues, one leg in each.
ThreeLegs(v, anchor) ==
    UNION {UNION {LargestPools(v[1], anchor, t) \X LargestPools(v[2], t, u) \X LargestPools(v[3], u, anchor) :
                  u \in Tokens \ {anchor, t}} :
           t \in Tokens \ Anchors}

BestCycles(legs, anchor) ==
    BestOf(UNION {ThreeLegCycle(legs, anchor, Min({x, MaxBorrow})) : x \in Sizes})

ScanCyclic ==
    UNION {UNION {BestCycles(legs, anchor) : legs \in ThreeLegs(v, anchor)} :
           v \in VenueCombos, anchor \in Anchors}

-----------------------------------------------------------------------------
(* The scanner that runs on every vault update.                            *)

\* rebuild_index.
RebuiltIndex ==
    LET Others(p) == {q \in PoolIds : q # p /\ KeyOf(q) = KeyOf(p) /\ ~Dust(q)}
    IN  [p \in {q \in PoolIds : ~Dust(q) /\ Others(q) # {}} |-> Others(p)]

\* The round trip between two pools at one size: buy where an amount of the
\* anchor gets more.  net is after a flat 15_000 lamports.
UpdateRoute(p, q, anchor, amount) ==
    LET buy == IF Quote(p, anchor, amount) > Quote(q, anchor, amount) THEN p ELSE q
        sell == IF buy = p THEN q ELSE p
    IN  {r \in {Candidate(<<buy, sell>>, anchor, amount, 3 * TxFee, "shred_opp_scan")} :
            /\ Quote(p, anchor, amount) > 0 /\ Quote(q, anchor, amount) > 0
            /\ Quote(p, anchor, amount) # Quote(q, anchor, amount)
            /\ r.net >= TxFee
            /\ ReturnBps(r) >= PoolFeeBps(buy) + PoolFeeBps(sell) + 10
            /\ ReturnBps(r) <= 2000}

\* on_vault_update for an indexed pool: for each counterpart the first size
\* that pays.
ScanUpdate(p) ==
    LET anchor == IF Trades(p, Wsol) THEN Wsol ELSE Usdc
        First(q) == {i \in DOMAIN Amounts :
                        /\ UpdateRoute(p, q, anchor, Amounts[i]) # {}
                        /\ \A j \in 1..(i - 1) : UpdateRoute(p, q, anchor, Amounts[j]) = {}}
    IN  UNION {UNION {UpdateRoute(p, q, anchor, Amounts[i]) : i \in First(q)} :
               q \in {c \in index[p] : ~Dust(c)}}

\* The pools whose update gets past the early returns of on_vault_update.
Scanned == {p \in DOMAIN index : ~Dust(p) /\ (Trades(p, Wsol) \/ Trades(p, Usdc))}

-----------------------------------------------------------------------------
(* The system: feeds move the pools, the route engine scans.               *)

\* A feed stores new reserves.
MovePool(p, r) ==
    /\ found = {}
    /\ cache[p] # r
    /\ cache' = [cache EXCEPT ![p] = r]
    /\ UNCHANGED <<found, index>>

\* The routes go on to the route engine's loop before the next scan.
HandOn ==
    /\ found # {}
    /\ found' = {}
    /\ UNCHANGED <<cache, index>>

Returns(routes) == found = {} /\ found' = routes /\ UNCHANGED <<cache, index>>

CrossDexScan == Returns(ScanCrossDex)
PairScan(key) == \E kept \in Truncations(ScanPair(key), 3) : Returns(kept)
HotScan == Returns(ScanHotRoutes) \/ Returns(ScanHotCycles)
TriangleScan == \E kept \in Truncations(ScanTriangles, 20) : Returns(kept)
CyclicScan == Returns(ScanCyclic)
StableScan ==
    \E usdc \in Truncations(ScanStablePair(Usdc), 3), usdt \in Truncations(ScanStablePair(Usdt), 3) :
        Returns(usdc \cup usdt)
LstScan == Returns(ScanLst)
BinScan == Returns(ScanBinDivergence)
GraduationScan(token) == Returns(ScanGraduation(token))
TickScan(p, price) == \E kept \in Truncations(ScanTickCrossing(p, price), 5) : Returns(kept)
OracleScan(p) == Returns(ScanOracleLag(p))
EventScan(p) == Returns(ScanLiquidityEvent(p))
BackrunScan(p, t, amount) == Returns(BestPerCounterpart(ScanBackrun(p, t, amount)))

\* on_vault_update: a pool without counterparts in the index returns before the
\* periodic part, so it never causes a rebuild.
VaultUpdate(p) ==
    /\ found = {}
    /\ p \in Scanned
    /\ \E kept \in Truncations(ScanUpdate(p), 3) : found' = kept
    /\ index' \in {index, RebuiltIndex}
    /\ UNCHANGED cache

Scan ==
    \/ CrossDexScan \/ HotScan \/ TriangleScan \/ CyclicScan
    \/ StableScan \/ LstScan \/ BinScan
    \/ \E key \in PairKeys : PairScan(key)
    \/ \E token \in Tokens \ Anchors : GraduationScan(token)
    \/ \E p \in PoolIds : VaultUpdate(p) \/ OracleScan(p) \/ EventScan(p)
    \/ \E p \in PoolIds, price \in TickPrices : TickScan(p, price)
    \/ \E p \in PoolIds, amount \in WhaleAmounts :
          \E t \in {Pools[p].a, Pools[p].b} : BackrunScan(p, t, amount)

-----------------------------------------------------------------------------
(* What a backrun is worth.                                                *)

\* The pools a backrun takes for granted: the whale's swap goes through p once
\* more than the cache has seen.
AfterWhale(r) ==
    LET p == r.hops[2].pool
    IN  [cache EXCEPT ![p] = PostSwap(p, r.hops[1].in, r.whale)]

Backruns == {r \in found : r.strategy = "whale_backrun" /\ ~Concentrated(r.hops[2].pool)}

\* A backrun on a constant-product pool closes, and pays what it claims if the
\* pool moves by the whale's swap as simulated: the amounts are taken from the
\* right sides of both pools whatever the order of their tokens (check_backrun).
BackrunsPayAfterSwap ==
    \A r \in Backruns : Closed(r) /\ ReplayFrom(AfterWhale(r), r).amount >= r.borrow + r.gross

\* A backrun pays on the pools as the cache has them.  It does not: the signal
\* processor has applied the whale's swap to the cache before it announces it
\* (apply_swap_delta, then WhaleSwap), and check_backrun applies it again.
BackrunsPayNow ==
    \A r \in Backruns : Replay(r).amount >= r.borrow + r.gross
=============================================================================
