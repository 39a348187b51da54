------------------------------ MODULE MCRoutes ------------------------------
(***************************************************************************)
(* The route engine's thread with what it calls: the scanners, the graph   *)
(* search and the quote engines of the venues.  RouteEngine abstracts a    *)
(* search to which writes it has seen; RouteSearch computes the routes from*)
(* the pools of one moment.  The two meet in nothing but the reserves, so  *)
(* a behaviour runs one of them (part).                                    *)
(***************************************************************************)
EXTENDS RouteEngine, TLC

(* The engine: two writers, a channel of one signal, Bellman-Ford on every *)
(* second signal.                                                          *)

CONSTANTS w1, w2

Symmetric == Permutations(Writers)

-----------------------------------------------------------------------------
(* The scanners and the graph search.                                      *)

CONSTANTS
    PoolTable, ReservesOf, Rank, Wsol, Usdc, Usdt, Bps, DefaultFee, MinReserve, TxFee,
    Amounts, Lsts, Focus, EstimatedSol, MinReserveSol, MinLiquidity, MaxBorrow,
    HotRoutes, HotCycles, TickPrices, OraclePrices, WhaleAmounts,
    Known, Blacklist, GraphReserve, GraphAmount, MaxHops

\* A definition, so that TLC builds the table once.
Pools == PoolTable

VARIABLES part, pools, found, index, listed, graph, nPools, rejected, starts, trial,
          job, phase, walk

searchState == <<pools, found, index, listed, graph, nPools, rejected, starts, trial,
                 job, phase, walk>>

Searching == INSTANCE RouteSearch WITH cache <- pools

\* Amounts, fees and reserves are numbers, and a pool has two tokens (DexPool).
Seen == [ra : Nat, rb : Nat, ea : Nat, eb : Nat]

ASSUME PoolAssumption ==
    /\ Bps \in Nat \ {0} /\ TxFee \in Nat \ {0} /\ MaxBorrow \in Nat /\ MaxHops \in Nat
    /\ Amounts \in Seq(Nat) \ {<<>>} /\ WhaleAmounts \subseteq Nat
    /\ \A p \in DOMAIN Pools :
          /\ Pools[p].a # Pools[p].b
          /\ Pools[p].fee \in 0..Bps
          /\ Pools[p].price[1] \in Nat \ {0} /\ Pools[p].price[2] \in Nat \ {0}
          /\ ReservesOf[p] \subseteq Seen
    /\ Known \subseteq DOMAIN Pools

\* What the database holds was found by walking the pools: two pools of one
\* pair, or three pools around a circuit from an anchor of the scanner, which
\* has USDT for one (scan_2hop, scan_3hop, scan_all_routes and save_hot_routes
\* of ml-scorer/src/snapshot_scanner.rs).
Circuit(hc) ==
    LET t == Searching!Opposite(hc.pools[1], hc.token)
        u == Searching!Opposite(hc.pools[2], t)
    IN  /\ hc.pools \in Seq(DOMAIN Pools) /\ Len(hc.pools) = 3
        /\ \A i, j \in 1..3 : i # j => hc.pools[i] # hc.pools[j]
        /\ hc.token \in {Wsol, Usdc, Usdt}
        /\ Searching!Trades(hc.pools[1], hc.token)
        /\ Searching!Trades(hc.pools[2], t) /\ Searching!Trades(hc.pools[3], u)
        /\ Searching!Opposite(hc.pools[3], u) = hc.token

ASSUME HotAssumption ==
    /\ \A hr \in HotRoutes : \A i \in 1..2 :
          /\ hr.pools[i] \in DOMAIN Pools
          /\ Searching!KeyOf(hr.pools[i]) = Searching!PairKey(hr.tokens[1], hr.tokens[2])
    /\ \A hc \in HotCycles : Circuit(hc)

-----------------------------------------------------------------------------
(* Their values: two meme pools that diverge, stable and staked-token      *)
(* pairs, a triangle through the dollar and one from USDT, and pools       *)
(* without metadata, with a thin curve or at the edge of a fee.            *)

CONSTANTS Meme, Staked

Pool(dex, a, b, meta, ticks, liquid, price) ==
    [dex |-> dex, a |-> a, b |-> b, fee |-> 1, meta |-> meta, ticks |-> ticks,
     liquid |-> liquid, price |-> price, step |-> 30, tvl |-> "unknown"]

XyK(dex, a, b) == Pool(dex, a, b, TRUE, FALSE, "none", <<1, 1>>)

MCPools ==
    [r1 |-> XyK("raydium", Wsol, Meme),
     p1 |-> XyK("pumpswap", Meme, Wsol),
     p2 |-> [XyK("pumpswap", Meme, Wsol) EXCEPT !.fee = 2],
     o1 |-> Pool("orca", Wsol, Usdc, TRUE, TRUE, "deep", <<104, 100>>),
     m1 |-> Pool("meteora", Usdc, Wsol, TRUE, FALSE, "thin", <<1, 1>>),
     s1 |-> XyK("raydium", Usdc, Wsol),
     o2 |-> Pool("orca", Meme, Usdc, TRUE, TRUE, "deep", <<103, 100>>),
     u1 |-> XyK("raydium", Wsol, Usdt),
     u2 |-> XyK("saber", Usdt, Wsol),
     l1 |-> XyK("raydium", Wsol, Staked),
     l2 |-> XyK("fluxbeam", Staked, Wsol),
     x1 |-> XyK("fluxbeam", Meme, Usdt),
     x2 |-> XyK("raydium", Usdt, Meme)]

Res(x, y) == [ra |-> x, rb |-> y, ea |-> x, eb |-> y]
Even == Res(4500, 4500)

MCReserves ==
    [r1 |-> {Even, Res(4050, 4500), Res(10, 4500)},
     p1 |-> {Even, Res(4450, 1900), Res(4500, 0)},
     p2 |-> {Even, Res(4300, 4500)},
     o1 |-> {Even},
     m1 |-> {Even},
     s1 |-> {Even, Res(4300, 4550)},
     o2 |-> {Even},
     u1 |-> {Even},
     u2 |-> {Even, Res(3940, 4500)},
     l1 |-> {Even},
     l2 |-> {Even, Res(3940, 4500)},
     x1 |-> {Even, Res(3600, 4500)},
     x2 |-> {Even, Res(4350, 4600)}]

MCRank == Wsol :> 1 @@ Usdc :> 2 @@ Usdt :> 3 @@ Meme :> 4 @@ Staked :> 5
MCPrices == Wsol :> 10 @@ Usdc :> 10 @@ Usdt :> 10 @@ Meme :> 10 @@ Staked :> 10
MCAmounts == <<80, 200>>
MCHotRoutes == {[pools |-> <<"r1", "p1">>, tokens |-> <<Wsol, Meme>>]}
MCHotCycles == {[pools |-> <<"r1", "o2", "s1">>, token |-> Wsol],
                [pools |-> <<"u2", "r1", "x1">>, token |-> Usdt]}
MCTickPrices == {<<104, 100>>, <<110, 100>>}

-----------------------------------------------------------------------------

MCInit ==
    /\ Init
    /\ \/ Searching!Init
       \/ /\ part = "engine"
          /\ pools = "none" /\ found = {} /\ index = "none" /\ listed = {} /\ graph = "none"
          /\ nPools = 0 /\ rejected = {} /\ starts = <<>> /\ trial = "none"
          /\ job = "none" /\ phase = "none" /\ walk = "none"

MCNext ==
    \/ part = "engine" /\ Next /\ UNCHANGED <<part, searchState>>
    \/ part # "engine" /\ Searching!Next /\ UNCHANGED vars

MCSpec == MCInit /\ [][MCNext]_<<part, vars, searchState>>

-----------------------------------------------------------------------------
\* Every route a scanner or the graph search returns can be carried by a flash
\* loan and pays on the pools it was quoted from what it claims (build_route
\* and the routes of the scanners); a backrun does so after another swap like
\* the whale's (check_backrun).
RoutesPay == part # "engine" => Searching!RoutesPay /\ Searching!BackrunsPayAfterSwap

\* A backrun pays on the pools of the cache (not the case; see Search).
BackrunsPayNow == part # "engine" => Searching!BackrunsPayNow

\* Every route borrows a token that a flash-loan provider lends, except those
\* of three scanners and the circuits from USDT that the database holds
\* (BORROWABLE_MINTS, scan_multihop_hot_routes).
BorrowsAnchor == part # "engine" => Searching!BorrowsAnchor

\* Quoting an amount through a pool and the output back never yields more than
\* went in; a tick walk trades with the liquidity of the position it is at; the
\* arrays a quote walks are contiguous and used up before the walk ends
\* (quote_exact_in of the venues).  The scanners' own state has its types.
QuotesHold ==
    part # "engine" => /\ Searching!TypeOK
                       /\ Searching!NoFreeRoundTrip /\ Searching!LiquidityOfThePosition
                       /\ Searching!ArraysContiguous /\ Searching!BinsExhausted
=============================================================================
