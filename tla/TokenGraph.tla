----------------------------- MODULE TokenGraph -----------------------------
(***************************************************************************)
(* The Bellman-Ford search of market-engine/src/route_engine.rs: the       *)
(* persistent token graph, its incremental update, the negative cycle of   *)
(* each start token, the cycles rejected for ten seconds, and the route    *)
(* built from a cycle.                                                     *)
(*                                                                         *)
(* An edge carries the rate out/in of its weight.  The graph is rebuilt    *)
(* when the number of pools changed or it is a minute old, and otherwise   *)
(* re-weighted from the stored reserves; while it is searched, the feeds   *)
(* go on writing the cache that the routes are quoted from.  petgraph's    *)
(* find_negative_cycle is external: any negative cycle it can reach.       *)
(*                                                                         *)
(* cycle_to_route reads the cache twice: it chooses the pools of a cycle   *)
(* (WalkCycle), and quotes them again once the cycle is turned             *)
(* (RequoteCycle); the feeds write in between.  In each of the two the     *)
(* code takes one guard per hop, and here all hops are read in one step:   *)
(* that a route mixes the reserves of two moments is abstracted.           *)
(***************************************************************************)
EXTENDS PoolQuotes

CONSTANTS
    Known,         \* pools the cache may hold
    Blacklist,     \* the static BLACKLIST of add_edge
    GraphReserve,  \* 10_000_000, below which add_edge ignores a pool
    GraphAmount,   \* the reference amount of a rate
    MaxHops        \* MAX_HOPS

VARIABLES
    listed,     \* the pools in the cache
    graph,      \* <<pool, token in>> -> [out, in]
    nPools,     \* n_pools, -1 before the first build
    rejected,   \* rejected_cycles
    starts,     \* the start tokens find_opportunities_inner has yet to try, in order
    trial       \* the cycle being tried: its key and the ways chosen for it

graphVars == <<listed, graph, nPools, rejected, starts, trial>>

-----------------------------------------------------------------------------
(* The graph.                                                              *)

\* pool_is_eligible; the tvl of a pool with an oracle price counts instead of
\* its reserves.
PoolIsEligible(p) ==
    LET pool == Pools[p]
        c == cache[p]
    IN  /\ pool.dex = "clmm" => pool.meta /\ pool.liquid # "none"
        /\ pool.dex # "cpmm"
        /\ pool.dex = "raydium" => pool.meta
        /\ IF pool.tvl # "unknown" THEN pool.tvl = "large"
           ELSE /\ ~Dust(p)
                /\ c.ra \div 100000 <= c.rb /\ c.rb \div 100000 <= c.ra

\* add_edge: an Orca direction needs the tick arrays it walks into.
EdgesOf(p) ==
    IF cache[p].ra < GraphReserve \/ cache[p].rb < GraphReserve \/ p \in Blacklist THEN {}
    ELSE {t \in {Pools[p].a, Pools[p].b} :
            /\ Pools[p].dex = "orca" => Pools[p].meta /\ Pools[p].ticks
            /\ Quote(p, t, GraphAmount) > 0}

Built ==
    LET edges == UNION {{p} \X EdgesOf(p) : p \in {q \in listed : PoolIsEligible(q)}}
    IN  [e \in edges |-> [out |-> Quote(e[1], e[2], GraphAmount), in |-> GraphAmount]]

\* compute_rate: the constant-product rate of the stored reserves, whatever the
\* venue; a drained pool keeps the weight it had.
ComputeRate(p, t) ==
    LET x == ReserveOf(p, t)
        y == ReserveOf(p, Opposite(p, t))
        in == Min({GraphAmount, x \div 10})
        net == in - (in * Pools[p].fee) \div Bps
    IN  [out |-> IF x = 0 \/ y = 0 \/ in = 0 THEN 0 ELSE (y * net) \div (x + net), in |-> in]

Reweighted ==
    [e \in DOMAIN graph |->
        IF e[1] \in listed /\ ComputeRate(e[1], e[2]).out > 0 THEN ComputeRate(e[1], e[2])
        ELSE graph[e]]

Nodes == UNION {{e[2], Opposite(e[1], e[2])} : e \in DOMAIN graph}

\* The edges from t to u, and the best rate among them.
Between(t, u) == {e \in DOMAIN graph : e[2] = t /\ Opposite(e[1], e[2]) = u}

Steepest(t, u) ==
    CHOOSE e \in Between(t, u) :
        \A f \in Between(t, u) : graph[f].out * graph[e].in <= graph[e].out * graph[f].in

\* The token cycles with a negative weight: their rates multiply to more than
\* one.
After(c, i) == c[(i % Len(c)) + 1]

Cycles ==
    UNION {{c \in [1..n -> Nodes] : /\ IsInjective(c)
                                    /\ \A i \in 1..n : Between(c[i], After(c, i)) # {}} :
           n \in {k \in 2..(MaxHops + 1) : k <= Cardinality(Nodes)}}

Negative(c) ==
    LET Product(f(_)) == FoldLeft(LAMBDA x, i : x * f(Steepest(c[i], After(c, i))), 1, [i \in DOMAIN c |-> i])
    IN  Product(LAMBDA e : graph[e].out) > Product(LAMBDA e : graph[e].in)

\* The sorted pools of a cycle; a cycle and its reverse have the same ones.
CycleKey(c) == {PairKey(c[i], After(c, i)) : i \in DOMAIN c}

-----------------------------------------------------------------------------
(* From a cycle to a route.                                                *)

\* best_edge_for_pair: the pools that pay the most at the moment.
BestEdges(t, u, amount) ==
    LET pays == {e[1] : e \in {f \in Between(t, u) : f[1] \in listed /\ Quote(f[1], t, amount) > 0}}
    IN  {p \in pays : \A q \in pays : Quote(q, t, amount) <= Quote(p, t, amount)}

\* The pools a walk w along the cycle may take next, one of the best for the
\* amount that reaches the pair, while no hop has an impact above 10%.
NextPools(c, w, amount) ==
    LET i == Len(w) + 1
        paid == IF w = <<>> THEN amount ELSE Last(HopsAlong(w, c[1], amount)).amount
    IN  {p \in BestEdges(c[i], After(c, i), paid) : ~ImpactAbove(p, c[i], paid, 10)}

Walks(c, amount) ==
    LET walks[i \in 0..Len(c)] ==
            IF i = 0 THEN {<<>>}
            ELSE UNION {{Append(w, p) : p \in NextPools(c, w, amount)} : w \in walks[i - 1]}
    IN  walks[Len(c)]

RotateLeft(s, k) == SubSeq(s, k, Len(s)) \o SubSeq(s, 1, k - 1)

\* Mutant: the rotation stops at a start token instead of a borrowable one.
TurnedToStart(c, w, amount) ==
    LET borrowable == {i \in DOMAIN c : c[i] \in Anchors \cup {Usdt}}
        first == CHOOSE i \in borrowable : \A j \in borrowable : i <= j
        from == IF Wsol \in Nodes THEN {Wsol} ELSE Nodes
    IN  IF borrowable # {} THEN {[pools |-> RotateLeft(w, first), token |-> c[first]]}
        ELSE IF \A t \in from : BestEdges(t, c[1], amount) = {} THEN {}
        ELSE {[pools |-> <<p>> \o w \o <<p>>, token |-> Wsol] :
                p \in {q \in listed : KeyOf(q) = PairKey(Wsol, c[1])}}

\* The walk turned to start at a borrowable token: rotated to the first one in
\* it or, when it has none, bridged from WSOL and back through one pool that
\* trades the two (the first in the map, both ways).
Turned(c, w, amount) ==
    LET borrowable == {i \in DOMAIN c : c[i] \in Anchors}
        first == CHOOSE i \in borrowable : \A j \in borrowable : i <= j
        from == IF Wsol \in Nodes THEN {Wsol} ELSE Nodes
    IN  IF borrowable # {} THEN {[pools |-> RotateLeft(w, first), token |-> c[first]]}
        ELSE IF \A t \in from : BestEdges(t, c[1], amount) = {} THEN {}
        ELSE {[pools |-> <<p>> \o w \o <<p>>, token |-> Wsol] :
                p \in {q \in listed : KeyOf(q) = PairKey(Wsol, c[1])}}

\* What cycle_to_route makes of a cycle before it quotes again: for every
\* amount the pools, from the borrowed token on.
WaysFor(c, x) ==
    UNION {{[pools |-> t.pools, token |-> t.token, amount |-> x] : t \in Turned(c, w, x)} :
           w \in Walks(c, x)}

WaysOf(c) == IF Len(c) > MaxHops THEN {} ELSE UNION {WaysFor(c, x) : x \in Range(Amounts)}

\* The re-quote of the turned cycle from the borrowed amount.
Requoted(y) ==
    {r \in {Candidate(y.pools, y.token, y.amount, Len(y.pools) * TxFee, "bellman-ford")} :
        /\ \A i \in DOMAIN r.hops :
            /\ r.hops[i].amount > 0
            /\ ReserveOf(r.hops[i].pool, r.hops[i].in) >= 2 * AmountIn(r, i)
        /\ ImpactWithin(r, 10)
        /\ r.gross * 100 <= r.borrow * 20}

\* gross_profit saturates at zero, so a losing cycle has a net of minus its
\* fees; only a net of MIN_NET_PROFIT_LAMPORTS is kept.
Profitable(routes) == {r \in routes : 5 * r.net >= TxFee}

-----------------------------------------------------------------------------
(* find_opportunities_inner.                                               *)

NoTrial == [key |-> {}, ways |-> {}]

GraphInit ==
    /\ listed \in {Known, {p \in Known : ~Dust(p)}}
    /\ graph = <<>>
    /\ nPools = -1
    /\ rejected = {}
    /\ starts = <<>>
    /\ trial = NoTrial

\* ANCHOR_TOKENS, those of them that some edge trades.
StartsIn(edges) == SelectSeq(<<Wsol, Usdc, Usdt>>, LAMBDA t : \E e \in DOMAIN edges : Trades(e[1], t))

\* The graph is rebuilt or re-weighted and the old rejections go; a graph with
\* fewer than two nodes ends the search.
BeginSearch ==
    /\ starts = <<>> /\ trial = NoTrial /\ found = {}
    /\ \/ graph' = Built /\ nPools' = Cardinality(listed)
       \/ nPools = Cardinality(listed) /\ graph' = Reweighted /\ UNCHANGED nPools
    /\ rejected' \in {rejected, {}}
    /\ starts' = StartsIn(graph')
    /\ UNCHANGED <<cache, found, listed, trial>>

\* One start token: a cycle found from it that has not been rejected is
\* walked, with the pools that pay the most at the moment.
WalkCycle ==
    /\ starts # <<>> /\ trial = NoTrial /\ found = {}
    /\ starts' = Tail(starts)
    /\ \/ (\A c \in Cycles : ~Negative(c)) /\ UNCHANGED trial
       \/ \E c \in {d \in Cycles : Negative(d)} :
            trial' = IF CycleKey(c) \in rejected THEN NoTrial
                     ELSE [key |-> CycleKey(c), ways |-> WaysOf(c)]
    /\ UNCHANGED <<cache, found, listed, graph, nPools, rejected>>

\* The best way gives the route; the cycle is rejected when no size passes the
\* re-quote.
RequoteCycle ==
    LET routes == UNION {Requoted(y) : y \in trial.ways}
    IN  /\ trial # NoTrial /\ found = {}
        /\ found' = BestOf(Profitable(routes))
        /\ rejected' = IF routes = {} THEN rejected \cup {trial.key} ELSE rejected
        /\ trial' = NoTrial
        /\ UNCHANGED <<cache, listed, graph, nPools, starts>>

\* A feed discovers a pool.
ListPool(p) ==
    /\ p \in Known \ listed
    /\ listed' = listed \cup {p}
    /\ UNCHANGED <<cache, found, graph, nPools, rejected, starts, trial>>

SearchGraph == BeginSearch \/ WalkCycle \/ RequoteCycle
=============================================================================
