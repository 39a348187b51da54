---------------------------- MODULE RouteSearch ----------------------------
(***************************************************************************)
(* The scanners, the graph search and the quote engines of the venues.     *)
(* They share nothing but the pools, so a behaviour runs one of them       *)
(* (part): the scanners or the graph search over the pools that matter to  *)
(* it, or one quote there and back.                                        *)
(***************************************************************************)
EXTENDS Search, TokenGraph

VARIABLES part, job, phase, walk

quoteVars == <<job, phase, walk>>

Even == [ra |-> 4500, rb |-> 4500, ea |-> 4500, eb |-> 4500]

\* The pools that move in each part.
Moving ==
    [memes |-> {"r1", "p1", "p2"},
     stables |-> {"s1", "u2", "l2", "r1"},
     graph |-> {"r1", "x1"}]

-----------------------------------------------------------------------------
(* Arrays of three ticks or bins; Whirlpools with ticks on both sides of   *)
(* zero and of an array's edge, DLMM pools with gaps between their arrays, *)
(* curves up to a third off balance.                                       *)

Good == [long |-> TRUE, own |-> TRUE, status |-> 1, keys |-> TRUE]
Accounts ==
    {Good, [Good EXCEPT !.long = FALSE], [Good EXCEPT !.own = FALSE],
     [Good EXCEPT !.status = 2], [Good EXCEPT !.status = 0], [Good EXCEPT !.keys = FALSE]}

OrcaJobs ==
    {[venue |-> "orca", amount |-> n, down |-> d, account |-> Good, price |-> p, liquidity |-> 4,
      ticks |-> [t \in ts |-> IF t = -4 THEN 3 ELSE -1]] :
        n \in {5, 26, 60}, d \in BOOLEAN, p \in {-3, -2, 0, 1, 5},
        ts \in SUBSET {-4, -3, 0, 2}}

SomeBin(x, y, price) == [x |-> x, y |-> y, price |-> price]
Row(i) ==
    CASE i < 0 -> <<SomeBin(0, 3, 2), SomeBin(0, 0, 3), SomeBin(0, 4, 3)>>
      [] i = 0 -> <<SomeBin(0, 2, 4), SomeBin(3, 3, 4), SomeBin(2, 0, 5)>>
      [] OTHER -> <<SomeBin(4, 0, 6), SomeBin(0, 0, 7), SomeBin(2, 0, 8)>>

MeteoraJobs ==
    {[venue |-> "meteora", amount |-> n, down |-> d, account |-> Good, active |-> a,
      arrays |-> [i \in arrays |-> Row(i)], fee |-> f] :
        n \in {7, 30}, d \in BOOLEAN, a \in {-1, 1, 2},
        arrays \in {S \in SUBSET (-3..2) : Cardinality(S) \in 2..4},
        f \in {[base |-> 1, step |-> 1, control |-> 0, volatility |-> 0],
               [base |-> 0, step |-> 1, control |-> 90, volatility |-> 3]}}

CurveJobs ==
    {[venue |-> v, amount |-> n, down |-> d, account |-> a, x |-> x, y |-> 130, amp |-> amp, fee |-> f] :
        v \in {"saber", "cpmm", "fluxbeam"}, n \in {0, 9, 40}, d \in BOOLEAN, a \in Accounts,
        x \in {0, 90, 100}, amp \in {1, 10}, f \in {0, 1}}

Quotes ==
    INSTANCE VenueQuotes
    WITH Jobs <- {OrcaJobs, MeteoraJobs, CurveJobs}, ArraySize <- 3, MaxSteps <- 12,
         Scale <- 4, FeePrecision <- 100, MaxFeeRate <- 10, PerSide <- 2, BitmapSize <- 3,
         MaxU <- 1000000000, SaberRounding <- 2

-----------------------------------------------------------------------------

Init ==
    /\ cache = [p \in PoolIds |-> Even]
    /\ found = {}
    /\ index = RebuiltIndex
    /\ GraphInit
    /\ \/ /\ part \in DOMAIN Moving
          /\ part # "graph" => listed = Known
          /\ job = "none" /\ phase = "none" /\ walk = "none"
       \/ part = "quotes" /\ listed = Known /\ Quotes!Init

Next ==
    /\ UNCHANGED part
    /\ \/ /\ part \in {"memes", "stables"}
          /\ Scan
          /\ UNCHANGED <<graphVars, quoteVars>>
       \/ /\ part = "quotes"
          /\ Quotes!Next
          /\ UNCHANGED <<cache, found, index, graphVars>>
       \/ /\ part = "graph"
          /\ SearchGraph \/ \E p \in Known : ListPool(p)
          /\ UNCHANGED <<index, quoteVars>>
       \/ /\ part \in DOMAIN Moving
          /\ \/ HandOn
             \/ \E p \in Moving[part] : \E r \in ReservesOf[p] : MovePool(p, r)
          /\ UNCHANGED <<graphVars, quoteVars>>

Spec == Init /\ [][Next]_<<cache, found, index, graphVars, part, quoteVars>>

\* Reserves are ones the feeds may store, the index names other pools of the
\* same pair, and no route is longer than a bridged cycle of MAX_HOPS.
TypeOK ==
    IF part = "quotes" THEN Quotes!TypeOK ELSE
    /\ \A p \in PoolIds : cache[p] \in ReservesOf[p]
    /\ \A p \in DOMAIN index : \A q \in index[p] : q # p /\ KeyOf(q) = KeyOf(p)
    /\ \A r \in found : Len(r.hops) \in 2..(MaxHops + 2)
    /\ \A r \in found : Len(r.hops) > MaxHops => Last(r.hops).pool = r.hops[1].pool
    /\ listed \subseteq Known /\ \A e \in DOMAIN graph : Trades(e[1], e[2])

\* The properties of VenueQuotes, for the behaviours that quote.
NoFreeRoundTrip == part = "quotes" => Quotes!NoFreeRoundTrip
LiquidityOfThePosition == part = "quotes" => Quotes!LiquidityOfThePosition
ArraysContiguous == part = "quotes" => Quotes!ArraysContiguous
BinsExhausted == part = "quotes" => Quotes!BinsExhausted
=============================================================================
