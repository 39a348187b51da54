------------------------------ MODULE MCSniper ------------------------------
(* A token that graduates to PumpSwap and is reported again for the same    *)
(* pool by another launchpad and for another pool.                          *)
EXTENDS Sniper

Grad(t, p, s) == [token |-> t, pool |-> p, source |-> s]

MCGrads == {Grad("t1", "p1", "PumpSwap"), Grad("t1", "p2", "LaunchLab"),
            Grad("t1", "p1", "Moonshot")}

\* Reserves with a snipe of 100 that bought 99 tokens: four steps of a slow fall,
\* a rise of 6 %, a crash, and a pool drained on both sides.
Pool(w, t) == [wsol |-> w, token |-> t]
Slow == {Pool(w, 400000) : w \in {404000, 400000, 396000, 392000}}
MCMarkets == Slow \cup {Pool(425000, 400000), Pool(300000, 400000), Pool(4000, 4000)}
=============================================================================
