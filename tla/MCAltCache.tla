----------------------------- MODULE MCAltCache -----------------------------
(* Two routes and three tables: one route can be created twice.            *)
EXTENDS AltCache, TLC

CONSTANTS r1, r2, t1, t2, t3

MCRoutes == {r1, r2}
MCTables == {t1, t2, t3}
MCSymmetry == Permutations(MCRoutes) \cup Permutations(MCTables)
=============================================================================
