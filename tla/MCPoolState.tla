----------------------------- MODULE MCPoolState -----------------------------
(***************************************************************************)
(* Instances of PoolState for TLC.  A word has 6 bits instead of 64, so    *)
(* that the failed swap of 40 turns negative as an i64 and its fee product *)
(* wraps; the fee is a quarter.                                            *)
(***************************************************************************)
EXTENDS PoolState

StartBalances == [s \in Sides |-> 8]

\* Swaps that put the second token in, and swaps of both directions.
SwapsBtoA == {<<"b", 4>>}
SwapsBoth == {<<"a", 4>>, <<"b", 4>>}

\* A deposit into one vault.
Donations == {<<"b", 1>>}

\* A new pool: reserves are not known yet.
UpsertReserves == {[a |-> 0, b |-> 0]}
=============================================================================
