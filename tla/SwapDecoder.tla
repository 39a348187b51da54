---------------------------- MODULE SwapDecoder ----------------------------
(***************************************************************************)
(* What the signal processor reads in the top-level instructions of a      *)
(* transaction: swaps, graduations, pool creations, liquidity events       *)
(* (swap_decoder.rs, liquidity_events.rs).  An instruction is a record     *)
(*   prog    the program it calls                                          *)
(*   op      its discriminator                                             *)
(*   size    the length of its data in bytes                               *)
(*   turn    the value of the byte the decoder takes for the direction     *)
(*   amount  its first amount, in the caller's terms                       *)
(*   accs    its accounts; Loaded stands for an account that only a lookup *)
(*           table names, which the static keys do not hold                *)
(***************************************************************************)
EXTENDS Naturals, Sequences

CONSTANTS Wsol, Loaded

NoEvent == [kind |-> "none"]

\* The account at a position of the code (counted from zero), Loaded when the
\* instruction is shorter or the key is not static.
AccountAt(ix, i) == IF i + 1 \in DOMAIN ix.accs THEN ix.accs[i + 1] ELSE Loaded

-----------------------------------------------------------------------------
(* One row per decoder: the operations it reads, the shortest data it       *)
(* accepts, the position of the pool, and what it makes of the direction:   *)
(* "forward" whatever the instruction says, "turn" the byte it looks at,    *)
(* or "buy" forward for a buy only.                                         *)

RaydiumV4Swap == [ops |-> {"swap_base_in"}, least |-> 17, pool |-> 1, dir |-> "forward"]
RaydiumClmmSwap == [ops |-> {"swap", "swap_v2"}, least |-> 16, pool |-> 2, dir |-> "turn"]
OrcaSwap == [ops |-> {"swap"}, least |-> 42, pool |-> 2, dir |-> "turn"]
MeteoraSwap == [ops |-> {"swap"}, least |-> 24, pool |-> 0, dir |-> "forward"]
PumpSwapTrade == [ops |-> {"buy", "sell"}, least |-> 16, pool |-> 0, dir |-> "buy"]
FluxbeamSwap == [ops |-> {"swap"}, least |-> 17, pool |-> 1, dir |-> "forward"]
SaberSwap == [ops |-> {"swap"}, least |-> 17, pool |-> 1, dir |-> "forward"]
RaydiumCpmmSwap ==
    [ops |-> {"swap_base_input", "swap_base_output"}, least |-> 24, pool |-> 2,
     dir |-> "forward"]
PumpFunTrade == [ops |-> {"buy", "sell"}, least |-> 16, pool |-> 2, dir |-> "buy"]
JupiterRoute == [ops |-> {"route", "shared_route"}, least |-> 8, pool |-> 0, dir |-> "forward"]
MeteoraDynSwap == [ops |-> {"swap"}, least |-> 24, pool |-> 0, dir |-> "forward"]

Decoders ==
    [raydium |-> RaydiumV4Swap, clmm |-> RaydiumClmmSwap, orca |-> OrcaSwap,
     meteora |-> MeteoraSwap, pumpswap |-> PumpSwapTrade, fluxbeam |-> FluxbeamSwap,
     saber |-> SaberSwap, cpmm |-> RaydiumCpmmSwap, pumpfun |-> PumpFunTrade,
     jupiter |-> JupiterRoute, meteora_dyn |-> MeteoraDynSwap]

\* The programs the processor watches; LaunchLab and Moonshot have no decoder.
Monitored == DOMAIN Decoders \union {"launchlab", "moonshot"}

\* A decoder passes over an instruction of another operation, one that is too
\* short, and one whose pool is not a static key.
IsSwap(ix) ==
    /\ ix.prog \in DOMAIN Decoders
    /\ LET row == Decoders[ix.prog]
       IN ix.op \in row.ops /\ ix.size >= row.least /\ AccountAt(ix, row.pool) # Loaded

\* The amounts inside a Jupiter route are not parsed: it counts as zero.
SwapOf(ix) ==
    LET row == Decoders[ix.prog]
    IN [dex |-> ix.prog,
        pool |-> AccountAt(ix, row.pool),
        amount |-> IF ix.prog = "jupiter" THEN "none" ELSE ix.amount,
        forward |-> CASE row.dir = "forward" -> TRUE
                      [] row.dir = "turn" -> ix.turn # 0
                      [] row.dir = "buy" -> ix.op = "buy"]

DecodedSwaps(tx) ==
    LET swaps == SelectSeq(tx, IsSwap) IN [i \in DOMAIN swaps |-> SwapOf(swaps[i])]

\* What the wallet tracker is told of a swap: the tokens of its pool in the
\* order of the decoded direction, and the signer.
Enriched(signer, swap, tokens) ==
    [wallet |-> signer, pool |-> swap.pool, dex |-> swap.dex, amount |-> swap.amount,
     token_in |-> IF swap.forward THEN tokens[1] ELSE tokens[2],
     token_out |-> IF swap.forward THEN tokens[2] ELSE tokens[1]]

-----------------------------------------------------------------------------
(* Graduations.                                                             *)

PumpSwapCreation(ix) == ix.prog = "pumpswap" /\ ix.op = "create_pool"

CreatedToken(ix) ==
    IF AccountAt(ix, 3) = Wsol THEN AccountAt(ix, 4) ELSE AccountAt(ix, 3)

MigrateOps ==
    [pumpfun |-> {"migrate"},
     launchlab |-> {"migrate_to_amm", "migrate_to_cpswap"},
     moonshot |-> {"migrateFunds", "migrate_funds", "migrate_meteora_damm",
                   "migration_damm_v2"}]

Migration(ix) == ix.prog \in DOMAIN MigrateOps /\ ix.op \in MigrateOps[ix.prog]

\* The destination of a Moonshot migration: the account after the curve if one
\* of the later ones is a venue's program, the curve itself otherwise.
MoonshotPool(ix) ==
    IF /\ \E i \in 4..Len(ix.accs) : ix.accs[i] \in {"raydium", "meteora", "meteora_dyn"}
       /\ AccountAt(ix, 3) # Loaded
    THEN AccountAt(ix, 3)
    ELSE AccountAt(ix, 2)

MigratedPool(ix) ==
    CASE ix.prog = "pumpfun" -> AccountAt(ix, 2)
      [] ix.prog = "launchlab" -> AccountAt(ix, 1)
      [] ix.prog = "moonshot" -> MoonshotPool(ix)

MigratedToken(ix) ==
    CASE ix.prog = "pumpfun" -> AccountAt(ix, 0)
      [] ix.prog = "launchlab" -> AccountAt(ix, 2)
      [] ix.prog = "moonshot" -> AccountAt(ix, 1)

\* The token and pool an instruction graduates, the base mint first.  Without
\* the pool's mints the processor takes wrapped SOL for the base.
Graduated(ix) ==
    IF PumpSwapCreation(ix)
    THEN [kind |-> "graduation", mint |-> CreatedToken(ix), pool |-> AccountAt(ix, 0),
          base |-> AccountAt(ix, 3), quote |-> AccountAt(ix, 4)]
    ELSE [kind |-> "graduation", mint |-> MigratedToken(ix), pool |-> MigratedPool(ix),
          base |-> Wsol, quote |-> MigratedToken(ix)]

\* detect_graduation: the first instruction that graduates a token decides; a
\* pool of wrapped SOL with itself is passed over, and one with an account that
\* is not a static key ends the search.
Graduation(tx) ==
    LET candidate(ix) ==
            \/ PumpSwapCreation(ix) /\ (CreatedToken(ix) # Wsol \/ AccountAt(ix, 0) = Loaded)
            \/ Migration(ix)
        found == SelectSeq(tx, candidate)
    IN IF found = <<>> THEN NoEvent
       ELSE LET g == Graduated(Head(found))
            IN IF Loaded \in {g.mint, g.pool, g.base, g.quote} THEN NoEvent ELSE g

-----------------------------------------------------------------------------
(* Pool creations: the position of the pool and of the two mints.           *)

CreationRows ==
    [raydium |-> [op |-> "initialize2", pool |-> 4, a |-> 8, b |-> 9],
     orca |-> [op |-> "initialize_pool", pool |-> 4, a |-> 1, b |-> 2],
     meteora |-> [op |-> "initialize_lb_pair", pool |-> 0, a |-> 2, b |-> 3],
     cpmm |-> [op |-> "initialize", pool |-> 3, a |-> 5, b |-> 6]]

IsCreation(ix) ==
    /\ ix.prog \in DOMAIN CreationRows
    /\ LET row == CreationRows[ix.prog]
       IN /\ ix.op = row.op
          /\ \A i \in {row.pool, row.a, row.b} : AccountAt(ix, i) # Loaded

Creations(tx) ==
    LET made == SelectSeq(tx, IsCreation)
        of(ix) == LET row == CreationRows[ix.prog]
                  IN [dex |-> ix.prog, pool |-> AccountAt(ix, row.pool),
                      a |-> AccountAt(ix, row.a), b |-> AccountAt(ix, row.b)]
    IN [i \in DOMAIN made |-> of(made[i])]

-----------------------------------------------------------------------------
(* Liquidity: Raydium's pool is the second account, PumpSwap's the first;   *)
(* without the amount's bytes the amount is zero.                           *)

LpRows ==
    [raydium |-> [add |-> "add_liquidity", remove |-> "remove_liquidity", pool |-> 1, least |-> 9],
     pumpswap |-> [add |-> "deposit", remove |-> "withdraw", pool |-> 0, least |-> 16]]

IsLpEvent(ix) ==
    /\ ix.prog \in DOMAIN LpRows
    /\ LET row == LpRows[ix.prog]
       IN ix.op \in {row.add, row.remove} /\ AccountAt(ix, row.pool) # Loaded

LpEvents(tx) ==
    {LET row == LpRows[tx[i].prog]
     IN [pool |-> AccountAt(tx[i], row.pool), remove |-> tx[i].op = row.remove,
         amount |-> IF tx[i].size >= row.least THEN tx[i].amount ELSE "none"] :
       i \in {k \in DOMAIN tx : IsLpEvent(tx[k])}}

=============================================================================
