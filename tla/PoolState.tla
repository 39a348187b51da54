------------------------------ MODULE PoolState ------------------------------
(***************************************************************************)
(* One pool of market-engine's PoolStateCache and the threads that share   *)
(* it:                                                                     *)
(*                                                                         *)
(*  - signal-processor applies every transaction decoded from shreds,      *)
(*    first through ShredDeltaTracker (optimistic reserves, dirty vaults), *)
(*    then through apply_swap_delta (polled reserves);                     *)
(*  - dirty-vault-refresh drains the dirty vaults, fetches them over RPC   *)
(*    and overwrites both kinds of reserves;                               *)
(*  - account feeds and the hydrator write the polled reserves;            *)
(*  - upsert and remove replace and drop the entry.                        *)
(*                                                                         *)
(* A DashMap guard makes the statements executed under it one step; what   *)
(* the code does after it drops the guard is another step.                 *)
(***************************************************************************)
EXTENDS Integers, FiniteSets

CONSTANTS
    Swaps,       \* <<side, amount>> of the swaps that land: what goes in
    Transfers,   \* <<side, amount>> of the transfers into a vault that land
    BadAmounts,  \* amounts of the swaps that fail on chain
    FeeBps,      \* fee_bps of the pool
    FeeDen,      \* 10_000 in the code
    Mod,         \* 2^64 in the code: the number of u64 values
    Start,       \* the balance of each vault at start
    Estimates,   \* the reserves upsert puts in for a pool it has not read
    Others,      \* vaults of the other pools, which share the dirty set
    MaxDrain,    \* vaults drained per turn: 50 in the code
    MaxTx        \* bound: transactions that land or fail, feed writes, upserts

Sides == {"a", "b"}
Vaults == Sides \cup Others
U64 == 0 .. (Mod - 1)

ASSUME PoolConstants ==
    /\ FeeDen \in Nat \ {0} /\ FeeBps \in 0 .. FeeDen
    /\ Mod \in Nat \ {0} /\ Mod % 2 = 0
    /\ Swaps \subseteq Sides \X U64 /\ Transfers \subseteq Sides \X U64
    /\ BadAmounts \subseteq U64
    /\ Start \in [Sides -> U64] /\ Estimates \subseteq [Sides -> U64]
    /\ Others \cap Sides = {} /\ MaxDrain \in Nat \ {0}
    /\ MaxTx \in Nat

VARIABLES
    chain,    \* vault balances at the tip of the chain
    final,    \* vault balances an RPC node answers with: finalized, so older
    wire,     \* transactions whose shreds have not been decoded yet
    txs,      \* how many transactions, feed writes and upserts there have been
    cached,   \* the pool is in PoolStateCache.inner
    res,      \* reserve_a, reserve_b
    opt,      \* reserve_a_optimistic, reserve_b_optimistic
    fresh,    \* last_shred_update is less than 10 s old
    proc,     \* the signal-processor thread
    dirty,    \* dirty_vaults
    refresh,  \* the dirty-vault-refresh thread
    owed      \* history: vaults of the pool marked and not asked for since

pool == <<cached, res, opt, fresh>>
world == <<chain, final, wire, txs>>
threads == <<proc, dirty, refresh, owed>>
vars == <<world, pool, threads>>

-----------------------------------------------------------------------------
(* Reserves and quotes.                                                    *)

Other(s) == IF s = "a" THEN "b" ELSE "a"

\* `x as i64` for a machine word x, and what wraps back to it.
AsI64(x) == LET w == x % Mod IN IF w < Mod \div 2 THEN w ELSE w - Mod

SaturatingAdd(x, y) == IF x + y < Mod THEN x + y ELSE Mod - 1

\* Mutant: a plain subtraction.
PlainSub(x, y) == x - y

SaturatingSub(x, y) == IF x < y THEN 0 ELSE x - y

EffectiveReserves ==
    IF opt["a"] > 0 /\ opt["b"] > 0 /\ fresh THEN opt ELSE res

\* quote_a_to_b and quote_b_to_a of an XY=K pool, in u128.
Quote(r, side, amount) ==
    LET withFee == amount * (FeeDen - FeeBps)
    IN  IF r["a"] = 0 \/ r["b"] = 0 THEN 0
        ELSE (withFee * r[Other(side)])
               \div (r[side] * FeeDen + withFee)

\* Mutant: the fee is added to what goes in.
NetInFeeAdded(amount) == amount + ((amount * FeeBps) % Mod) \div FeeDen

\* The amount that goes in after the fee; amount * fee_bps is a u64 product.
NetIn(amount) == SaturatingSub(amount, ((amount * FeeBps) % Mod) \div FeeDen)

\* The reserves after apply_shred_delta with amount in on one side.
ApplyShredDelta(side, in, out) ==
    LET base == IF opt["a"] > 0 THEN opt ELSE res
        delta == [s \in Sides |->
                    IF s = side THEN AsI64(in) ELSE AsI64(-AsI64(out))]
        sum(s) == AsI64(AsI64(base[s]) + delta[s])
    IN  [s \in Sides |-> IF sum(s) > 0 THEN sum(s) ELSE 0]

-----------------------------------------------------------------------------
(* The chain and its shreds.                                               *)

\* What an on-chain constant product swap makes of the balances r.
Swapped(r, side, amount) ==
    LET net == amount - (amount * FeeBps) \div FeeDen
        out == (r[Other(side)] * net) \div (r[side] + net)
    IN  [s \in Sides |-> IF s = side THEN r[s] + amount ELSE r[s] - out]

Tx(kind, side, amount) ==
    [id |-> txs, kind |-> kind, side |-> side, amount |-> amount]

Sent(t) ==
    /\ txs < MaxTx
    /\ txs' = txs + 1
    /\ wire' = wire \cup {t}

LandSwap(side, amount) ==
    /\ chain[side] + amount < Mod
    /\ chain[side] > 0
    /\ Sent(Tx("swap", side, amount))
    /\ chain' = Swapped(chain, side, amount)
    /\ UNCHANGED <<final, pool, threads>>

LandTransfer(side, amount) ==
    /\ chain[side] + amount < Mod
    /\ Sent(Tx("transfer", side, amount))
    /\ chain' = [chain EXCEPT ![side] = @ + amount]
    /\ UNCHANGED <<final, pool, threads>>

\* A swap that fails is in the shreds all the same.
FailSwap(amount) ==
    /\ Sent(Tx("swap", "a", amount))
    /\ UNCHANGED <<chain, final, pool, threads>>

\* What an RPC node calls finalized catches up with the tip.
Finalize ==
    /\ final # chain
    /\ final' = chain
    /\ UNCHANGED <<chain, wire, txs, pool, threads>>

-----------------------------------------------------------------------------
(* signal-processor: ShredDeltaTracker::process_transaction, then the swap *)
(* through SignalProcessor.                                                *)

Idle == [pc |-> "idle", amount |-> 0, out |-> 0]

\* Both Raydium and PumpSwap list vault_a first, and the loop over the
\* accounts stops at the first one in vault_to_pool.
FirstVault == "a"

\* A swap found in the shreds: the optimistic reserves and the dirty vault
\* change under the guard of the pool.
ShredSwap(amount) ==
    LET eff == EffectiveReserves
        net == NetIn(amount)
        out == (eff[Other(FirstVault)] * net) \div (eff[FirstVault] + net)
    IN  IF cached /\ eff["a"] > 0 /\ eff["b"] > 0
        THEN /\ opt' = ApplyShredDelta(FirstVault, amount, out)
             /\ fresh' = TRUE
             /\ dirty' = dirty \cup {FirstVault}
             /\ owed' = owed \cup {FirstVault}
        ELSE UNCHANGED <<opt, fresh, dirty, owed>>

ProcessSwap(t) ==
    /\ proc.pc = "idle"
    /\ t \in wire /\ t.kind = "swap"
    /\ wire' = wire \ {t}
    /\ ShredSwap(t.amount)
    /\ proc' = [proc EXCEPT !.pc = "quote", !.amount = t.amount]
    /\ UNCHANGED <<chain, final, txs, cached, res, refresh>>

\* A swap of another pool found in the shreds marks the vault of that pool.
MarkOther(v) ==
    /\ proc.pc = "idle"
    /\ dirty' = dirty \cup {v}
    /\ UNCHANGED <<world, pool, proc, refresh, owed>>

\* apply_delta for a token transfer into a vault.
ProcessTransfer(t) ==
    /\ proc.pc = "idle"
    /\ t \in wire /\ t.kind = "transfer"
    /\ wire' = wire \ {t}
    /\ res' = IF cached
              THEN [res EXCEPT ![t.side] = SaturatingAdd(@, t.amount)]
              ELSE res
    /\ UNCHANGED <<chain, final, txs, cached, opt, fresh, threads>>

\* SignalProcessor quotes on a copy of the pool: decode_raydium_v4 always
\* says a_to_b.
QuoteSwap ==
    /\ proc.pc = "quote"
    /\ proc' = IF cached
               THEN [proc EXCEPT !.pc = "apply",
                        !.out = Quote(EffectiveReserves, "a", proc.amount)]
               ELSE Idle
    /\ UNCHANGED <<world, pool, dirty, refresh, owed>>

\* apply_swap_delta takes the guard again: the reserves may have changed.
ApplySwapDelta ==
    /\ proc.pc = "apply"
    /\ proc' = Idle
    /\ res' = IF cached
              THEN [s \in Sides |->
                      IF s = "a" THEN SaturatingAdd(res[s], proc.amount)
                                 ELSE SaturatingSub(res[s], proc.out)]
              ELSE res
    /\ UNCHANGED <<world, cached, opt, fresh, dirty, refresh, owed>>

\* Ten seconds without a shred update; it only matters when there are
\* optimistic reserves.
GoStale ==
    /\ fresh /\ opt["a"] > 0
    /\ fresh' = FALSE
    /\ UNCHANGED <<world, cached, res, opt, threads>>

-----------------------------------------------------------------------------
(* dirty-vault-refresh.                                                    *)

Zero == [s \in Sides |-> 0]
Rest == [pc |-> "idle", vaults |-> {}, balances |-> Zero]

\* The vaults the iteration may have come to when it breaks off: MaxDrain of
\* them, any ones, as a DashMap iterates in the order of its hashes.
Iterated ==
    {vaults \in SUBSET dirty :
        Cardinality(vaults) = IF Cardinality(dirty) < MaxDrain
                              THEN Cardinality(dirty) ELSE MaxDrain}

\* Mutant: the refresh waits until it has a full batch.
DrainWhenFull ==
    /\ refresh.pc = "idle" /\ Cardinality(dirty) > MaxDrain
    /\ \E vaults \in Iterated :
          refresh' = [refresh EXCEPT !.pc = "drain", !.vaults = vaults]
    /\ UNCHANGED <<world, pool, proc, dirty, owed>>

\* drain_dirty_vaults first iterates, and breaks off at 50 vaults ...
Drain ==
    /\ refresh.pc = "idle" /\ dirty # {}
    /\ \E vaults \in Iterated :
          refresh' = [refresh EXCEPT !.pc = "drain", !.vaults = vaults]
    /\ UNCHANGED <<world, pool, proc, dirty, owed>>

\* ... and then removes what it has seen.
DrainRemove ==
    /\ refresh.pc = "drain"
    /\ dirty' = dirty \ refresh.vaults
    /\ refresh' = [refresh EXCEPT !.pc = "fetch"]
    /\ UNCHANGED <<world, pool, proc, owed>>

\* The client is built without a commitment, so it answers with finalized
\* balances.
Fetch ==
    /\ refresh.pc = "fetch"
    /\ refresh' = [refresh EXCEPT !.pc = "apply", !.balances =
                    [s \in Sides |-> IF s \in refresh.vaults THEN final[s] ELSE 0]]
    /\ owed' = owed \ refresh.vaults
    /\ UNCHANGED <<world, pool, proc, dirty>>

\* An RPC error: nothing to apply, and the vaults are no longer marked.
FetchFails ==
    /\ refresh.pc = "fetch"
    /\ refresh' = Rest
    /\ owed' = owed \ refresh.vaults
    /\ UNCHANGED <<world, pool, proc, dirty>>

\* apply_vault_balances, one guard per vault; the vault of another pool
\* corrects that pool.
WriteBalance(v) ==
    /\ refresh.pc = "apply" /\ v \in refresh.vaults
    /\ IF cached /\ v \in Sides
       THEN /\ res' = [res EXCEPT ![v] = refresh.balances[v]]
            /\ opt' = [opt EXCEPT ![v] = refresh.balances[v]]
            /\ fresh' = TRUE
       ELSE UNCHANGED <<res, opt, fresh>>
    /\ refresh' = IF refresh.vaults = {v} THEN Rest
                  ELSE [refresh EXCEPT !.vaults = @ \ {v}]
    /\ UNCHANGED <<world, cached, proc, owed>>

\* Mutant: a corrected vault is taken off the dirty set once more.
ApplyVaultBalanceUnmarking(v) == WriteBalance(v) /\ dirty' = dirty \ {v}

ApplyVaultBalance(v) == WriteBalance(v) /\ UNCHANGED dirty

-----------------------------------------------------------------------------
(* Feeds and hydration.                                                    *)

\* update_reserve_by_vault, from vault-watcher, geyser and the RPC refreshes.
UpdateReserveByVault(v) ==
    /\ cached
    /\ res[v] # chain[v]
    /\ txs < MaxTx /\ txs' = txs + 1
    /\ res' = [res EXCEPT ![v] = chain[v]]
    /\ UNCHANGED <<chain, final, wire, cached, opt, fresh, threads>>

\* refresh_all and refresh_single_pool write without a bump.
Hydrate(v) ==
    /\ cached /\ res[v] # final[v]
    /\ txs < MaxTx /\ txs' = txs + 1
    /\ res' = [res EXCEPT ![v] = final[v]]
    /\ UNCHANGED <<chain, final, wire, cached, opt, fresh, threads>>

-----------------------------------------------------------------------------
(* upsert, for a graduation or a pool found through an API, puts a new     *)
(* entry in place of the old one; pool-validator removes.                  *)

Upsert(r) ==
    /\ txs < MaxTx /\ txs' = txs + 1
    /\ res' = r
    /\ opt' = Zero
    /\ fresh' = TRUE
    /\ cached' = TRUE
    /\ UNCHANGED <<chain, final, wire, threads>>

Remove ==
    /\ cached
    /\ cached' = FALSE
    /\ res' = Zero /\ opt' = Zero /\ fresh' = FALSE
    /\ UNCHANGED <<world, threads>>

-----------------------------------------------------------------------------
Init ==
    /\ chain = Start /\ final = Start
    /\ wire = {} /\ txs = 0
    /\ cached = TRUE
    /\ res = Start
    /\ opt = Zero
    /\ fresh = TRUE
    /\ proc = Idle
    /\ dirty = {}
    /\ refresh = Rest
    /\ owed = {}

Chain ==
    \/ \E d \in Swaps : LandSwap(d[1], d[2])
    \/ \E d \in Transfers : LandTransfer(d[1], d[2])
    \/ \E amount \in BadAmounts : FailSwap(amount)
    \/ Finalize

SignalProcessor ==
    \/ \E t \in wire : ProcessSwap(t)
    \/ \E t \in wire : ProcessTransfer(t)
    \/ \E v \in Others : MarkOther(v)
    \/ QuoteSwap \/ ApplySwapDelta

DirtyVaultRefresh ==
    \/ Drain \/ DrainRemove \/ Fetch \/ FetchFails
    \/ \E v \in Vaults : ApplyVaultBalance(v)

Writers ==
    \/ \E v \in Sides : UpdateReserveByVault(v) \/ Hydrate(v)
    \/ \E r \in Estimates : Upsert(r)
    \/ Remove

Next ==
    \/ Chain \/ SignalProcessor \/ DirtyVaultRefresh \/ Writers
    \/ GoStale

\* The refresh thread loops for ever with a sleep of two seconds, and its RPC
\* client gives up after ten.
Spec == Init /\ [][Next]_vars /\ WF_vars(DirtyVaultRefresh)

-----------------------------------------------------------------------------
(* Properties.                                                             *)

\* Reserves, balances and quotes are u64 values whatever a transaction says,
\* and every thread is at one of its steps.
TypeOK ==
    /\ chain \in [Sides -> U64] /\ final \in [Sides -> U64]
    /\ txs \in Nat
    /\ wire \subseteq [id : Nat, kind : {"swap", "transfer"},
                       side : Sides, amount : U64]
    /\ cached \in BOOLEAN /\ fresh \in BOOLEAN
    /\ res \in [Sides -> U64] /\ opt \in [Sides -> U64]
    /\ proc \in [pc : {"idle", "quote", "apply"},
                 amount : U64, out : U64]
    /\ dirty \subseteq Vaults /\ owed \subseteq Sides
    /\ refresh \in [pc : {"idle", "drain", "fetch", "apply"},
                    vaults : SUBSET Vaults, balances : [Sides -> U64]]

\* A vault that a shred swap marked dirty stays marked, or in the hands of
\* the refresh, until the refresh asks the RPC for it: drain_dirty_vaults may
\* remove a mark made while it iterates, never one made after the request.
MarksReachTheFetch ==
    owed \subseteq dirty \cup
                   (IF refresh.pc \in {"drain", "fetch"} THEN refresh.vaults
                                                         ELSE {})

\* A swap simulated on fresh optimistic reserves, with amounts that fit an
\* i64, never lowers the product of the reserves: the simulation may not
\* promise more out of the pool than the pool pays.  (A reserve of Mod \div 2
\* or more is negative as an i64 and becomes 0.)
SwapKeepsProduct ==
    [][ LET in == proc'.amount
        IN  /\ proc.pc = "idle" /\ proc'.pc = "quote"
            /\ cached /\ fresh /\ opt["a"] > 0 /\ opt["b"] > 0
            /\ in * FeeBps < Mod
            /\ opt["a"] + in < Mod \div 2 /\ opt["b"] < Mod \div 2
            => opt'["a"] * opt'["b"] >= opt["a"] * opt["b"] ]_vars

\* A marked vault is asked for, RPC errors or not, if from some time on the
\* marks fit into one turn, or no other pool is marked afresh.  Nothing less
\* will do: a turn takes MaxDrain marks in the order of the map and not the
\* oldest, so a steady load of swaps in other pools can keep a vault waiting
\* for ever.
MarksAreServed ==
    \/ <>[](Cardinality(dirty) <= MaxDrain)
    \/ <>[][dirty' \cap Others \subseteq dirty]_vars
    => (FirstVault \in dirty ~> FirstVault \notin owed)

\* "Shred-decoded TX deltas keep optimistic reserves accurate even without
\* RPC polling": when the reserves in use become the balances of the chain by
\* the last swap on the wire, then processing that swap makes them so.  (Stale
\* optimistic reserves, which are not the ones in use, are left out.)
OptimisticAccurate ==
    [][ \A t \in wire :
          /\ wire = {t} /\ t.kind = "swap" /\ wire' = {}
          /\ cached /\ (fresh \/ opt = Zero)
          /\ \A s \in Sides : EffectiveReserves[s] > 0
          /\ Swapped(EffectiveReserves, t.side, t.amount) = chain
          => EffectiveReserves' = chain ]_vars
=============================================================================
