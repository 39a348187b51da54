---------------------------- MODULE PoolStateProofs ----------------------------
(***************************************************************************)
(* TLAPS proofs about PoolState: reserves stay u64 values, no mark of a    *)
(* dirty vault is lost before the refresh has asked for the vault, and a   *)
(* swap simulated on the optimistic reserves never lowers their product.   *)
(***************************************************************************)
EXTENDS PoolState, TLAPS

-----------------------------------------------------------------------------
(* Integer division *)

\* A quotient times its divisor is at most the dividend, and less by less than
\* the divisor.
LEMMA DivMul ==
  ASSUME NEW x \in Nat, NEW y \in Nat \ {0}
  PROVE  /\ x \div y \in Nat
         /\ (x \div y) * y <= x
         /\ x < (x \div y) * y + y
  BY Z3

\* Multiplication is monotone.
LEMMA MulMono ==
  ASSUME NEW x \in Nat, NEW y \in Nat, NEW z \in Nat, x <= y
  PROVE  x * z <= y * z /\ x * z \in Nat /\ y * z \in Nat
  BY Z3

\* A quotient is at most q when the dividend is at most q times the divisor.
LEMMA DivBound ==
  ASSUME NEW x \in Nat, NEW y \in Nat \ {0}, NEW q \in Nat, x <= q * y
  PROVE  x \div y \in 0 .. q
<1> DEFINE d == x \div y
<1>1. d \in Nat /\ d * y <= x
  BY DivMul
<1>2. CASE d > q
  <2> HIDE DEF d
  <2>1. (q + 1) * y <= d * y
    BY <1>1, <1>2, MulMono
  <2>2. (q + 1) * y = q * y + y
    OBVIOUS
  <2> QED BY <1>1, <2>1, <2>2
<1>3. CASE d <= q
  BY <1>1, <1>3
<1> QED BY <1>1, <1>2, <1>3

\* What a constant product swap pays is at most the reserve it is paid from.
LEMMA PayBound ==
  ASSUME NEW r \in Nat, NEW s \in Nat, NEW n \in Nat, s + n # 0
  PROVE  (r * n) \div (s + n) \in 0 .. r
<1>1. r * n \in Nat /\ s + n \in Nat \ {0}
  BY Z3
<1>2. r * n <= r * (s + n)
  <2>1. r * (s + n) = r * s + r * n /\ r * s \in Nat
    BY Z3
  <2> QED BY <1>1, <2>1
<1> QED BY <1>1, <1>2, DivBound

-----------------------------------------------------------------------------
(* The operators on reserves *)

\* The other side is the other one.
LEMMA OtherSide ==
  ASSUME NEW s \in Sides
  PROVE  Other(s) \in Sides /\ Other(s) # s
  BY DEF Other, Sides

\* The fee is at most what goes in, for the chain and for the tracker, whose
\* product amount * fee_bps wraps.
LEMMA FeeBound ==
  ASSUME NEW amount \in Nat
  PROVE  /\ amount - (amount * FeeBps) \div FeeDen \in 0 .. amount
         /\ NetIn(amount) \in 0 .. amount
         /\ amount * FeeBps \in Nat
<1>0. FeeDen \in Nat \ {0} /\ FeeBps \in Nat /\ FeeBps <= FeeDen /\ Mod \in Nat \ {0}
  BY PoolConstants
<1>1. FeeBps * amount <= FeeDen * amount /\ FeeBps * amount \in Nat
  BY <1>0, MulMono
<1>2. FeeBps * amount = amount * FeeBps /\ FeeDen * amount = amount * FeeDen
  BY <1>0
<1>3. (amount * FeeBps) \div FeeDen \in 0 .. amount
  BY <1>0, <1>1, <1>2, DivBound
<1>4. (amount * FeeBps) % Mod \in Nat
  BY <1>0, <1>1, <1>2
<1>5. ((amount * FeeBps) % Mod) \div FeeDen \in Nat
  BY <1>0, <1>4, DivMul
<1>6. NetIn(amount) \in 0 .. amount
  BY <1>5 DEF NetIn, SaturatingSub
<1> QED BY <1>1, <1>2, <1>3, <1>6

\* `as i64` yields an i64, and leaves a number that is one as it is.
LEMMA AsI64Range ==
  ASSUME NEW x \in Int
  PROVE  /\ AsI64(x) \in Int
         /\ -(Mod \div 2) <= AsI64(x) /\ AsI64(x) < Mod \div 2
         /\ 0 <= x /\ x < Mod \div 2 => AsI64(x) = x
         /\ -(Mod \div 2) <= x /\ x < 0 => AsI64(x) = x
<1>1. Mod \in Nat \ {0} /\ Mod = 2 * (Mod \div 2) /\ Mod \div 2 \in Nat
  BY PoolConstants
<1> DEFINE w == x % Mod
<1>2. w \in 0 .. Mod - 1
  BY <1>1
<1>3. AsI64(x) = IF w < Mod \div 2 THEN w ELSE w - Mod
  BY DEF AsI64
<1>4. 0 <= x /\ x < Mod => w = x
  BY <1>1
<1>5. -Mod <= x /\ x < 0 => w = x + Mod
  BY <1>1
<1> HIDE DEF w
<1> QED BY <1>1, <1>2, <1>3, <1>4, <1>5

\* The optimistic reserves after a delta are u64 values, whatever wrapped.
LEMMA DeltaType ==
  ASSUME TypeOK, NEW side \in Sides, NEW in \in Nat, NEW out \in Nat
  PROVE  ApplyShredDelta(side, in, out) \in [Sides -> U64]
<1> DEFINE base == IF opt["a"] > 0 THEN opt ELSE res
           delta == [s \in Sides |-> IF s = side THEN AsI64(in) ELSE AsI64(-AsI64(out))]
           sum(s) == AsI64(AsI64(base[s]) + delta[s])
<1>1. Mod \in Nat \ {0} /\ Mod = 2 * (Mod \div 2) /\ Mod \div 2 \in Nat
  BY PoolConstants
<1>2. \A s \in Sides : base[s] \in Int
  BY DEF TypeOK, U64
<1>3. \A s \in Sides : delta[s] \in Int
  <2>1. AsI64(in) \in Int /\ AsI64(out) \in Int
    BY AsI64Range
  <2>2. AsI64(-AsI64(out)) \in Int
    BY <2>1, AsI64Range
  <2> QED BY <2>1, <2>2
<1> HIDE DEF base, delta
<1>4. \A s \in Sides : sum(s) \in Int /\ sum(s) < Mod \div 2
  <2> SUFFICES ASSUME NEW s \in Sides PROVE sum(s) \in Int /\ sum(s) < Mod \div 2
    OBVIOUS
  <2>1. AsI64(base[s]) \in Int
    BY <1>2, AsI64Range
  <2>2. AsI64(base[s]) + delta[s] \in Int
    BY <1>3, <2>1
  <2> QED BY <2>2, AsI64Range
<1>5. ApplyShredDelta(side, in, out) = [s \in Sides |-> IF sum(s) > 0 THEN sum(s) ELSE 0]
  BY DEF ApplyShredDelta, base, delta
<1> HIDE DEF sum
<1> QED BY <1>1, <1>4, <1>5 DEF U64

\* A quote is a u64 value.
LEMMA QuoteType ==
  ASSUME NEW r \in [Sides -> U64], NEW side \in Sides, NEW amount \in Nat
  PROVE  Quote(r, side, amount) \in U64
<1>0. /\ FeeDen \in Nat \ {0} /\ FeeBps \in Nat /\ FeeBps <= FeeDen /\ Mod \in Nat \ {0}
      /\ r[side] \in Nat /\ r[Other(side)] \in U64 /\ r[Other(side)] \in Nat
  BY PoolConstants, OtherSide DEF U64
<1>1. CASE r["a"] = 0 \/ r["b"] = 0
  BY <1>0, <1>1 DEF Quote, U64
<1>2. CASE r["a"] # 0 /\ r["b"] # 0
  <2> DEFINE withFee == amount * (FeeDen - FeeBps)
             s == r[side] * FeeDen
  <2>1. withFee \in Nat /\ r[side] # 0
    <3>1. FeeDen - FeeBps \in Nat
      BY <1>0
    <3>2. withFee \in Nat
      BY <3>1, MulMono
    <3> QED BY <1>2, <3>2 DEF Sides
  <2>2. s \in Nat /\ s # 0
    BY <1>0, <2>1
  <2>3. Quote(r, side, amount) = (withFee * r[Other(side)]) \div (s + withFee)
    BY <1>2 DEF Quote
  <2> HIDE DEF withFee, s
  <2>4. withFee * r[Other(side)] = r[Other(side)] * withFee
    BY <1>0, <2>1
  <2>5. (r[Other(side)] * withFee) \div (s + withFee) \in 0 .. r[Other(side)]
    <3>1. s + withFee # 0
      BY <2>1, <2>2
    <3> QED BY <1>0, <2>1, <2>2, <3>1, PayBound
  <2> QED BY <1>0, <2>3, <2>4, <2>5 DEF U64
<1> QED BY <1>1, <1>2

\* Saturating sums and differences are u64 values.
LEMMA SaturatingType ==
  ASSUME NEW x \in U64, NEW y \in U64
  PROVE  SaturatingAdd(x, y) \in U64 /\ SaturatingSub(x, y) \in U64
  BY PoolConstants DEF SaturatingAdd, SaturatingSub, U64

\* A swap on chain pays out of the other vault, and never more than it holds.
LEMMA SwappedType ==
  ASSUME NEW r \in [Sides -> U64], NEW side \in Sides, NEW amount \in U64,
         r[side] + amount < Mod, r[side] > 0
  PROVE  Swapped(r, side, amount) \in [Sides -> U64]
<1> DEFINE net == amount - (amount * FeeBps) \div FeeDen
           out == (r[Other(side)] * net) \div (r[side] + net)
<1>0. /\ Mod \in Nat \ {0} /\ amount \in Nat
      /\ \A s \in Sides : r[s] \in U64 /\ r[s] \in Nat
  BY PoolConstants DEF U64
<1>1. net \in Nat
  BY <1>0, FeeBound
<1> HIDE DEF net
<1>2. out \in 0 .. r[Other(side)]
  <2>1. r[side] + net # 0 /\ r[side] \in Nat /\ r[Other(side)] \in Nat
    BY <1>0, <1>1, OtherSide
  <2> QED BY <1>1, <2>1, PayBound
<1> HIDE DEF out
<1>3. Swapped(r, side, amount) =
        [s \in Sides |-> IF s = side THEN r[s] + amount ELSE r[s] - out]
  BY DEF Swapped, out, net
<1>4. \A s \in Sides : s # side => s = Other(side)
  BY DEF Sides, Other
<1> QED BY <1>0, <1>2, <1>3, <1>4 DEF U64

\* The parts of TypeOK that change together.
WorldType == /\ chain \in [Sides -> U64] /\ final \in [Sides -> U64] /\ txs \in Nat
             /\ wire \subseteq [id : Nat, kind : {"swap", "transfer"}, side : Sides, amount : U64]

ReserveType == /\ cached \in BOOLEAN /\ fresh \in BOOLEAN
               /\ res \in [Sides -> U64] /\ opt \in [Sides -> U64]

ThreadType == /\ proc \in [pc : {"idle", "quote", "apply"}, amount : U64, out : U64]
              /\ dirty \subseteq Vaults /\ owed \subseteq Sides
              /\ refresh \in [pc : {"idle", "drain", "fetch", "apply"},
                              vaults : SUBSET Vaults, balances : [Sides -> U64]]

\* The parts are all of TypeOK.
LEMMA TypeParts ==
  /\ TypeOK <=> WorldType /\ ReserveType /\ ThreadType
  /\ TypeOK' <=> WorldType' /\ ReserveType' /\ ThreadType'
<1>1. TypeOK <=> WorldType /\ ReserveType /\ ThreadType
  BY Zenon DEF TypeOK, WorldType, ReserveType, ThreadType
<1>2. TypeOK' <=> WorldType' /\ ReserveType' /\ ThreadType'
  BY Zenon DEF TypeOK, WorldType, ReserveType, ThreadType
<1> QED BY <1>1, <1>2

\* Zero is a balance.
LEMMA EmptyValues ==
  /\ 0 \in U64 /\ Zero \in [Sides -> U64]
  /\ Idle \in [pc : {"idle", "quote", "apply"}, amount : U64, out : U64]
  /\ Rest \in [pc : {"idle", "drain", "fetch", "apply"},
               vaults : SUBSET Vaults, balances : [Sides -> U64]]
<1>1. 0 \in U64
  BY PoolConstants DEF U64
<1>2. Zero \in [Sides -> U64]
  BY <1>1 DEF Zero
<1> QED BY <1>1, <1>2 DEF Idle, Rest

\* Transactions that land or fail, and the node that catches up.
LEMMA ChainType ==
  ASSUME TypeOK, Chain
  PROVE  TypeOK'
<1>0. WorldType /\ ReserveType /\ ThreadType
  BY TypeParts
<1>1. UNCHANGED <<pool, threads>>
  BY DEF Chain, LandSwap, LandTransfer, FailSwap, Finalize
<1>2. ReserveType' /\ ThreadType'
  BY <1>0, <1>1 DEF pool, threads, ReserveType, ThreadType
<1>3. ASSUME NEW kind \in {"swap", "transfer"}, NEW side \in Sides, NEW amount \in U64,
             Sent(Tx(kind, side, amount))
      PROVE  /\ txs' \in Nat
             /\ wire' \subseteq [id : Nat, kind : {"swap", "transfer"}, side : Sides,
                                 amount : U64]
  BY <1>0, <1>3 DEF Sent, Tx, WorldType
<1>4. ASSUME NEW d \in Swaps, LandSwap(d[1], d[2])
      PROVE  WorldType'
  <2>1. d[1] \in Sides /\ d[2] \in U64
    BY PoolConstants
  <2>2. chain' \in [Sides -> U64]
    BY <1>0, <1>4, <2>1, SwappedType DEF LandSwap, WorldType
  <2> QED BY <1>0, <1>3, <1>4, <2>1, <2>2 DEF LandSwap, WorldType
<1>5. ASSUME NEW d \in Transfers, LandTransfer(d[1], d[2])
      PROVE  WorldType'
  <2>1. d[1] \in Sides /\ d[2] \in U64
    BY PoolConstants
  <2>2. chain[d[1]] + d[2] \in U64
    BY <1>0, <1>5, <2>1, PoolConstants DEF LandTransfer, WorldType, U64
  <2> QED BY <1>0, <1>3, <1>5, <2>1, <2>2 DEF LandTransfer, WorldType
<1>6. ASSUME NEW amount \in BadAmounts, FailSwap(amount)
      PROVE  WorldType'
  <2>1. amount \in U64 /\ "a" \in Sides
    BY PoolConstants DEF Sides
  <2> QED BY <1>0, <1>3, <1>6, <2>1 DEF FailSwap, WorldType
<1>7. ASSUME Finalize PROVE WorldType'
  BY <1>0, <1>7 DEF Finalize, WorldType
<1>8. WorldType'
  BY <1>4, <1>5, <1>6, <1>7 DEF Chain
<1> QED BY <1>2, <1>8, TypeParts

\* The tracker's update of the optimistic reserves.
LEMMA ShredSwapType ==
  ASSUME TypeOK, NEW amount \in U64, ShredSwap(amount)
  PROVE  /\ opt' \in [Sides -> U64] /\ fresh' \in BOOLEAN
         /\ dirty' \subseteq Vaults /\ owed' \subseteq Sides
<1> DEFINE eff == EffectiveReserves
           net == NetIn(amount)
           out == (eff[Other(FirstVault)] * net) \div (eff[FirstVault] + net)
<1>0. ReserveType /\ ThreadType /\ FirstVault \in Sides /\ FirstVault \in Vaults
  BY TypeParts DEF FirstVault, Sides, Vaults
<1>1. CASE cached /\ eff["a"] > 0 /\ eff["b"] > 0
  <2>1. /\ opt' = ApplyShredDelta(FirstVault, amount, out) /\ fresh' = TRUE
        /\ dirty' = dirty \cup {FirstVault} /\ owed' = owed \cup {FirstVault}
    BY <1>1 DEF ShredSwap
  <2>2. net \in Nat /\ amount \in Nat
    <3>1. amount \in Nat
      BY PoolConstants DEF U64
    <3> QED BY <3>1, FeeBound
  <2>3. eff[FirstVault] \in Nat /\ eff[Other(FirstVault)] \in Nat /\ eff[FirstVault] > 0
    BY <1>0, <1>1, OtherSide, PoolConstants DEF EffectiveReserves, ReserveType, U64, FirstVault
  <2> HIDE DEF eff, net
  <2>4. out \in Nat
    <3>1. eff[FirstVault] + net # 0
      BY <2>2, <2>3
    <3>2. out \in 0 .. eff[Other(FirstVault)]
      BY <2>2, <2>3, <3>1, PayBound
    <3> QED BY <2>3, <3>2
  <2> HIDE DEF out
  <2>5. opt' \in [Sides -> U64]
    BY <1>0, <2>1, <2>2, <2>4, DeltaType
  <2> QED BY <1>0, <2>1, <2>5 DEF ThreadType
<1>2. CASE ~(cached /\ eff["a"] > 0 /\ eff["b"] > 0)
  <2>1. UNCHANGED <<opt, fresh, dirty, owed>>
    BY <1>2 DEF ShredSwap
  <2> QED BY <1>0, <2>1 DEF ReserveType, ThreadType
<1> QED BY <1>1, <1>2

\* The thread of the signal processor.
LEMMA ProcessorType ==
  ASSUME TypeOK, SignalProcessor
  PROVE  TypeOK'
<1>0. WorldType /\ ReserveType /\ ThreadType
  BY TypeParts
<1>1. ASSUME NEW t \in wire, ProcessSwap(t)
      PROVE  TypeOK'
  <2>1. t.amount \in U64
    BY <1>0 DEF WorldType
  <2>2. /\ opt' \in [Sides -> U64] /\ fresh' \in BOOLEAN
        /\ dirty' \subseteq Vaults /\ owed' \subseteq Sides
    BY <1>1, <2>1, ShredSwapType DEF ProcessSwap
  <2>3. /\ proc' = [proc EXCEPT !.pc = "quote", !.amount = t.amount]
        /\ wire' = wire \ {t} /\ UNCHANGED <<chain, final, txs, cached, res, refresh>>
    BY <1>1 DEF ProcessSwap
  <2>4. WorldType' /\ ReserveType'
    BY <1>0, <2>2, <2>3 DEF WorldType, ReserveType
  <2>5. ThreadType'
    BY <1>0, <2>1, <2>2, <2>3 DEF ThreadType
  <2> QED BY <2>4, <2>5, TypeParts
<1>2. ASSUME NEW t \in wire, ProcessTransfer(t)
      PROVE  TypeOK'
  <2>1. t.amount \in U64 /\ t.side \in Sides
    BY <1>0 DEF WorldType
  <2>2. SaturatingAdd(res[t.side], t.amount) \in U64
    BY <1>0, <2>1, SaturatingType DEF ReserveType
  <2>3. res' \in [Sides -> U64]
    BY <1>0, <1>2, <2>1, <2>2 DEF ProcessTransfer, ReserveType
  <2>4. wire' = wire \ {t} /\ UNCHANGED <<chain, final, txs, cached, opt, fresh, threads>>
    BY <1>2 DEF ProcessTransfer
  <2> QED BY <1>0, <2>3, <2>4, TypeParts DEF WorldType, ReserveType, ThreadType, threads
<1>3. CASE QuoteSwap
  <2>1. EffectiveReserves \in [Sides -> U64] /\ proc.amount \in U64 /\ proc.amount \in Nat
        /\ "a" \in Sides
    BY <1>0, PoolConstants DEF EffectiveReserves, ReserveType, ThreadType, U64, Sides
  <2>2. Quote(EffectiveReserves, "a", proc.amount) \in U64
    BY <2>1, QuoteType
  <2>3. proc' \in [pc : {"idle", "quote", "apply"}, amount : U64, out : U64]
    BY <1>0, <1>3, <2>2, EmptyValues DEF QuoteSwap, ThreadType
  <2>4. UNCHANGED <<world, pool, dirty, refresh, owed>>
    BY <1>3 DEF QuoteSwap
  <2> QED BY <1>0, <2>3, <2>4, TypeParts DEF WorldType, ReserveType, ThreadType, world, pool
<1>4. CASE ApplySwapDelta
  <2>1. \A s \in Sides : /\ SaturatingAdd(res[s], proc.amount) \in U64
                         /\ SaturatingSub(res[s], proc.out) \in U64
    BY <1>0, SaturatingType DEF ReserveType, ThreadType
  <2>2. res' \in [Sides -> U64] /\ proc' = Idle
    BY <1>0, <1>4, <2>1 DEF ApplySwapDelta, ReserveType
  <2>3. UNCHANGED <<world, cached, opt, fresh, dirty, refresh, owed>>
    BY <1>4 DEF ApplySwapDelta
  <2> QED BY <1>0, <2>2, <2>3, EmptyValues, TypeParts
          DEF WorldType, ReserveType, ThreadType, world
<1>5. ASSUME NEW v \in Others, MarkOther(v)
      PROVE  TypeOK'
  BY <1>0, <1>5, TypeParts
     DEF MarkOther, WorldType, ReserveType, ThreadType, world, pool, Vaults
<1> QED BY <1>1, <1>2, <1>3, <1>4, <1>5 DEF SignalProcessor

\* The refresh of dirty vaults.
LEMMA RefreshType ==
  ASSUME TypeOK, DirtyVaultRefresh
  PROVE  TypeOK'
<1>0. WorldType /\ ReserveType /\ ThreadType
  BY TypeParts
<1>1. CASE Drain \/ DrainRemove \/ Fetch \/ FetchFails
  <2>1. UNCHANGED <<world, pool, proc>>
    BY <1>1 DEF Drain, DrainRemove, Fetch, FetchFails
  <2>2. refresh' \in [pc : {"idle", "drain", "fetch", "apply"},
                      vaults : SUBSET Vaults, balances : [Sides -> U64]]
    <3>1. CASE Drain
      BY <1>0, <3>1 DEF Drain, Iterated, ThreadType
    <3>2. CASE Fetch
      <4>1. [s \in Sides |-> IF s \in refresh.vaults THEN final[s] ELSE 0] \in [Sides -> U64]
        BY <1>0, EmptyValues DEF WorldType
      <4> QED BY <1>0, <3>2, <4>1 DEF Fetch, ThreadType
    <3> QED BY <1>0, <1>1, <3>1, <3>2, EmptyValues DEF DrainRemove, FetchFails, ThreadType
  <2>3. dirty' \subseteq Vaults /\ owed' \subseteq Sides
    BY <1>0, <1>1 DEF Drain, DrainRemove, Fetch, FetchFails, ThreadType
  <2> QED BY <1>0, <2>1, <2>2, <2>3, TypeParts
          DEF WorldType, ReserveType, ThreadType, world, pool
<1>2. ASSUME NEW v \in Vaults, ApplyVaultBalance(v)
      PROVE  TypeOK'
  <2>1. UNCHANGED <<world, cached, proc, owed, dirty>>
    BY <1>2 DEF ApplyVaultBalance, WriteBalance
  <2>2. (v \in Sides => refresh.balances[v] \in U64) /\ refresh.vaults \ {v} \in SUBSET Vaults
    BY <1>0 DEF ThreadType
  <2>3. refresh' \in [pc : {"idle", "drain", "fetch", "apply"},
                      vaults : SUBSET Vaults, balances : [Sides -> U64]]
    BY <1>0, <1>2, <2>2, EmptyValues DEF ApplyVaultBalance, WriteBalance, ThreadType
  <2>4. res' \in [Sides -> U64] /\ opt' \in [Sides -> U64] /\ fresh' \in BOOLEAN
    BY <1>0, <1>2, <2>2 DEF ApplyVaultBalance, WriteBalance, ReserveType
  <2> QED BY <1>0, <2>1, <2>3, <2>4, TypeParts DEF WorldType, ReserveType, ThreadType, world
<1> QED BY <1>1, <1>2 DEF DirtyVaultRefresh

\* Feeds, hydration, upserts and removals, and the clock.
LEMMA WritersType ==
  ASSUME TypeOK, Writers \/ GoStale
  PROVE  TypeOK'
<1>0. WorldType /\ ReserveType /\ ThreadType
  BY TypeParts
<1>1. /\ UNCHANGED <<threads, chain, final, wire>>
      /\ txs' \in Nat
  BY <1>0, PoolConstants
     DEF Writers, GoStale, UpdateReserveByVault, Hydrate, Upsert, Remove, world, WorldType
<1>2. ReserveType'
  <2>1. ASSUME NEW v \in Sides, UpdateReserveByVault(v) \/ Hydrate(v)
        PROVE  ReserveType'
    BY <1>0, <2>1 DEF UpdateReserveByVault, Hydrate, WorldType, ReserveType
  <2>2. ASSUME NEW r \in Estimates, Upsert(r)
        PROVE  ReserveType'
    BY <2>2, EmptyValues, PoolConstants DEF Upsert, ReserveType
  <2>3. CASE Remove
    BY <2>3, EmptyValues DEF Remove, ReserveType
  <2>4. CASE GoStale
    BY <1>0, <2>4 DEF GoStale, ReserveType
  <2> QED BY <2>1, <2>2, <2>3, <2>4 DEF Writers
<1> QED BY <1>0, <1>1, <1>2, TypeParts DEF WorldType, ThreadType, threads

\* Reserves, balances and quotes stay u64 values whatever lands on chain, wraps
\* in the tracker or arrives late, for every pool, fee and word size
\* (apply_shred_delta, quote_a_to_b, apply_swap_delta).
THEOREM PoolTypeCorrect == Spec => []TypeOK
<1>1. Init => TypeOK
  BY EmptyValues, PoolConstants, TypeParts DEF Init, WorldType, ReserveType, ThreadType
<1>2. TypeOK /\ [Next]_vars => TypeOK'
  <2> SUFFICES ASSUME TypeOK, [Next]_vars PROVE TypeOK'
    OBVIOUS
  <2>1. CASE UNCHANGED vars
    BY <2>1, TypeParts DEF vars, world, pool, threads, WorldType, ReserveType, ThreadType
  <2>2. CASE Next
    BY <2>2, ChainType, ProcessorType, RefreshType, WritersType DEF Next
  <2> QED BY <2>1, <2>2
<1> QED BY <1>1, <1>2, PTL DEF Spec

-----------------------------------------------------------------------------
(* The dirty set *)

\* drain_dirty_vaults: a mark is in the set, among what the drain collected, or in
\* the request, before and after every step of the writers that mark.
THEOREM MarksAreNotLost == Spec => []MarksReachTheFetch
<1>1. Init => MarksReachTheFetch
  BY DEF Init, MarksReachTheFetch
<1>2. TypeOK /\ MarksReachTheFetch /\ [Next]_vars => MarksReachTheFetch'
  <2> SUFFICES ASSUME TypeOK, MarksReachTheFetch, [Next]_vars
               PROVE  MarksReachTheFetch'
    OBVIOUS
  <2> USE DEF MarksReachTheFetch
  <2>1. refresh \in [pc : {"idle", "drain", "fetch", "apply"},
                     vaults : SUBSET Vaults, balances : [Sides -> U64]]
    BY TypeParts DEF ThreadType
  <2>2. CASE UNCHANGED <<dirty, refresh, owed>>
    BY <2>2
  <2>3. ASSUME NEW t \in wire, ProcessSwap(t)
        PROVE  MarksReachTheFetch'
    BY <2>3 DEF ProcessSwap, ShredSwap
  <2>4. CASE Drain
    BY <2>1, <2>4 DEF Drain, Iterated
  <2>10. ASSUME NEW v \in Others, MarkOther(v)
         PROVE  MarksReachTheFetch'
    BY <2>10 DEF MarkOther
  <2>5. CASE DrainRemove
    BY <2>1, <2>5 DEF DrainRemove
  <2>6. CASE Fetch
    BY <2>1, <2>6 DEF Fetch
  <2>7. CASE FetchFails
    BY <2>1, <2>7 DEF FetchFails, Rest
  <2>8. ASSUME NEW v \in Vaults, ApplyVaultBalance(v)
        PROVE  MarksReachTheFetch'
    BY <2>1, <2>8 DEF ApplyVaultBalance, WriteBalance, Rest
  <2>9. \/ UNCHANGED <<dirty, refresh, owed>>
        \/ \E t \in wire : ProcessSwap(t)
        \/ \E v \in Others : MarkOther(v)
        \/ Drain \/ DrainRemove \/ Fetch \/ FetchFails
        \/ \E v \in Vaults : ApplyVaultBalance(v)
    <3>1. CASE Chain
      BY <3>1 DEF Chain, LandSwap, LandTransfer, FailSwap, Finalize, threads
    <3>2. CASE SignalProcessor
      BY <3>2 DEF SignalProcessor, ProcessTransfer, QuoteSwap, ApplySwapDelta, threads
    <3>3. CASE DirtyVaultRefresh
      BY <3>3 DEF DirtyVaultRefresh
    <3>4. CASE Writers \/ GoStale
      BY <3>4 DEF Writers, GoStale, UpdateReserveByVault, Hydrate, Upsert, Remove, threads
    <3>5. CASE UNCHANGED vars
      BY <3>5 DEF vars, threads
    <3> QED BY <3>1, <3>2, <3>3, <3>4, <3>5 DEF Next
  <2> QED BY <2>2, <2>3, <2>4, <2>5, <2>6, <2>7, <2>8, <2>9, <2>10
<1> QED BY <1>1, <1>2, PoolTypeCorrect, PTL DEF Spec

-----------------------------------------------------------------------------
(* The constant product *)

\* A swap that pays the rounded-down constant product output for an input net
\* of a fee, and takes the whole input, does not lower the product.
LEMMA ProductKept ==
  ASSUME NEW a \in Nat \ {0}, NEW b \in Nat, NEW in \in Nat, NEW n \in 0 .. in,
         NEW out, out = (b * n) \div (a + n)
  PROVE  out \in 0 .. b /\ (a + in) * (b - out) >= a * b
<1>1. b * n \in Nat /\ a + n \in Nat \ {0}
  <2>1. n \in Nat
    OBVIOUS
  <2> QED BY <2>1, MulMono
<1>2. out \in 0 .. b
  BY <1>1, PayBound
<1>3. out * (a + n) <= b * n
  BY <1>1, DivMul
<1>4. (a + n) * (b - out) <= (a + in) * (b - out)
  <2>1. b - out \in Nat /\ a + n \in Nat /\ a + in \in Nat /\ a + n <= a + in
    BY <1>2
  <2> QED BY <2>1, MulMono
<1>5. (a + n) * (b - out) = a * b + b * n - out * (a + n)
  <2> DEFINE x == a + n
  <2>1. a \in Int /\ b \in Int /\ n \in Int /\ out \in Int /\ x \in Int
    BY <1>2
  <2>2. x * b = a * b + b * n
    BY <2>1
  <2> HIDE DEF x
  <2>3. x * (b - out) = x * b - out * x
    BY <2>1
  <2>4. x * (b - out) = a * b + b * n - out * x
    BY <2>1, <2>2, <2>3
  <2> QED BY <2>4 DEF x
<1>6. /\ a * b \in Int /\ b * n \in Int /\ out * (a + n) \in Int
      /\ (a + n) * (b - out) \in Int /\ (a + in) * (b - out) \in Int
  BY <1>2, Z3
<1> QED BY <1>2, <1>3, <1>4, <1>5, <1>6

\* The tracker's arithmetic on i64 values is exact when nothing wraps.
LEMMA DeltaExact ==
  ASSUME TypeOK, NEW in \in Nat, NEW out \in Nat,
         opt["a"] > 0, opt["a"] + in < Mod \div 2,
         out <= opt["b"], opt["b"] < Mod \div 2
  PROVE  /\ ApplyShredDelta("a", in, out)["a"] = opt["a"] + in
         /\ ApplyShredDelta("a", in, out)["b"] = opt["b"] - out
<1>1. opt["a"] \in Nat /\ opt["b"] \in Nat /\ Mod \in Nat \ {0} /\ Mod \div 2 \in Nat
  BY PoolConstants DEF TypeOK, Sides, U64
<1>2. /\ AsI64(opt["a"]) = opt["a"] /\ AsI64(in) = in
      /\ AsI64(opt["a"] + in) = opt["a"] + in
  BY <1>1, AsI64Range
<1>3. /\ AsI64(opt["b"]) = opt["b"] /\ AsI64(out) = out
      /\ AsI64(opt["b"] - out) = opt["b"] - out
  BY <1>1, AsI64Range
<1>4. AsI64(-out) = -out
  <2>1. -out \in Int /\ -(Mod \div 2) <= -out
    BY <1>1
  <2>2. CASE out = 0
    <3>1. -out \in Int /\ 0 <= -out /\ -out < Mod \div 2
      BY <1>1, <2>2
    <3> QED BY <3>1, AsI64Range
  <2>3. CASE out # 0
    BY <1>1, <2>1, <2>3, AsI64Range
  <2> QED BY <2>2, <2>3
<1>5. opt["b"] + (-out) = opt["b"] - out
  BY <1>1
<1>6. \A s \in Sides : ApplyShredDelta("a", in, out)[s] =
        LET sum == AsI64(AsI64(opt[s]) + IF s = "a" THEN AsI64(in) ELSE AsI64(-AsI64(out)))
        IN  IF sum > 0 THEN sum ELSE 0
  BY DEF ApplyShredDelta
<1>7. ApplyShredDelta("a", in, out)["a"] = IF opt["a"] + in > 0 THEN opt["a"] + in ELSE 0
  BY <1>2, <1>6 DEF Sides
<1>8. ApplyShredDelta("a", in, out)["b"] = IF opt["b"] - out > 0 THEN opt["b"] - out ELSE 0
  BY <1>3, <1>4, <1>5, <1>6 DEF Sides
<1> QED BY <1>1, <1>7, <1>8

\* The simulation of a swap never promises more out of a pool than the pool
\* pays: what it does to fresh optimistic reserves keeps their product, for
\* every fee and every amount that wraps nowhere (process_transaction,
\* apply_shred_delta).
THEOREM SwapsKeepTheProduct == Spec => SwapKeepsProduct
<1> DEFINE Simulates == /\ proc.pc = "idle" /\ proc'.pc = "quote"
                        /\ cached /\ fresh /\ opt["a"] > 0 /\ opt["b"] > 0
                        /\ proc'.amount * FeeBps < Mod
                        /\ opt["a"] + proc'.amount < Mod \div 2 /\ opt["b"] < Mod \div 2
           Kept == opt'["a"] * opt'["b"] >= opt["a"] * opt["b"]
<1>1. TypeOK /\ Next /\ Simulates => Kept
  <2> SUFFICES ASSUME TypeOK, NEW t \in wire, ProcessSwap(t), Simulates
               PROVE  Kept
    <3>1. Simulates /\ Next => \E t \in wire : ProcessSwap(t)
      <4>1. Simulates => ~(proc' = proc) /\ ~(proc' = Idle) /\ proc.pc # "quote"
        BY DEF Idle
      <4>2. Next /\ ~(proc' = proc) /\ ~(proc' = Idle) /\ proc.pc # "quote"
              => \E t \in wire : ProcessSwap(t)
        BY DEF Next, Chain, LandSwap, LandTransfer, FailSwap, Finalize, SignalProcessor,
               MarkOther, ProcessTransfer, QuoteSwap, ApplySwapDelta, DirtyVaultRefresh, Drain,
               DrainRemove, Fetch, FetchFails, ApplyVaultBalance, WriteBalance, Writers,
               UpdateReserveByVault, Hydrate, Upsert, Remove, GoStale, threads
      <4> QED BY <4>1, <4>2
    <3> QED BY <3>1
  <2>0. /\ proc'.amount = t.amount
        /\ cached /\ fresh /\ opt["a"] > 0 /\ opt["b"] > 0
        /\ t.amount * FeeBps < Mod
        /\ opt["a"] + t.amount < Mod \div 2 /\ opt["b"] < Mod \div 2
    BY TypeParts DEF ProcessSwap, ThreadType
  <2> DEFINE in == t.amount
             n == NetIn(in)
             out == (opt["b"] * n) \div (opt["a"] + n)
  <2>1. /\ in \in Nat /\ opt["a"] \in Nat \ {0} /\ opt["b"] \in Nat
    BY <2>0, PoolConstants DEF TypeOK, Sides, U64
  <2>2. n \in 0 .. in
    BY <2>1, FeeBound
  <2>3. opt' = ApplyShredDelta("a", in, out)
    BY <2>0 DEF ProcessSwap, ShredSwap, EffectiveReserves, FirstVault, Other
  <2> HIDE DEF n
  <2>4. out \in 0 .. opt["b"] /\ (opt["a"] + in) * (opt["b"] - out) >= opt["a"] * opt["b"]
    BY <2>1, <2>2, ProductKept
  <2> HIDE DEF out
  <2>5. opt'["a"] = opt["a"] + in /\ opt'["b"] = opt["b"] - out
    BY <2>0, <2>1, <2>3, <2>4, DeltaExact
  <2> QED BY <2>4, <2>5
<1>2. TypeOK /\ [Next]_vars
        => [ LET in == proc'.amount
             IN  /\ proc.pc = "idle" /\ proc'.pc = "quote"
                 /\ cached /\ fresh /\ opt["a"] > 0 /\ opt["b"] > 0
                 /\ in * FeeBps < Mod
                 /\ opt["a"] + in < Mod \div 2 /\ opt["b"] < Mod \div 2
                 => opt'["a"] * opt'["b"] >= opt["a"] * opt["b"] ]_vars
  BY <1>1
<1> QED BY <1>2, PoolTypeCorrect, PTL DEF Spec, SwapKeepsProduct
=============================================================================
