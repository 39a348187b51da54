----------------------------- MODULE VenueQuotes -----------------------------
(***************************************************************************)
(* The quote engines of the venues: the walk over a Whirlpool's tick       *)
(* arrays, the walk over a DLMM pool's bins, the stable-swap iteration and *)
(* the constant-product formula, with the decoders of their accounts       *)
(* (market-engine/src/orca.rs, meteora.rs, saber.rs, raydium_cpmm.rs,      *)
(* fluxbeam.rs, and derive_orca_tick_arrays of executor/src/tx_builder.rs).*)
(*                                                                         *)
(* A job is one pool and one amount; one step is one iteration of a walk.  *)
(* After the quote the output is quoted back through the same pool, which  *)
(* is what two scanners that disagree on a direction would do.             *)
(*                                                                         *)
(* Orca's floating point is linearised: the price is a position in half    *)
(* ticks, tick t lies at 2t, and moving by d half ticks at liquidity l     *)
(* takes and gives d*l.  The fee is taken off the input beforehand, which  *)
(* is the same.  Meteora's 64-bit fixed point is a price in units of       *)
(* 1/Scale; Saber's u128 arithmetic is checked against MaxU.               *)
(***************************************************************************)
EXTENDS Integers, Sequences, FiniteSets, SequencesExt, FiniteSetsExt

CONSTANTS
    Jobs,          \* the quotes to try, a set of them for each venue
    ArraySize,     \* ORCA_TICK_ARRAY_SIZE 88, MAX_BIN_ARRAY_SIZE 70
    MaxSteps,      \* the bound of a walk, 512 and 4096
    Scale,         \* 2^64 of a DLMM price
    FeePrecision, MaxFeeRate,
    PerSide,       \* MAX_CACHED_BIN_ARRAYS_PER_SIDE
    BitmapSize,    \* BIN_ARRAY_BITMAP_SIZE
    MaxU,          \* u128::MAX
    SaberRounding  \* units a stable-swap quote may gain by rounding

VARIABLES
    job,     \* [venue, amount, down, account, ...]: down is a_to_b, swap_for_y
    phase,   \* "account", "there", "back", "returned" or "refused"
    walk     \* the local variables of quote_exact_in

vars == <<job, phase, walk>>

Down == IF phase = "back" THEN ~job.down ELSE job.down

-----------------------------------------------------------------------------
(* Accounts.                                                               *)

\* decode_lb_pair, decode_bin_array, decode_tick_array, decode_cpmm_pool,
\* decode_fluxbeam_pool and decode_saber_pool: long enough, of the right kind,
\* owned by the pool it is read for, active, and with no default key in it.
\* Only the tick and the bin arrays name their owner; only CPMM, FluxBeam and
\* Saber have a status; FluxBeam takes any status but 0.
Decodes(venue, account) ==
    /\ account.long
    /\ venue \in {"meteora", "orca"} => account.own
    /\ venue \in {"cpmm", "saber"} => account.status = 1
    /\ venue = "fluxbeam" => account.status # 0
    /\ venue \in {"cpmm", "fluxbeam", "saber"} => account.keys

\* Integer division that rounds towards zero, as in Rust.
Truncated(a, b) == IF a >= 0 THEN a \div b ELSE -((-a) \div b)

Abs(n) == IF n < 0 THEN -n ELSE n

CeilDiv(a, b) == (a + b - 1) \div b

-----------------------------------------------------------------------------
(* Orca: the walk over tick arrays.  Spacing is 1.                         *)
\* tick_array_start_index: div_euclid rounds down.
StartIndex(tick) == (tick \div ArraySize) * ArraySize

Initialized == DOMAIN job.ticks
\* next_initialized_tick: strictly beyond the current tick, in both directions.
NextInitialized(tick, down) ==
    LET beyond == {t \in Initialized : IF down THEN t < tick ELSE t > tick}
    IN  IF beyond = {} THEN {} ELSE {IF down THEN Max(beyond) ELSE Min(beyond)}

\* Mutant: the edge of the array is taken before a tick on it.
EdgeFirst(tick, down) ==
    LET edge == IF down THEN StartIndex(tick) ELSE StartIndex(tick) + ArraySize
        near == {t \in NextInitialized(tick, down) : IF down THEN t > edge ELSE t < edge}
    IN  IF near # {} THEN [at |-> Max(near), boundary |-> FALSE]
        ELSE [at |-> edge, boundary |-> TRUE]

\* next_event: the next initialized tick unless the edge of the array is nearer.
NextEvent(tick, down) ==
    LET edge == IF down THEN StartIndex(tick) ELSE StartIndex(tick) + ArraySize
        near == {t \in NextInitialized(tick, down) : IF down THEN t >= edge ELSE t <= edge}
    IN  IF near # {} THEN [at |-> Max(near), boundary |-> FALSE]
        ELSE [at |-> edge, boundary |-> TRUE]

\* effective_input_to_reach_target; zero when the target is not ahead.
InputToReach(target, down) ==
    Max({0, (IF down THEN walk.price - 2 * target ELSE 2 * target - walk.price) * walk.liquidity})

\* The arrays seen so far, with that of the tick appended when it is new.
Traversed(arrays, tick) ==
    IF arrays # <<>> /\ Last(arrays) = StartIndex(tick) THEN arrays
    ELSE Append(arrays, StartIndex(tick))

OrcaStart(amount) ==
    [tick |-> job.price \div 2, price |-> job.price, liquidity |-> job.liquidity,
     left |-> amount, out |-> 0, arrays |-> <<StartIndex(job.price \div 2)>>, steps |-> 0]

OrcaEnds == walk.left = 0 \/ walk.liquidity <= 0 \/ walk.steps = MaxSteps

\* The walk reaches the next tick or edge and goes on from there; a tick
\* changes the liquidity by its net.
OrcaCross ==
    /\ ~OrcaEnds
    /\ LET event == NextEvent(walk.tick, Down)
           need == InputToReach(event.at, Down)
           net == IF event.boundary THEN 0 ELSE job.ticks[event.at]
           tick == IF Down THEN event.at - 1 ELSE event.at
           seen == Traversed(walk.arrays, walk.tick)
       IN  /\ need > 0 /\ walk.left >= need
           /\ walk' = [walk EXCEPT !.left = @ - need, !.out = @ + need, !.price = 2 * event.at,
                                   !.liquidity = Max({0, IF Down THEN @ - net ELSE @ + net}),
                                   !.tick = tick, !.steps = @ + 1,
                                   !.arrays = IF event.boundary THEN Traversed(seen, tick) ELSE seen]
    /\ UNCHANGED <<job, phase>>

\* The rest of the input stays within the segment: partial_amount_out.  Also
\* when the price already lies on the target, whatever is left.
OrcaPartial ==
    /\ ~OrcaEnds
    /\ LET need == InputToReach(NextEvent(walk.tick, Down).at, Down)
       IN  need = 0 \/ walk.left < need
    /\ walk' = [walk EXCEPT !.out = @ + walk.left, !.left = 0,
                            !.arrays = Traversed(@, walk.tick)]
    /\ UNCHANGED <<job, phase>>

\* derive_orca_tick_arrays: the traversed arrays without repetitions, extended
\* to five in the direction of the swap.
TickArrays(arrays, down) ==
    LET seen == FoldLeft(LAMBDA s, a : IF Contains(s, a) THEN s ELSE Append(s, a), <<>>, arrays)
        step == IF down THEN -ArraySize ELSE ArraySize
        missing == Max({0, 5 - Len(seen)})
    IN  SubSeq(seen \o [i \in 1..missing |-> Last(seen) + i * step], 1, 5)

-----------------------------------------------------------------------------
(* Meteora: the walk over bins.                                            *)

BinArrayIndex(bin) ==
    LET idx == Truncated(bin, ArraySize)
    IN  IF bin < 0 /\ bin - idx * ArraySize # 0 THEN idx - 1 ELSE idx

LowerBin(index) == index * ArraySize
UpperBin(index) == LowerBin(index) + ArraySize - 1

\* candidate_bin_array_indices: the array of the active bin and, going outwards,
\* the nearest set ones of the bitmap, PerSide of them on each side.
CandidateArrays(active, bitmap) ==
    LET here == BinArrayIndex(active)
        set == {i \in (-BitmapSize)..(BitmapSize - 1) : i \in bitmap}
        Nearest(side) == {i \in side : Cardinality({j \in side : Abs(j - here) < Abs(i - here)}) < PerSide}
    IN  {here} \cup Nearest({i \in set : i < here}) \cup Nearest({i \in set : i > here})

\* The arrays in the cache: those of the candidates that exist.
Cached == CandidateArrays(job.active, DOMAIN job.arrays) \cap DOMAIN job.arrays

\* get_bin: the bins of an array are counted from its lower end.
HasBin(bin) == BinArrayIndex(bin) \in Cached
Bin(bin) == job.arrays[BinArrayIndex(bin)][bin - LowerBin(BinArrayIndex(bin)) + 1]
\* next_cached_bin_array_index.
NextArray(index, down) ==
    {i \in Cached : IF down THEN i < index /\ \A j \in Cached : j < index => j <= i
                    ELSE i > index /\ \A j \in Cached : j > index => i <= j}

\* get_base_fee, get_variable_fee and total_fee, a share of FeePrecision.
TotalFee ==
    LET f == job.fee
        variable == IF f.control = 0 THEN 0 ELSE CeilDiv(f.control * (f.volatility * f.step) ^ 2, 100)
    IN  Min({f.base * f.step + variable, MaxFeeRate})

\* mul_shr_u64 and shl_div_u64: an amount times, or over, the price.
Times(x, price, up) == IF up THEN CeilDiv(x * price, Scale) ELSE (x * price) \div Scale
Over(x, price, up) == IF up THEN CeilDiv(x * Scale, price) ELSE (x * Scale) \div price
\* swap_exact_in_quote_at_bin: [in, out], zero where the bin has nothing to pay.
AtBin(bin, left, down) ==
    LET pays == IF down THEN bin.y ELSE bin.x
        need == IF down THEN Over(bin.y, bin.price, TRUE) ELSE Times(bin.x, bin.price, TRUE)
        most == need + CeilDiv(need * TotalFee, Max({1, FeePrecision - TotalFee}))
        net == Max({0, left - CeilDiv(left * TotalFee, FeePrecision)})
        out == IF down THEN Times(net, bin.price, FALSE) ELSE Over(net, bin.price, FALSE)
    IN  IF pays = 0 \/ (down /\ bin.price = 0) THEN [in |-> 0, out |-> 0]
        ELSE IF left > most THEN [in |-> most, out |-> pays]
        ELSE [in |-> left, out |-> Min({out, pays})]

MeteoraStart(amount) == [bin |-> job.active, left |-> amount, out |-> 0, used |-> {}, steps |-> 0]

Outwards == IF Down THEN -1 ELSE 1

MeteoraEnds ==
    \/ walk.left = 0 \/ walk.steps = MaxSteps
    \/ ~HasBin(walk.bin) /\ NextArray(BinArrayIndex(walk.bin), Down) = {}

\* The bin is in no cached array: on to the near end of the next one.
JumpToArray ==
    /\ ~MeteoraEnds /\ ~HasBin(walk.bin)
    /\ \E next \in NextArray(BinArrayIndex(walk.bin), Down) :
        walk' = [walk EXCEPT !.bin = IF Down THEN UpperBin(next) ELSE LowerBin(next),
                             !.steps = @ + 1]
    /\ UNCHANGED <<job, phase>>

\* One bin: swapped into as far as it goes, or passed over.
TakeBin ==
    /\ ~MeteoraEnds /\ HasBin(walk.bin)
    /\ LET q == AtBin(Bin(walk.bin), walk.left, Down)
           some == q.in > 0 /\ q.out > 0
       IN  walk' = IF some
                   THEN [walk EXCEPT !.left = @ - q.in, !.out = @ + q.out, !.bin = @ + Outwards,
                                     !.used = @ \cup {walk.bin}, !.steps = @ + 1]
                   ELSE [walk EXCEPT !.bin = @ + Outwards, !.steps = @ + 1]
    /\ UNCHANGED <<job, phase>>

-----------------------------------------------------------------------------
(* Saber and the constant product.                                         *)

\* checked_mul(..).unwrap_or(dflt).
Mul(a, b, dflt) == IF b # 0 /\ a > MaxU \div b THEN dflt ELSE a * b

\* compute_d: Newton's iteration from the sum of the reserves, 32 times or
\* until it moves by at most one.
ComputeD(x, y, amp) ==
    LET ann == 4 * amp
        Next(d) ==
            LET p == Mul(Mul(d, d, MaxU) \div (2 * x), d, MaxU) \div (2 * y)
                num == Mul(Mul(ann, x + y, 0) + Mul(p, 2, 0), d, 0)
                den == Mul(ann - 1, d, 0) + Mul(p, 3, 0)
            IN  IF den = 0 THEN 0 ELSE num \div den
    IN  FoldLeft(LAMBDA s, i :
                    IF s.done THEN s
                    ELSE LET d == Next(s.v) IN [v |-> d, done |-> Abs(d - s.v) <= 1 \/ d = 0],
                 [v |-> x + y, done |-> FALSE], [i \in 1..32 |-> i]).v

\* compute_y: the other reserve at the same invariant.
ComputeY(x, d, amp) ==
    LET ann == 4 * amp
        c == Mul(Mul(d, d, MaxU) \div (2 * x), d, MaxU) \div (2 * ann)
        b == x + d \div ann
        Next(y) ==
            LET den == Max({0, 2 * y + b - d})
            IN  IF den = 0 THEN 0 ELSE (Mul(y, y, MaxU) + c) \div den
    IN  FoldLeft(LAMBDA s, i :
                    IF s.done THEN s
                    ELSE LET y == Next(s.v) IN [v |-> y, done |-> Abs(y - s.v) <= 1 \/ y = 0],
                 [v |-> d, done |-> FALSE], [i \in 1..32 |-> i]).v

\* quote_saber_stable: zero when the iteration fails.
SaberQuote(in, out, amount, amp, num, den) ==
    IF in = 0 \/ out = 0 \/ amount = 0 \/ amp = 0 \/ den = 0 THEN 0
    ELSE LET d == ComputeD(in, out, amp)
             gross == Max({0, out - ComputeY(in + amount, d, amp)})
         IN  IF d = 0 THEN 0 ELSE gross - (gross * num) \div den
\* quote_cpmm and quote_fluxbeam.
ConstantProduct(in, out, amount, fee) ==
    IF in = 0 \/ out = 0 \/ amount = 0 \/ fee >= FeePrecision THEN 0
    ELSE LET net == amount * (FeePrecision - fee)
         IN  (net * out) \div (in * FeePrecision + net)

-----------------------------------------------------------------------------
(* The jobs.                                                               *)

Curves == {"saber", "cpmm", "fluxbeam"}

CurveQuote(amount) ==
    LET in == IF Down THEN job.x ELSE job.y
        out == IF Down THEN job.y ELSE job.x
    IN  IF job.venue = "saber" THEN SaberQuote(in, out, amount, job.amp, job.fee, FeePrecision)
        ELSE ConstantProduct(in, out, amount, job.fee)

Start(amount) ==
    CASE job.venue = "orca" -> OrcaStart(amount)
      [] job.venue = "meteora" -> MeteoraStart(amount)
      [] OTHER -> [left |-> amount, out |-> 0]

Init ==
    /\ \E quotes \in Jobs : job \in quotes
    /\ phase = "account"
    /\ walk = [left |-> 0, out |-> 0]

\* The account is decoded, or the pool is not quoted at all.  quote_exact_in
\* returns zero at once for a zero amount, no liquidity and no arrays.
Decode ==
    /\ phase = "account"
    /\ phase' = IF Decodes(job.venue, job.account) /\ job.amount > 0 THEN "there" ELSE "refused"
    /\ walk' = IF phase' = "there" THEN Start(job.amount) ELSE walk
    /\ UNCHANGED job

CurveStep ==
    /\ job.venue \in Curves
    /\ phase \in {"there", "back"} /\ walk.left > 0
    /\ walk' = [left |-> 0, out |-> CurveQuote(walk.left)]
    /\ UNCHANGED <<job, phase>>

WalkStep ==
    /\ phase \in {"there", "back"}
    /\ \/ job.venue = "orca" /\ (OrcaCross \/ OrcaPartial)
       \/ job.venue = "meteora" /\ (JumpToArray \/ TakeBin)

Ended ==
    /\ phase \in {"there", "back"}
    /\ CASE job.venue = "orca" -> OrcaEnds
         [] job.venue = "meteora" -> MeteoraEnds
         [] OTHER -> walk.left = 0

\* The output is quoted back through the same, unchanged pool.
Return ==
    /\ Ended /\ phase = "there"
    /\ phase' = IF walk.out = 0 THEN "returned" ELSE "back"
    /\ walk' = IF walk.out = 0 THEN walk ELSE Start(walk.out)
    /\ UNCHANGED job

Finish ==
    /\ Ended /\ phase = "back"
    /\ phase' = "returned"
    /\ UNCHANGED <<job, walk>>

Next == Decode \/ CurveStep \/ WalkStep \/ Return \/ Finish

Spec == Init /\ [][Next]_vars

-----------------------------------------------------------------------------

TypeOK ==
    /\ phase \in {"account", "there", "back", "returned", "refused"}
    /\ walk.left \in Nat /\ walk.out \in Nat
    /\ phase = "refused" => walk.out = 0

\* Quoting the output of a pool back through the pool never returns more than
\* went in: a quote that did would be a route through one pool that pays.  The
\* stable-swap iteration stops within one unit of the root and its quote, unlike
\* the program's, is not rounded down, so it may gain the units of its rounding.
NoFreeRoundTrip ==
    (phase = "returned" /\ job.venue # "orca") =>
        walk.out <= job.amount + (IF job.venue = "saber" THEN SaberRounding ELSE 0)

\* The liquidity a Whirlpool walk quotes with is that of the position it has
\* reached: the start's, plus the nets of the ticks crossed on the way.  Going
\* down, the search is strictly below the current tick, so this needs that the
\* walk never stands on an initialized one: neither at its start, nor just below
\* another initialized tick or the edge of an array.
Crossed ==
    {t \in Initialized : IF Down THEN walk.price <= 2 * t /\ 2 * t < job.price
                         ELSE job.price < 2 * t /\ 2 * t <= walk.price}

SparseDown ==
    /\ job.price \div 2 \notin Initialized
    /\ \A t \in Initialized : t + 1 \notin Initialized /\ (t + 1) % ArraySize # 0

LiquidityOfThePosition ==
    (phase \in {"there", "back"} /\ job.venue = "orca" /\ (Down => SparseDown)) =>
        LET nets == MapThenSumSet(LAMBDA t : job.ticks[t], Crossed)
        IN  walk.liquidity = job.liquidity + (IF Down THEN -nets ELSE nets)

\* The five tick arrays of the swap instruction form the contiguous sequence
\* the Whirlpool program asks for (tx_builder.rs:1078), whatever the walk met.
ArraysContiguous ==
    (phase \in {"there", "back"} /\ job.venue = "orca") =>
        LET five == TickArrays(walk.arrays, Down)
        IN  \A i \in 2..5 : five[i] - five[i - 1] = (IF Down THEN -ArraySize ELSE ArraySize)

\* A DLMM walk that stops with input left has met every cached bin on its way:
\* none of those it did not use could take any of the rest.
BinsExhausted ==
    (Ended /\ job.venue = "meteora" /\ walk.left > 0 /\ walk.steps < MaxSteps) =>
        \A i \in Cached : \A bin \in LowerBin(i)..UpperBin(i) :
            (bin \notin walk.used /\ (IF Down THEN bin <= job.active ELSE bin >= job.active)) =>
                AtBin(job.arrays[i][bin - LowerBin(i) + 1], walk.left, Down).out = 0
=============================================================================
