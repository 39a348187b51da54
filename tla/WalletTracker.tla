--------------------------- MODULE WalletTracker ---------------------------
(***************************************************************************)
(* The wallet tracker (wallet_tracker.rs): a ring of swaps per wallet, the *)
(* category it earns and the patterns found in the ring.  The processor's  *)
(* thread calls observe_swap; time passes in between.  A swap is [buy,     *)
(* token, slot, at, large]: large is whether its impact is above a         *)
(* whale's.  The alerts of a category and of a confident pattern go to a   *)
(* channel whose consumer ignores them, and are left out.                  *)
(***************************************************************************)
EXTENDS Integers, Sequences, SequencesExt, FiniteSetsExt

CONSTANTS
    Wallets, Tokens,
    Slots,          \* the slots of the swaps, in no order
    HistorySize,    \* WALLET_HISTORY_SIZE (100)
    MinForPatterns, \* MIN_SWAPS_FOR_PATTERNS (3)
    MinForCategory, \* SMART_MONEY_MIN_SWAPS (10)
    BotSwaps,       \* swaps within the hour that make a bot (20)
    FlipSlots,      \* FAST_FLIP_SLOTS (10)
    MinBuys,        \* ACCUMULATION_MIN_BUYS (3)
    MinRotation,    \* trades of a pair that make a rotation (5)
    MaxWallets,     \* MAX_TRACKED_WALLETS (50,000)
    Minute, FiveMinutes, Hour,  \* ages, in ticks
    MaxTime,        \* bound: ticks
    MaxSwaps        \* bound: swaps observed of the wallets tracked

VARIABLES
    wallets,    \* wallet -> its state, for those tracked
    emitted,    \* recent_patterns: pattern key -> tick
    now

trackerVars == <<wallets, emitted, now>>

Fresh == [swaps |-> <<>>, total |-> 0, buys |-> 0, sells |-> 0, category |-> "unknown",
          seen |-> 0]

Age(t) == now - t

\* push_swap: the oldest swap leaves a full ring.
PushSwap(w, s) ==
    [w EXCEPT !.swaps = Append(IF Len(@) >= HistorySize THEN Tail(@) ELSE @, s),
              !.total = @ + 1,
              !.buys = IF s.buy THEN @ + 1 ELSE @,
              !.sells = IF s.buy THEN @ ELSE @ + 1,
              !.seen = s.at]

\* Mutant: matched pairs among the sells.
WinPercentOfSells(w) ==
    LET matched == IF w.sells < w.buys THEN w.sells ELSE w.buys
    IN IF w.sells = 0 THEN 0 ELSE (100 * matched) \div w.sells

\* win_rate, in percent: the matched pairs of a buy and a sell among all swaps.
WinPercent(w) ==
    LET matched == IF w.sells < w.buys THEN w.sells ELSE w.buys
    IN IF w.total = 0 THEN 0 ELSE (100 * matched) \div w.total

\* classify: a category is only ever replaced by another one.
Classified(w) ==
    LET recent == SelectSeq(w.swaps, LAMBDA s : Age(s.at) < Hour)
        large == \E i \in DOMAIN w.swaps : w.swaps[i].large
    IN IF w.total < MinForCategory THEN w.category
       ELSE IF Len(recent) >= BotSwaps THEN "bot"
       ELSE IF large THEN "whale"
       ELSE IF WinPercent(w) >= 60 THEN "smart_money"
       ELSE w.category

-----------------------------------------------------------------------------
(* Patterns of the latest swap s of a wallet in state w.                    *)

\* The buys of the ring, before the latest swap, that s may be flipping: slots
\* are subtracted without going below zero.
FlippedBuys(w, s) ==
    {i \in 1..(Len(w.swaps) - 1) :
       /\ ~s.buy /\ w.swaps[i].buy /\ w.swaps[i].token = s.token
       /\ s.slot - w.swaps[i].slot <= FlipSlots}

\* The message subtracts the slots once more, where a swap of an earlier slot
\* than its buy wraps around.
FastFlip(w, s) == IF FlippedBuys(w, s) = {} THEN {} ELSE {<<"fast_flip", s.token>>}

SameBuys(w, s) ==
    SelectSeq(w.swaps, LAMBDA x : x.buy /\ x.token = s.token /\ Age(x.at) < FiveMinutes)

Accumulation(w, s) ==
    IF ~s.buy \/ Len(SameBuys(w, s)) < MinBuys THEN {} ELSE {<<"whale_accumulation", s.token>>}

\* Five trades of the pair, in either direction.
Rotation(w, s) ==
    IF Len(SelectSeq(w.swaps, LAMBDA x : x.token = s.token)) < MinRotation THEN {}
    ELSE {<<"token_rotation", s.token>>}

\* Most trades on one venue.  The key it asks for is never written: what is
\* emitted is held back by emit_pattern alone.
DexPreference(w) == IF w.total < MinForCategory THEN {} ELSE {<<"dex_preference", "any">>}

Patterns(w, s) ==
    IF w.total < MinForPatterns THEN {}
    ELSE FastFlip(w, s) \union Accumulation(w, s) \union Rotation(w, s) \union DexPreference(w)

\* emit_pattern: held back when the same one went out within a minute.
HeldBack(k) == k \in DOMAIN emitted /\ Age(emitted[k]) < Minute

\* What goes out of the patterns, and the time it did.
Emitted(who, found) ==
    LET out == {k \in {<<who, p>> : p \in found} : ~HeldBack(k)}
    IN [k \in DOMAIN emitted \union out |-> IF k \in out THEN now ELSE emitted[k]]

-----------------------------------------------------------------------------
\* evict_stale_wallets: above the limit, wallets idle for an hour go.
Evicted(ws) ==
    IF Cardinality(DOMAIN ws) <= MaxWallets THEN ws
    ELSE [x \in {y \in DOMAIN ws : Age(ws[y].seen) < Hour} |-> ws[x]]

StateOf(who) == IF who \in DOMAIN wallets THEN wallets[who] ELSE Fresh

Observed == MapThenSumSet(LAMBDA x : wallets[x].total, DOMAIN wallets)

ObserveSwap(who) ==
    /\ Observed < MaxSwaps
    /\ \E s \in [buy : BOOLEAN, token : Tokens, slot : Slots, at : {now}, large : BOOLEAN] :
         LET pushed == PushSwap(StateOf(who), s)
             w == [pushed EXCEPT !.category = Classified(pushed)]
         IN /\ wallets' = Evicted([x \in DOMAIN wallets \union {who} |->
                                     IF x = who THEN w ELSE wallets[x]])
            /\ emitted' = Emitted(who, Patterns(w, s))
    /\ UNCHANGED now

TimePasses ==
    /\ now < MaxTime
    /\ now' = now + 1
    /\ UNCHANGED <<wallets, emitted>>

TrackerInit ==
    /\ wallets = [w \in {} |-> Fresh]
    /\ emitted = [k \in {} |-> 0]
    /\ now = 0

TrackerNext == TimePasses \/ \E w \in Wallets : ObserveSwap(w)

-----------------------------------------------------------------------------
\* A win rate counts each sell once against a buy, so it is at most one half
\* and no wallet is ever found to be smart money (win_rate, classify).
SmartMoneyIsNeverFound ==
    \A w \in DOMAIN wallets :
      2 * WinPercent(wallets[w]) <= 100 /\ wallets[w].category # "smart_money"

=============================================================================
