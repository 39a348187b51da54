----------------------------- MODULE RouteEngine -----------------------------
(***************************************************************************)
(* The route-engine thread of helios and the swap generation it shares     *)
(* with the writers of the pool cache.                                     *)
(*                                                                         *)
(* A writer changes reserves and bumps PoolStateCache.swap_gen, some under *)
(* the guard of the pool they change, some after they have dropped it.     *)
(* The engine reads swap_gen twice without any lock: for the cooldown and  *)
(* the emission, and again inside find_opportunities_multi, where it is    *)
(* the key of the RouteCache.  Reserves are abstracted to the              *)
(* number of writes each writer has made: what matters is which writes a   *)
(* search has seen and which have been published by a bump.                *)
(*                                                                         *)
(* Signals reach the engine through sig-fanout and a bounded channel that  *)
(* drops when it is full.                                                  *)
(***************************************************************************)
EXTENDS Integers, Sequences

CONSTANTS
    Writers,      \* threads that write reserves of the pool cache
    Cap,          \* capacity of the channel to the engine
    GradCap,      \* capacity of the channel to the sniper
    BfEvery,      \* Bellman-Ford runs on every BfEvery-th signal: 10
    CooldownGens, \* generations that end a cooldown early: 10
    MaxWrites,    \* bound: writes of one writer
    MaxGen        \* bound: no bump is started past this generation

Kinds == {"tx", "grad"}
NoGen == -1       \* u64::MAX, which swap_gen never reaches

ASSUME EngineConstants ==
    /\ Cap \in Nat \ {0} /\ GradCap \in Nat
    /\ BfEvery \in Nat \ {0} /\ CooldownGens \in Nat
    /\ MaxWrites \in Nat /\ MaxGen \in Nat

VARIABLES
    gen,      \* swap_gen
    written,  \* writes each writer has made
    pub,      \* history: writes each writer has published by a bump
    queue,    \* sig_for_route channel
    grads,    \* how many signals are in the sniper's channel
    total,    \* re_signals_total modulo BfEvery
    cool,     \* last_bf_zero_time is less than BF_COOLDOWN_MS ago
    zeroGen,  \* last_bf_zero_swap_gen
    last,     \* last_emitted_swap_gen
    eng,      \* the engine inside one turn of its loop
    cache,    \* RouteCache
    sent,     \* history: the last batch of routes that was emitted
    gens      \* history: the generations of the batches emitted so far

channels == <<queue, grads>>
store == <<gen, written, pub>>
pacing == <<total, cool, zeroGen, last>>
record == <<sent, gens>>
vars == <<channels, store, pacing, eng, cache, record>>

None == [w \in Writers |-> 0]
NoBatch == [bf |-> FALSE, floor |-> None, seen |-> None]
Waiting == [pc |-> "wait", cur |-> 0, floor |-> None, gen |-> 0,
            bf |-> FALSE, found |-> FALSE, seen |-> None]

-----------------------------------------------------------------------------
(* Writers.                                                                *)

\* process_transaction, apply_delta and update_reserve_by_vault bump under
\* the guard.
WriteUnderGuard(w) ==
    /\ written[w] < MaxWrites /\ gen < MaxGen
    /\ pub[w] = written[w]
    /\ written' = [written EXCEPT ![w] = @ + 1]
    /\ pub' = [pub EXCEPT ![w] = written[w] + 1]
    /\ gen' = gen + 1
    /\ UNCHANGED <<channels, pacing, eng, cache, record>>

\* apply_swap_delta and apply_vault_balances write, one or several pools ...
Write(w) ==
    /\ written[w] < MaxWrites
    /\ written' = [written EXCEPT ![w] = @ + 1]
    /\ UNCHANGED <<gen, pub, channels, pacing, eng, cache, record>>

\* Mutant: the generation is bumped for the write that is still to come.
BumpFirst(w) ==
    /\ gen < MaxGen
    /\ pub' = [pub EXCEPT ![w] = written[w] + 1]
    /\ gen' = gen + 1
    /\ UNCHANGED <<written, channels, pacing, eng, cache, record>>

\* ... and bump afterwards, mark_market_activity without any write.
Bump(w) ==
    /\ gen < MaxGen
    /\ pub' = [pub EXCEPT ![w] = written[w]]
    /\ gen' = gen + 1
    /\ UNCHANGED <<written, channels, pacing, eng, cache, record>>

-----------------------------------------------------------------------------
(* sig-fanout.                                                             *)

\* try_send to both channels: a full channel drops the signal.
FanOut(k) ==
    /\ grads' = IF k = "grad" /\ grads < GradCap THEN grads + 1 ELSE grads
    /\ queue' = IF Len(queue) < Cap THEN Append(queue, k) ELSE queue
    /\ UNCHANGED <<store, pacing, eng, cache, record>>

\* The sniper thread takes its signal.
SniperTakes ==
    /\ grads > 0
    /\ grads' = grads - 1
    /\ UNCHANGED <<queue, store, pacing, eng, cache, record>>

-----------------------------------------------------------------------------
(* The loop of route-engine.                                               *)

\* Take everything that is queued and keep the newest signal only.  A
\* transaction is as old as its detection; any other signal is dated now.
Take ==
    /\ eng.pc = "wait" /\ queue # <<>>
    /\ queue' = <<>>
    /\ total' = (total + Len(queue)) % BfEvery
    /\ eng' = [eng EXCEPT !.pc = IF queue[Len(queue)] = "tx" THEN "check" ELSE "fresh"]
    /\ UNCHANGED <<grads, store, cool, zeroGen, last, cache, record>>

\* A transaction is older than MAX_SIGNAL_AGE_MS.  (The 2000 ms a graduation
\* is given are never used up.)
TooOld ==
    /\ eng.pc = "check"
    /\ eng' = Waiting
    /\ UNCHANGED <<channels, store, pacing, cache, record>>

InCooldown == cool /\ gen - zeroGen < CooldownGens

CoolingDown ==
    /\ eng.pc \in {"check", "fresh"} /\ InCooldown
    /\ eng' = Waiting
    /\ UNCHANGED <<channels, store, pacing, cache, record>>

\* current_swap_gen, for this turn's cooldown and emission.
ReadCurrent ==
    /\ eng.pc \in {"check", "fresh"} /\ ~InCooldown
    /\ eng' = [eng EXCEPT !.pc = "search", !.cur = gen, !.floor = pub]
    /\ UNCHANGED <<channels, store, pacing, cache, record>>

SkipBf ==
    /\ eng.pc = "search" /\ total # 0
    /\ eng' = [eng EXCEPT !.pc = "emit"]
    /\ UNCHANGED <<channels, store, pacing, cache, record>>

\* find_opportunities_multi reads the generation again.
ReadGen ==
    /\ eng.pc = "search" /\ total = 0
    /\ eng' = [eng EXCEPT !.pc = "lookup", !.gen = gen, !.bf = TRUE]
    /\ UNCHANGED <<channels, store, pacing, cache, record>>

\* Mutant: any cached routes will do while they are less than 500 ms old.
HitAnyGen ==
    /\ eng.pc = "lookup" /\ cache.gen # NoGen
    /\ eng' = [eng EXCEPT !.pc = "emit", !.found = cache.found,
                          !.seen = cache.seen]
    /\ UNCHANGED <<channels, store, pacing, cache, record>>

Hit ==
    /\ eng.pc = "lookup" /\ cache.gen = eng.gen
    /\ eng' = [eng EXCEPT !.pc = "emit", !.found = cache.found,
                          !.seen = cache.seen]
    /\ UNCHANGED <<channels, store, pacing, cache, record>>

\* Another generation, or the cache is 500 ms old: find_opportunities_inner
\* copies every pool and may find routes.  It copies pool by pool; seen is
\* what the first copy saw, and the later ones can only see more.
Scan(found) ==
    /\ eng.pc = "lookup"
    /\ eng' = [eng EXCEPT !.pc = "store", !.found = found, !.seen = written]
    /\ UNCHANGED <<channels, store, pacing, cache, record>>

\* Mutant: the routes are stored under the generation after the search.
StoreLatest ==
    /\ eng.pc = "store"
    /\ cache' = [gen |-> gen, found |-> eng.found, seen |-> eng.seen]
    /\ eng' = [eng EXCEPT !.pc = "emit"]
    /\ UNCHANGED <<channels, store, pacing, record>>

Store ==
    /\ eng.pc = "store"
    /\ cache' = [gen |-> eng.gen, found |-> eng.found, seen |-> eng.seen]
    /\ eng' = [eng EXCEPT !.pc = "emit"]
    /\ UNCHANGED <<channels, store, pacing, record>>

\* The statistics are reset every 30 s, re_signals_total with them.
StatsReset == total' = total \/ total' = 0

\* Neither Bellman-Ford nor the other scanners found a route; a turn that
\* took a millisecond starts the cooldown.
NothingFound ==
    /\ eng.pc = "emit" /\ ~eng.found
    /\ \/ UNCHANGED <<cool, zeroGen>>
       \/ cool' = TRUE /\ zeroGen' = eng.cur
    /\ StatsReset
    /\ eng' = Waiting
    /\ UNCHANGED <<channels, store, last, cache, record>>

\* Routes for a generation that has been emitted already, or routes that
\* the filters took out.
Suppress ==
    /\ eng.pc = "emit"
    /\ StatsReset
    /\ eng' = Waiting
    /\ UNCHANGED <<channels, store, cool, zeroGen, last, cache, record>>

Out(b) ==
    /\ StatsReset
    /\ sent' = b
    /\ gens' = Append(gens, eng.cur)
    /\ eng' = Waiting
    /\ UNCHANGED <<channels, store, cool, zeroGen, cache>>

ThisBatch == [bf |-> eng.bf, floor |-> eng.floor, seen |-> eng.seen]

\* Mutant: only batches of Bellman-Ford are remembered.
EmitForgetting ==
    /\ eng.pc = "emit" /\ eng.cur # last
    /\ last' = IF eng.bf THEN eng.cur ELSE last
    /\ Out(ThisBatch)

\* Routes of Bellman-Ford or of another scanner go to the executor.
Emit ==
    /\ eng.pc = "emit" /\ eng.cur # last
    /\ last' = eng.cur
    /\ Out(ThisBatch)

CooldownEnds ==
    /\ cool
    /\ cool' = FALSE
    /\ UNCHANGED <<channels, store, total, zeroGen, last, eng, cache, record>>

-----------------------------------------------------------------------------
Init ==
    /\ gen = 0 /\ written = None /\ pub = None
    /\ queue = <<>> /\ grads = 0
    /\ total = 0 /\ cool = FALSE /\ zeroGen = 0 /\ last = NoGen
    /\ eng = Waiting
    /\ cache = [gen |-> NoGen, found |-> FALSE, seen |-> None]
    /\ sent = NoBatch /\ gens = <<>>

Next ==
    \/ \E w \in Writers : WriteUnderGuard(w)
    \/ \E w \in Writers : Write(w)
    \/ \E w \in Writers : Bump(w)
    \/ \E k \in Kinds : FanOut(k)
    \/ SniperTakes
    \/ Take \/ TooOld \/ CoolingDown \/ ReadCurrent
    \/ SkipBf \/ ReadGen \/ Hit \/ Store
    \/ \E found \in BOOLEAN : Scan(found)
    \/ NothingFound \/ Suppress \/ Emit
    \/ CooldownEnds

Spec == Init /\ [][Next]_vars

-----------------------------------------------------------------------------
(* Properties.                                                             *)

Counts == [Writers -> Nat]

\* Channels respect their capacity and no bump runs ahead of the writes it
\* announces.
TypeOK ==
    /\ gen \in Nat /\ written \in Counts /\ pub \in Counts
    /\ \A w \in Writers : pub[w] <= written[w]
    /\ queue \in Seq(Kinds) /\ Len(queue) <= Cap
    /\ grads \in 0 .. GradCap
    /\ total \in 0 .. (BfEvery - 1)
    /\ cool \in BOOLEAN /\ zeroGen \in Nat /\ last \in Nat \cup {NoGen}
    /\ eng \in [pc : {"wait", "check", "fresh", "search", "lookup", "store", "emit"},
                cur : Nat, floor : Counts, gen : Nat, bf : BOOLEAN,
                found : BOOLEAN, seen : Counts]
    /\ cache \in [gen : Nat \cup {NoGen}, found : BOOLEAN, seen : Counts]
    /\ sent \in [bf : BOOLEAN, floor : Counts, seen : Counts]
    /\ gens \in Seq(Nat)

\* Routes that find_opportunities_multi may return from its cache (same
\* generation) were computed from reserves that include every write a bump
\* has published, whatever came between the reads of the generation, the
\* search and the store.
RouteCacheCurrent ==
    cache.gen = gen => \A w \in Writers : pub[w] <= cache.seen[w]

\* Bellman-Ford routes that are emitted include every write that had been
\* published when the turn read its generation, also when they come from the
\* cache.
EmittedRoutesCurrent ==
    sent.bf => \A w \in Writers : sent.floor[w] <= sent.seen[w]

\* Every batch is emitted for a newer generation than all batches before
\* it: remembering only the last one is enough to send none twice, although
\* the generation moves on while the turn searches.
OneEmissionPerGeneration ==
    \A i, j \in 1 .. Len(gens) : i < j => gens[i] < gens[j]
=============================================================================
