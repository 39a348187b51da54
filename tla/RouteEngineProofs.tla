-------------------------- MODULE RouteEngineProofs --------------------------
(***************************************************************************)
(* The safety of the route engine's thread.                                *)
(*                                                                         *)
(* First the swap generation protocol of RouteEngine, for any number of    *)
(* writers, any capacity and any pacing of the engine.  What               *)
(* find_opportunities_multi may return is safe because a generation is     *)
(* read before the pools are: as long as swap_gen still has the value the  *)
(* engine read, nothing has been published since, and the search has seen  *)
(* all that was written.  TurnInv follows that argument through the steps  *)
(* of one turn.                                                            *)
(*                                                                         *)
(* Then the routes of RouteSearch, for any pools, reserves and prices.  A  *)
(* route fits the cache it was computed from (Fit) when it is a loop that  *)
(* pays what it claims and borrows what can be borrowed: each scanner      *)
(* visits its pools once, so each of its hops meets the reserves it was    *)
(* quoted from; the graph search may come back through the pool it left    *)
(* from, which pays more then and not less (QuoteLanded), and a cycle that *)
(* goes there and back through one pool pays nothing (QuoteBack).          *)
(* SearchInv carries that through the turns of the search.                 *)
(***************************************************************************)
EXTENDS MCRoutes, WellFoundedInduction, NaturalsInduction, TLAPS

-----------------------------------------------------------------------------
(* The swap generation protocol.                                           *)

AtMost(f, g) == \A w \in Writers : f[w] <= g[w]

\* The cache was filled under a generation that has been reached.
CacheInv == cache.gen <= gen /\ RouteCacheCurrent

\* What a turn of the engine knows at each of its steps.
TurnInv ==
    /\ eng.pc \in {"wait", "check", "fresh", "search"} => ~eng.bf
    /\ eng.pc \in {"search", "lookup", "store", "emit"} =>
         eng.cur <= gen /\ last <= eng.cur /\ AtMost(eng.floor, pub)
    /\ eng.pc \in {"lookup", "store"} => eng.gen <= gen
    /\ eng.pc = "lookup" /\ cache.gen = eng.gen =>
         AtMost(eng.floor, cache.seen)
    /\ eng.pc = "store" => /\ AtMost(eng.floor, eng.seen)
                           /\ eng.gen = gen => AtMost(pub, eng.seen)
    /\ eng.pc = "emit" /\ eng.bf => AtMost(eng.floor, eng.seen)

\* The batches before this one were emitted for increasing generations, none
\* later than the one that is remembered.
GensInv ==
    /\ last <= gen
    /\ \A i \in 1 .. Len(gens) : gens[i] <= last
    /\ OneEmissionPerGeneration

IInv == TypeOK /\ CacheInv /\ TurnInv /\ EmittedRoutesCurrent /\ GensInv

\* The engine starts with an empty cache and has emitted nothing.
LEMMA InitIInv == Init => IInv
  <1> SUFFICES ASSUME Init PROVE IInv
    OBVIOUS
  <1>0. None \in Counts /\ \A w \in Writers : None[w] = 0
    BY DEF None, Counts
  <1>1. TypeOK
    <2>1. /\ gen \in Nat /\ written \in Counts /\ pub \in Counts
          /\ \A w \in Writers : pub[w] <= written[w]
      BY <1>0 DEF Init
    <2>2. /\ total \in 0 .. (BfEvery - 1) /\ grads \in 0 .. GradCap
          /\ queue \in Seq(Kinds) /\ Len(queue) <= Cap /\ gens \in Seq(Nat)
      BY EngineConstants DEF Init
    <2>3. cool \in BOOLEAN /\ zeroGen \in Nat /\ last \in Nat \cup {NoGen}
      BY DEF Init
    <2>4. eng \in [pc : {"wait", "check", "fresh", "search", "lookup", "store", "emit"},
                   cur : Nat, floor : Counts, gen : Nat, bf : BOOLEAN,
                   found : BOOLEAN, seen : Counts]
      BY <1>0 DEF Init, Waiting
    <2>5. cache \in [gen : Nat \cup {NoGen}, found : BOOLEAN, seen : Counts]
      BY <1>0 DEF Init
    <2>6. sent \in [bf : BOOLEAN, floor : Counts, seen : Counts]
      BY <1>0 DEF Init, NoBatch
    <2> QED
      BY <2>1, <2>2, <2>3, <2>4, <2>5, <2>6 DEF TypeOK
  <1>2. CacheInv
    BY DEF Init, CacheInv, RouteCacheCurrent, NoGen
  <1>3. TurnInv
    BY DEF Init, TurnInv, Waiting
  <1>4. EmittedRoutesCurrent
    BY DEF Init, EmittedRoutesCurrent, NoBatch
  <1>5. GensInv
    BY DEF Init, GensInv, OneEmissionPerGeneration, NoGen
  <1> QED
    BY <1>1, <1>2, <1>3, <1>4, <1>5 DEF IInv

\* A step that announces more writes under a new generation preserves the
\* invariant: no copy of the old generation equals the new one.
LEMMA PublishIInv ==
    ASSUME IInv,
           gen' = gen + 1,
           written' \in Counts, pub' \in Counts,
           AtMost(written, written'), AtMost(pub, pub'), AtMost(pub', written'),
           UNCHANGED <<channels, pacing, eng, cache, record>>
    PROVE  IInv'
  <1> USE DEF IInv, TypeOK, channels, pacing, record, NoGen
  <1>1. TypeOK'
    BY DEF AtMost
  <1>2. CacheInv'
    BY DEF CacheInv, RouteCacheCurrent
  <1>3. TurnInv'
    BY DEF TurnInv, AtMost, Counts
  <1>4. EmittedRoutesCurrent'
    BY DEF EmittedRoutesCurrent
  <1>5. GensInv'
    BY DEF GensInv, OneEmissionPerGeneration
  <1> QED
    BY <1>1, <1>2, <1>3, <1>4, <1>5

\* Every action of a writer publishes, except a write that is announced
\* later, which leaves all the engine compares untouched.
LEMMA WritersIInv ==
    ASSUME IInv, NEW w \in Writers,
           WriteUnderGuard(w) \/ Write(w) \/ Bump(w)
    PROVE  IInv'
  <1>0. written \in [Writers -> Nat] /\ pub \in [Writers -> Nat]
        /\ gen \in Nat /\ \A v \in Writers : pub[v] <= written[v]
    BY DEF IInv, TypeOK, Counts
  <1>1. CASE WriteUnderGuard(w)
    <2>1. /\ gen' = gen + 1 /\ written' \in Counts /\ pub' \in Counts
          /\ UNCHANGED <<channels, pacing, eng, cache, record>>
      BY <1>0, <1>1 DEF WriteUnderGuard, Counts
    <2>2. AtMost(written, written') /\ AtMost(pub, pub')
            /\ AtMost(pub', written')
      BY <1>0, <1>1 DEF WriteUnderGuard, AtMost
    <2> QED
      BY <2>1, <2>2, PublishIInv
  <1>2. CASE Write(w)
    <2>1. /\ written' \in Counts /\ AtMost(pub, written')
          /\ UNCHANGED <<gen, pub, channels, pacing, eng, cache, record>>
      BY <1>0, <1>2 DEF Write, AtMost, Counts
    <2> USE <2>1 DEF IInv, channels, pacing, record
    <2>2. TypeOK'
      BY DEF TypeOK, AtMost
    <2>3. CacheInv' /\ EmittedRoutesCurrent' /\ GensInv'
      BY DEF CacheInv, RouteCacheCurrent, EmittedRoutesCurrent, GensInv,
         OneEmissionPerGeneration
    <2>4. TurnInv'
      BY DEF TurnInv, AtMost
    <2> QED
      BY <2>2, <2>3, <2>4
  <1>3. CASE Bump(w)
    <2>1. /\ gen' = gen + 1 /\ written' \in Counts /\ pub' \in Counts
          /\ UNCHANGED <<channels, pacing, eng, cache, record>>
      BY <1>0, <1>3 DEF Bump, Counts
    <2>2. AtMost(written, written') /\ AtMost(pub, pub')
            /\ AtMost(pub', written')
      BY <1>0, <1>3 DEF Bump, AtMost
    <2> QED
      BY <2>1, <2>2, PublishIInv
  <1> QED
    BY <1>1, <1>2, <1>3

-----------------------------------------------------------------------------
(* The engine.                                                             *)

PCs == {"wait", "check", "fresh", "search", "lookup", "store", "emit"}

EngType == [pc : PCs, cur : Nat, floor : Counts, gen : Nat, bf : BOOLEAN,
            found : BOOLEAN, seen : Counts]

\* The facts about types that the steps of the engine need, by name.
LEMMA Types ==
    ASSUME TypeOK
    PROVE  /\ gen \in Nat /\ written \in Counts /\ pub \in Counts
           /\ AtMost(pub, written)
           /\ zeroGen \in Nat /\ last \in Nat \cup {NoGen}
           /\ total \in 0 .. (BfEvery - 1) /\ cool \in BOOLEAN
           /\ eng \in EngType
           /\ cache \in [gen : Nat \cup {NoGen}, found : BOOLEAN, seen : Counts]
           /\ gens \in Seq(Nat)
  BY DEF TypeOK, AtMost, EngType, PCs

\* The record of an idle engine is well typed and says nothing.
LEMMA WaitingType == Waiting \in EngType /\ Waiting.pc = "wait" /\ ~Waiting.bf
  <1>1. None \in Counts
    BY DEF None, Counts
  <1> QED
    BY <1>1 DEF Waiting, EngType, PCs

\* A step that changes neither the reserves, the cache nor what has been
\* emitted only has to re-establish what the turn knows.
LEMMA EngineIInv ==
    ASSUME IInv, UNCHANGED <<store, cache, record, last>>,
           queue' \in Seq(Kinds), Len(queue') <= Cap, grads' \in 0 .. GradCap,
           total' \in 0 .. (BfEvery - 1), cool' \in BOOLEAN, zeroGen' \in Nat,
           eng' \in EngType, TurnInv'
    PROVE  IInv'
  <1> USE DEF store, record
  <1>1. TypeOK'
    BY DEF IInv, TypeOK, EngType, PCs
  <1>2. CacheInv'
    BY DEF IInv, CacheInv, RouteCacheCurrent
  <1>3. EmittedRoutesCurrent'
    BY DEF IInv, EmittedRoutesCurrent
  <1>4. GensInv'
    BY DEF IInv, GensInv, OneEmissionPerGeneration
  <1> QED
    BY <1>1, <1>2, <1>3, <1>4 DEF IInv

\* An idle engine knows nothing that could be wrong.
LEMMA WaitingTurn ==
    ASSUME eng' = Waiting
    PROVE  eng' \in EngType /\ TurnInv'
  BY WaitingType DEF TurnInv

\* re_signals_total is kept or starts again.
LEMMA StatsResetType ==
    ASSUME IInv, StatsReset
    PROVE  total' \in 0 .. (BfEvery - 1)
  BY EngineConstants DEF IInv, TypeOK, StatsReset

\* Signals come and go without touching the engine.
LEMMA SignalsIInv ==
    ASSUME IInv, SniperTakes \/ \E k \in Kinds : FanOut(k)
    PROVE  IInv'
  <1>0. /\ queue \in Seq(Kinds) /\ Len(queue) <= Cap /\ grads \in 0 .. GradCap
        /\ total \in 0 .. (BfEvery - 1) /\ cool \in BOOLEAN /\ zeroGen \in Nat
        /\ eng \in EngType
    BY Types DEF IInv, TypeOK
  <1>1. UNCHANGED <<store, pacing, eng, cache, record>>
    BY DEF SniperTakes, FanOut
  <1>2. TurnInv'
    BY <1>1 DEF IInv, TurnInv, store, pacing
  <1>3. grads' \in 0 .. GradCap
    BY <1>0, EngineConstants DEF SniperTakes, FanOut
  <1>4. queue' \in Seq(Kinds) /\ Len(queue') <= Cap
    BY <1>0, EngineConstants DEF SniperTakes, FanOut
  <1> QED
    BY <1>0, <1>1, <1>2, <1>3, <1>4, EngineIInv DEF pacing

\* Draining the channel keeps the count of signals within its period.
LEMMA TakeIInv ==
    ASSUME IInv, Take
    PROVE  IInv'
  <1>0. /\ queue \in Seq(Kinds) /\ grads \in 0 .. GradCap
        /\ total \in 0 .. (BfEvery - 1) /\ cool \in BOOLEAN /\ zeroGen \in Nat
        /\ eng \in EngType
    BY Types DEF IInv, TypeOK
  <1>1. total' \in 0 .. (BfEvery - 1)
    <2>1. total \in Nat /\ Len(queue) \in Nat /\ BfEvery \in Nat \ {0}
      BY <1>0, EngineConstants
    <2> QED
      BY <2>1 DEF Take
  <1>2. queue' \in Seq(Kinds) /\ Len(queue') <= Cap
    BY EngineConstants DEF Take
  <1>3. eng' \in EngType /\ eng'.pc \in {"check", "fresh"} /\ eng'.bf = eng.bf
    BY <1>0 DEF Take, EngType, PCs
  <1>4. TurnInv'
    BY <1>3 DEF IInv, TurnInv, Take
  <1> QED
    BY <1>0, <1>1, <1>2, <1>3, <1>4, EngineIInv DEF Take

\* Signals that are too old or fall into the cooldown end the turn.
LEMMA DropIInv ==
    ASSUME IInv, TooOld \/ CoolingDown
    PROVE  IInv'
  <1>1. eng' = Waiting /\ UNCHANGED <<channels, store, pacing, cache, record>>
    BY DEF TooOld, CoolingDown
  <1> QED
    BY <1>1, WaitingTurn, EngineIInv DEF IInv, TypeOK, channels, pacing

\* From "check" to "lookup" the turn only collects what it reads.
LEMMA ReadsIInv ==
    ASSUME IInv, ReadCurrent \/ SkipBf \/ ReadGen
    PROVE  IInv'
  <1>0. /\ gen \in Nat /\ pub \in Counts /\ eng \in EngType
        /\ last \in Nat \cup {NoGen}
        /\ cache \in [gen : Nat \cup {NoGen}, found : BOOLEAN, seen : Counts]
        /\ TurnInv /\ CacheInv /\ GensInv
    BY Types DEF IInv
  <1>1. UNCHANGED <<channels, store, pacing, cache, record>>
    BY DEF ReadCurrent, SkipBf, ReadGen
  <1>2. CASE ReadCurrent
    <2>1. eng' \in EngType
      BY <1>0, <1>2 DEF ReadCurrent, EngType, PCs
    <2>2. /\ eng'.pc = "search" /\ eng'.cur = gen /\ eng'.floor = pub
          /\ eng'.bf = eng.bf /\ eng.pc \in {"check", "fresh"}
      BY <1>0, <1>2 DEF ReadCurrent, EngType
    <2>3. TurnInv'
      BY <1>0, <1>1, <2>2 DEF TurnInv, GensInv, AtMost, Counts, store, pacing
    <2> QED
      BY <1>1, <2>1, <2>3, EngineIInv DEF IInv, TypeOK, channels, pacing
  <1>3. CASE SkipBf
    <2>1. eng' \in EngType
      BY <1>0, <1>3 DEF SkipBf, EngType, PCs
    <2>2. /\ eng'.pc = "emit" /\ eng'.cur = eng.cur /\ eng'.floor = eng.floor
          /\ eng'.bf = eng.bf /\ eng.pc = "search"
      BY <1>0, <1>3 DEF SkipBf, EngType
    <2>3. TurnInv'
      BY <1>0, <1>1, <2>2 DEF TurnInv, store, pacing
    <2> QED
      BY <1>1, <2>1, <2>3, EngineIInv DEF IInv, TypeOK, channels, pacing
  <1>4. CASE ReadGen
    <2>1. eng' \in EngType
      BY <1>0, <1>4 DEF ReadGen, EngType, PCs
    <2>2. /\ eng'.pc = "lookup" /\ eng'.cur = eng.cur
          /\ eng'.floor = eng.floor /\ eng'.gen = gen /\ eng.pc = "search"
      BY <1>0, <1>4 DEF ReadGen, EngType
    <2>3. cache.gen = gen => AtMost(eng.floor, cache.seen)
      <3>1. eng.floor \in Counts /\ cache.seen \in Counts
        BY <1>0 DEF EngType
      <3> QED
        BY <1>0, <2>2, <3>1 DEF TurnInv, CacheInv, RouteCacheCurrent, AtMost,
           Counts
    <2>4. TurnInv'
      BY <1>0, <1>1, <2>2, <2>3 DEF TurnInv, store, pacing
    <2> QED
      BY <1>1, <2>1, <2>4, EngineIInv DEF IInv, TypeOK, channels, pacing
  <1> QED
    BY <1>2, <1>3, <1>4

\* A hit returns routes that saw all the turn requires; a search sees all
\* that has been written, so all that has been published.
LEMMA SearchIInv ==
    ASSUME IInv, Hit \/ \E some \in BOOLEAN : Scan(some)
    PROVE  IInv'
  <1>0. /\ gen \in Nat /\ pub \in Counts /\ written \in Counts
        /\ AtMost(pub, written) /\ eng \in EngType
        /\ cache \in [gen : Nat \cup {NoGen}, found : BOOLEAN, seen : Counts]
        /\ TurnInv
    BY Types DEF IInv
  <1>1. UNCHANGED <<channels, store, pacing, cache, record>>
    BY DEF Hit, Scan
  <1>2. CASE Hit
    <2>1. eng' \in EngType
      BY <1>0, <1>2 DEF Hit, EngType, PCs
    <2>2. /\ eng'.pc = "emit" /\ eng'.cur = eng.cur /\ eng'.floor = eng.floor
          /\ eng'.seen = cache.seen /\ eng.pc = "lookup" /\ cache.gen = eng.gen
      BY <1>0, <1>2 DEF Hit, EngType
    <2>3. TurnInv'
      BY <1>0, <1>1, <2>2 DEF TurnInv, store, pacing
    <2> QED
      BY <1>1, <2>1, <2>3, EngineIInv DEF IInv, TypeOK, channels, pacing
  <1>3. ASSUME NEW some \in BOOLEAN, Scan(some)
        PROVE  IInv'
    <2>1. eng' \in EngType
      BY <1>0, <1>3 DEF Scan, EngType, PCs
    <2>2. /\ eng'.pc = "store" /\ eng'.cur = eng.cur /\ eng'.gen = eng.gen
          /\ eng'.floor = eng.floor /\ eng'.seen = written /\ eng.pc = "lookup"
      BY <1>0, <1>3 DEF Scan, EngType
    <2>3. AtMost(eng.floor, written)
      <3>1. eng.floor \in Counts
        BY <1>0 DEF EngType
      <3> QED
        BY <1>0, <2>2, <3>1 DEF TurnInv, AtMost, Counts
    <2>4. TurnInv'
      BY <1>0, <1>1, <2>2, <2>3 DEF TurnInv, store, pacing
    <2> QED
      BY <1>1, <2>1, <2>4, EngineIInv DEF IInv, TypeOK, channels, pacing
  <1> QED
    BY <1>2, <1>3

\* The routes are stored under the generation that was read before the
\* search: if it is still current, nothing was published in between.
LEMMA StoreIInv ==
    ASSUME IInv, Store
    PROVE  IInv'
  <1>0. gen \in Nat /\ eng \in EngType /\ TurnInv /\ eng.pc = "store"
    BY Types DEF IInv, Store
  <1>1. /\ cache' = [gen |-> eng.gen, found |-> eng.found, seen |-> eng.seen]
        /\ UNCHANGED <<channels, store, pacing, record>>
    BY DEF Store
  <1>2. eng' \in EngType
    BY <1>0 DEF Store, EngType, PCs
  <1>3. /\ eng'.pc = "emit" /\ eng'.cur = eng.cur /\ eng'.floor = eng.floor
        /\ eng'.seen = eng.seen
    BY <1>0 DEF Store, EngType
  <1>4. TypeOK'
    <2>1. cache' \in [gen : Nat \cup {NoGen}, found : BOOLEAN, seen : Counts]
      BY <1>0, <1>1 DEF EngType
    <2> QED
      BY <1>1, <1>2, <2>1 DEF IInv, TypeOK, EngType, PCs, channels, store,
         pacing, record
  <1>5. CacheInv'
    BY <1>0, <1>1 DEF TurnInv, CacheInv, RouteCacheCurrent, AtMost, store
  <1>6. TurnInv'
    BY <1>0, <1>1, <1>3 DEF TurnInv, store, pacing
  <1>7. EmittedRoutesCurrent' /\ GensInv'
    BY <1>1 DEF IInv, EmittedRoutesCurrent, GensInv, OneEmissionPerGeneration,
       store, pacing, record
  <1> QED
    BY <1>4, <1>5, <1>6, <1>7 DEF IInv

\* A turn that sends nothing leaves what has been sent alone.
LEMMA QuietIInv ==
    ASSUME IInv, NothingFound \/ Suppress
    PROVE  IInv'
  <1>0. eng \in EngType /\ zeroGen \in Nat /\ cool \in BOOLEAN
    BY Types DEF IInv
  <1>1. /\ eng' = Waiting /\ StatsReset
        /\ UNCHANGED <<channels, store, last, cache, record>>
    BY DEF NothingFound, Suppress
  <1>2. cool' \in BOOLEAN /\ zeroGen' \in Nat
    BY <1>0 DEF NothingFound, Suppress, EngType
  <1> QED
    BY <1>1, <1>2, WaitingTurn, StatsResetType, EngineIInv
       DEF IInv, TypeOK, channels

\* The end of the 5 ms cooldown.
LEMMA CooldownEndsIInv ==
    ASSUME IInv, CooldownEnds
    PROVE  IInv'
  <1>1. UNCHANGED <<channels, store, total, zeroGen, last, eng, cache, record>>
        /\ cool' \in BOOLEAN
    BY DEF CooldownEnds
  <1>2. TurnInv'
    BY <1>1 DEF IInv, TurnInv, store
  <1>3. eng \in EngType
    BY Types DEF IInv
  <1> QED
    BY <1>1, <1>2, <1>3, EngineIInv DEF IInv, TypeOK, channels

\* A batch goes out for a generation at least as new as the remembered one
\* and different from it, hence newer than all batches before.
LEMMA EmitIInv ==
    ASSUME IInv, Emit
    PROVE  IInv'
  <1>0. /\ gen \in Nat /\ eng \in EngType /\ last \in Nat \cup {NoGen}
        /\ gens \in Seq(Nat) /\ TurnInv /\ GensInv
        /\ eng.pc = "emit" /\ eng.cur # last
    BY Types DEF IInv, Emit
  <1>1. /\ last' = eng.cur /\ eng' = Waiting /\ sent' = ThisBatch
        /\ gens' = Append(gens, eng.cur) /\ StatsReset
        /\ UNCHANGED <<channels, store, cool, zeroGen, cache>>
    BY DEF Emit, Out
  <1>2. eng.cur \in Nat /\ last < eng.cur /\ eng.cur <= gen
    BY <1>0 DEF TurnInv, EngType, NoGen
  <1>3. TypeOK'
    <2>1. sent' \in [bf : BOOLEAN, floor : Counts, seen : Counts]
      BY <1>0, <1>1 DEF ThisBatch, EngType
    <2>2. gens' \in Seq(Nat) /\ last' \in Nat \cup {NoGen}
      BY <1>0, <1>1, <1>2
    <2>3. eng' \in EngType
      BY <1>1, WaitingTurn
    <2>4. total' \in 0 .. (BfEvery - 1)
      BY <1>1, StatsResetType
    <2> QED
      BY <1>1, <2>1, <2>2, <2>3, <2>4 DEF IInv, TypeOK, EngType, PCs,
         channels, store
  <1>4. CacheInv'
    BY <1>1 DEF IInv, CacheInv, RouteCacheCurrent, store
  <1>5. TurnInv'
    BY <1>1, WaitingTurn
  <1>6. EmittedRoutesCurrent'
    BY <1>0, <1>1 DEF EmittedRoutesCurrent, TurnInv, ThisBatch, AtMost
  <1>7. GensInv'
    <2>1. /\ Len(gens') = Len(gens) + 1 /\ Len(gens) \in Nat
          /\ gens'[Len(gens) + 1] = eng.cur
          /\ \A i \in 1 .. Len(gens) : gens'[i] = gens[i] /\ gens[i] \in Nat
      BY <1>0, <1>1, <1>2
    <2>2. \A i \in 1 .. Len(gens) : gens[i] < eng.cur
      BY <1>0, <1>2, <2>1 DEF GensInv, NoGen
    <2>3. \A i \in 1 .. Len(gens') : gens'[i] <= last'
      BY <1>1, <1>2, <2>1, <2>2
    <2>4. OneEmissionPerGeneration'
      <3> SUFFICES ASSUME NEW i \in 1 .. Len(gens'), NEW j \in 1 .. Len(gens'),
                          i < j
                   PROVE  gens'[i] < gens'[j]
        BY DEF OneEmissionPerGeneration
      <3>1. CASE j = Len(gens) + 1
        BY <2>1, <2>2, <3>1
      <3>2. CASE j # Len(gens) + 1
        <4>1. i \in 1 .. Len(gens) /\ j \in 1 .. Len(gens)
          BY <2>1, <3>2
        <4>2. gens[i] < gens[j]
          BY <1>0, <4>1 DEF GensInv, OneEmissionPerGeneration
        <4> QED
          BY <2>1, <4>1, <4>2
      <3> QED
        BY <3>1, <3>2
    <2> QED
      BY <1>1, <1>2, <2>3, <2>4 DEF GensInv, store
  <1> QED
    BY <1>3, <1>4, <1>5, <1>6, <1>7 DEF IInv

-----------------------------------------------------------------------------
\* Every step of the system preserves the invariant.
LEMMA NextIInv == IInv /\ [Next]_vars => IInv'
  <1> SUFFICES ASSUME IInv, [Next]_vars PROVE IInv'
    OBVIOUS
  <1>1. CASE \E w \in Writers : WriteUnderGuard(w) \/ Write(w) \/ Bump(w)
    BY <1>1, WritersIInv
  <1>2. CASE SniperTakes \/ \E k \in Kinds : FanOut(k)
    BY <1>2, SignalsIInv
  <1>3. CASE Take
    BY <1>3, TakeIInv
  <1>4. CASE TooOld \/ CoolingDown
    BY <1>4, DropIInv
  <1>5. CASE ReadCurrent \/ SkipBf \/ ReadGen
    BY <1>5, ReadsIInv
  <1>6. CASE Hit \/ \E some \in BOOLEAN : Scan(some)
    BY <1>6, SearchIInv
  <1>7. CASE Store
    BY <1>7, StoreIInv
  <1>8. CASE NothingFound \/ Suppress
    BY <1>8, QuietIInv
  <1>9. CASE Emit
    BY <1>9, EmitIInv
  <1>10. CASE CooldownEnds
    BY <1>10, CooldownEndsIInv
  <1>11. CASE UNCHANGED vars
    BY <1>11 DEF vars, channels, store, pacing, record, IInv, TypeOK, CacheInv,
       RouteCacheCurrent, TurnInv, AtMost, EmittedRoutesCurrent, GensInv,
       OneEmissionPerGeneration
  <1> QED
    BY <1>1, <1>2, <1>3, <1>4, <1>5, <1>6, <1>7, <1>8, <1>9, <1>10, <1>11
       DEF Next

\* The inductive invariant holds in every reachable state of route-engine.
THEOREM IInvHolds == Spec => []IInv
  BY InitIInv, NextIInv, PTL DEF Spec

\* Channels keep within their capacity, the signal counter within its
\* period, and no bump of swap_gen runs ahead of the writes it announces.
THEOREM TypeCorrect == Spec => []TypeOK
  <1>1. IInv => TypeOK
    BY DEF IInv
  <1> QED
    BY <1>1, IInvHolds, PTL

\* The RouteCache never answers for the current generation with routes that
\* miss a published write, with any number of writers that bump under their
\* guard or after it.
THEOREM CacheIsCurrent == Spec => []RouteCacheCurrent
  <1>1. IInv => RouteCacheCurrent
    BY DEF IInv, CacheInv
  <1> QED
    BY <1>1, IInvHolds, PTL

\* Emitted Bellman-Ford routes include every write published before the turn
\* read its generation, although it reads it again inside the search.
THEOREM EmissionsAreCurrent == Spec => []EmittedRoutesCurrent
  <1>1. IInv => EmittedRoutesCurrent
    BY DEF IInv
  <1> QED
    BY <1>1, IInvHolds, PTL

\* last_emitted_swap_gen alone keeps the route engine from sending two
\* batches for one generation, in any run of any length.
THEOREM NoSecondEmission == Spec => []OneEmissionPerGeneration
  <1>1. IInv => OneEmissionPerGeneration
    BY DEF IInv, GensInv
  <1> QED
    BY <1>1, IInvHolds, PTL

-----------------------------------------------------------------------------
(* Arithmetic of quotes.                                                   *)

\* A quotient is the largest number whose product with the divisor fits.
LEMMA DivBounds ==
    ASSUME NEW x \in Nat, NEW d \in Nat \ {0}
    PROVE  x \div d \in Nat /\ (x \div d) * d <= x /\ x < (x \div d + 1) * d
  OBVIOUS

\* The larger of two fractions has the larger quotient.
LEMMA DivMono ==
    ASSUME NEW m \in Nat, NEW d \in Nat \ {0}, NEW n \in Nat, NEW e \in Nat \ {0}, m * e <= n * d
    PROVE  m \div d <= n \div e
  <1> DEFINE q == m \div d
             s == n \div e
  <1>1. q \in Nat /\ q * d <= m /\ s \in Nat /\ n < (s + 1) * e
    BY DivBounds
  <1> HIDE DEF q, s
  <1> SUFFICES ASSUME q >= s + 1 PROVE FALSE
    BY <1>1 DEF q, s
  <1>2. (s + 1) * d <= q * d
    BY <1>1
  <1>3. (s + 1) * d <= m
    BY <1>1, <1>2
  <1>4. ((s + 1) * d) * e <= m * e
    BY <1>1, <1>3
  <1>5. n * d < ((s + 1) * e) * d
    BY <1>1
  <1> QED
    BY <1>1, <1>4, <1>5

\* What a constant-product pool with reserves x and y pays for net.
Paid(net, x, y) == (net * y) \div (x * Bps + net)

LEMMA PaidBounds ==
    ASSUME NEW net \in Nat, NEW x \in Nat \ {0}, NEW y \in Nat \ {0}
    PROVE  /\ Paid(net, x, y) \in Nat
           /\ Paid(net, x, y) * (x * Bps + net) <= net * y
           /\ Paid(net, x, y) < y
  <1>0. Bps \in Nat \ {0}
    BY PoolAssumption
  <1> DEFINE d == x * Bps + net
             q == Paid(net, x, y)
  <1>1. d \in Nat \ {0} /\ net * y \in Nat /\ x * Bps \in Nat \ {0}
    BY <1>0
  <1>2. q \in Nat /\ q * d <= net * y
    BY <1>1, DivBounds DEF Paid
  <1>3. q < y
    <2> HIDE DEF q
    <2> SUFFICES ASSUME q >= y PROVE FALSE
      BY <1>2
    <2>1. y * d <= q * d
      BY <1>1, <1>2
    <2>2. y * d = y * (x * Bps) + net * y
      BY <1>0
    <2>3. y * (x * Bps) > 0
      BY <1>1
    <2> QED
      BY <1>1, <1>2, <2>1, <2>2, <2>3
  <1> QED
    BY <1>2, <1>3

LEMMA PaidMono ==
    ASSUME NEW m \in Nat, NEW n \in Nat, m <= n, NEW x \in Nat \ {0}, NEW y \in Nat \ {0}
    PROVE  Paid(m, x, y) <= Paid(n, x, y)
  <1>0. Bps \in Nat \ {0}
    BY PoolAssumption
  <1> DEFINE k == x * Bps
  <1>1. k \in Nat \ {0}
    BY <1>0
  <1> HIDE DEF k
  <1>2. (m * y) * (k + n) <= (n * y) * (k + m)
    <2>1. (m * y) * (k + n) = m * (y * k) + (m * y) * n /\ (n * y) * (k + m) = n * (y * k) + (m * y) * n
      BY <1>1
    <2>2. m * (y * k) <= n * (y * k)
      BY <1>1
    <2> QED
      BY <1>1, <2>1, <2>2
  <1>3. m * y \in Nat /\ n * y \in Nat /\ k + m \in Nat \ {0} /\ k + n \in Nat \ {0}
    BY <1>1
  <1>4. (m * y) \div (k + m) <= (n * y) \div (k + n)
    BY <1>2, <1>3, DivMono
  <1> QED
    BY <1>4 DEF Paid, k

LEMMA PaidMoved ==
    ASSUME NEW net \in Nat, NEW x \in Nat \ {0}, NEW y \in Nat \ {0},
           NEW v \in Nat \ {0}, NEW w \in Nat, v <= x, y <= w
    PROVE  Paid(net, x, y) <= Paid(net, v, w)
  <1>0. Bps \in Nat \ {0}
    BY PoolAssumption
  <1> DEFINE j == x * Bps
             k == v * Bps
  <1>1. j \in Nat \ {0} /\ k \in Nat \ {0} /\ k <= j
    BY <1>0
  <1> HIDE DEF j, k
  <1>2. (net * y) * (k + net) <= (net * w) * (j + net)
    <2>1. net * y <= net * w /\ net * y \in Nat /\ net * w \in Nat
      OBVIOUS
    <2>2. k + net <= j + net /\ k + net \in Nat
      BY <1>1
    <2>3. (net * y) * (k + net) <= (net * w) * (k + net)
      BY <2>1, <2>2
    <2>4. (net * w) * (k + net) <= (net * w) * (j + net)
      BY <1>1, <2>1, <2>2
    <2> QED
      BY <1>1, <2>1, <2>3, <2>4
  <1>3. net * y \in Nat /\ net * w \in Nat /\ k + net \in Nat \ {0} /\ j + net \in Nat \ {0}
    BY <1>1
  <1>4. (net * y) \div (j + net) <= (net * w) \div (k + net)
    BY <1>2, <1>3, DivMono
  <1> QED
    BY <1>4 DEF Paid, j, k

\* What comes back from selling what an amount bought, fee or not.
LEMMA PaidBack ==
    ASSUME NEW a \in Nat, NEW k \in 0 .. Bps, NEW x \in Nat \ {0}, NEW y \in Nat \ {0}
    PROVE  Paid(Paid(a * k, x, y) * k, y, x) <= a
  <1>0. Bps \in Nat \ {0}
    BY PoolAssumption
  <1> DEFINE net == a * k
             q == Paid(net, x, y)
             b == Paid(q * k, y, x)
  <1>1. net \in Nat /\ net <= a * Bps
    BY <1>0
  <1>2. q \in Nat /\ q * (x * Bps + net) <= net * y
    <2> HIDE DEF net
    <2> QED
      BY <1>1, PaidBounds
  <1> HIDE DEF q
  <1>3. q * k \in Nat /\ q * k <= q * Bps
    BY <1>0, <1>2
  <1>4. b \in Nat /\ b * (y * Bps + q * k) <= (q * k) * x
    <2> DEFINE m == q * k
    <2> HIDE DEF m
    <2>1. Paid(m, y, x) \in Nat /\ Paid(m, y, x) * (y * Bps + m) <= m * x
      BY <1>3, PaidBounds DEF m
    <2> QED
      BY <2>1 DEF m
  <1> HIDE DEF b, net
  <1>5. b * y <= q * x
    <2>1. b * (y * Bps) <= b * (y * Bps + q * k)
      BY <1>0, <1>3, <1>4
    <2>2. (q * k) * x <= (q * Bps) * x
      BY <1>0, <1>2, <1>3
    <2>3. (b * y) * Bps <= (q * x) * Bps
      BY <1>0, <1>2, <1>3, <1>4, <2>1, <2>2
    <2> QED
      BY <1>0, <1>2, <1>4, <2>3
  <1>6. q * x <= a * y
    <2>1. q * (x * Bps) <= q * (x * Bps + net)
      BY <1>0, <1>1, <1>2
    <2>2. net * y <= (a * Bps) * y
      BY <1>0, <1>1
    <2>3. (q * x) * Bps <= (a * y) * Bps
      BY <1>0, <1>1, <1>2, <2>1, <2>2
    <2> QED
      BY <1>0, <1>2, <2>3
  <1>7. b * y <= a * y
    BY <1>2, <1>4, <1>5, <1>6
  <1>8. b <= a
    BY <1>4, <1>7
  <1> QED
    BY <1>8 DEF b, q, net

\* ... at a fixed price.
LEMMA PriceBack ==
    ASSUME NEW a \in Nat, NEW k \in 0 .. Bps, NEW num \in Nat \ {0}, NEW den \in Nat \ {0}
    PROVE  (((((a * k) * num) \div (Bps * den)) * k) * den) \div (Bps * num) <= a
  <1>0. Bps \in Nat \ {0}
    BY PoolAssumption
  <1> DEFINE q == ((a * k) * num) \div (Bps * den)
             b == ((q * k) * den) \div (Bps * num)
  <1>1. (a * k) * num \in Nat /\ Bps * den \in Nat \ {0} /\ Bps * num \in Nat \ {0}
    BY <1>0
  <1>2. q \in Nat /\ q * (Bps * den) <= (a * k) * num
    BY <1>1, DivBounds
  <1> HIDE DEF q
  <1>3. (q * k) * den \in Nat
    BY <1>0, <1>2
  <1>4. b \in Nat /\ b * (Bps * num) <= (q * k) * den
    BY <1>1, <1>3, DivBounds
  <1> HIDE DEF b
  <1>5. (q * k) * den <= q * (Bps * den)
    <2>1. q * k <= q * Bps /\ q * k \in Nat /\ q * Bps \in Nat
      BY <1>0, <1>2
    <2>2. (q * k) * den <= (q * Bps) * den
      BY <2>1
    <2> QED
      BY <1>0, <1>2, <2>2
  <1>6. (a * k) * num <= a * (Bps * num)
    <2>1. a * k <= a * Bps /\ a * k \in Nat /\ a * Bps \in Nat
      BY <1>0
    <2>2. (a * k) * num <= (a * Bps) * num
      BY <2>1
    <2> QED
      BY <1>0, <2>2
  <1>7. b * (Bps * num) <= a * (Bps * num)
    BY <1>0, <1>1, <1>2, <1>3, <1>4, <1>5, <1>6
  <1>8. b <= a
    BY <1>1, <1>4, <1>7
  <1> QED
    BY <1>8 DEF b, q

-----------------------------------------------------------------------------
(* Quotes of pools.                                                        *)

Stock == [ra : Nat, rb : Nat, ea : Nat, eb : Nat]

\* What is in the pool c of p on the side of t, and on the other side.
SideOf(p, c, t) == IF t = Pools[p].a THEN c.ea ELSE c.eb
AwayFrom(p, c, t) == IF t = Pools[p].a THEN c.eb ELSE c.ea

\* What is left of the input after the fee, and the price as a fraction.
KeptBy(p) == Bps - Pools[p].fee
NumOf(p, t) == IF t = Pools[p].a THEN Pools[p].price[1] ELSE Pools[p].price[2]
DenOf(p, t) == IF t = Pools[p].a THEN Pools[p].price[2] ELSE Pools[p].price[1]

\* At the price of the active tick or bin.
Priced(p, t, amount) == ((amount * KeptBy(p)) * NumOf(p, t)) \div (Bps * DenOf(p, t))

LEMMA PoolFacts ==
    ASSUME NEW p \in Searching!PoolIds
    PROVE  /\ Pools[p].a # Pools[p].b
           /\ KeptBy(p) \in 0 .. Bps /\ Bps \in Nat \ {0}
           /\ \A t : NumOf(p, t) \in Nat \ {0} /\ DenOf(p, t) \in Nat \ {0}
  BY PoolAssumption DEF Searching!PoolIds, KeptBy, NumOf, DenOf

\* The three cases of a quote.
LEMMA QuoteCases ==
    ASSUME NEW p, NEW c, NEW t, NEW amount
    PROVE  LET x == SideOf(p, c, t)
               y == AwayFrom(p, c, t)
           IN  Searching!QuoteAt(p, c, t, amount) =
                   IF x = 0 \/ y = 0 THEN 0
                   ELSE IF Searching!Concentrated(p)
                        THEN IF Pools[p].liquid = "none" THEN 0 ELSE Priced(p, t, amount)
                   ELSE Paid(amount * KeptBy(p), x, y)
  BY DEF Searching!QuoteAt, SideOf, AwayFrom, KeptBy, NumOf, DenOf, Priced, Paid

LEMMA PricedFacts ==
    ASSUME NEW p \in Searching!PoolIds, NEW t, NEW a \in Nat
    PROVE  /\ Priced(p, t, a) \in Nat
           /\ \A b \in Nat : a <= b => Priced(p, t, a) <= Priced(p, t, b)
  <1> DEFINE k == KeptBy(p)
             num == NumOf(p, t)
             d == Bps * DenOf(p, t)
  <1>1. k \in Nat /\ num \in Nat \ {0} /\ d \in Nat \ {0}
    BY PoolFacts
  <1> HIDE DEF k, num, d
  <1>2. (a * k) * num \in Nat
    BY <1>1
  <1>3. ((a * k) * num) \div d \in Nat
    BY <1>1, <1>2, DivBounds
  <1>4. ASSUME NEW b \in Nat, a <= b
        PROVE  ((a * k) * num) \div d <= ((b * k) * num) \div d
    <2>1. a * k <= b * k /\ a * k \in Nat /\ b * k \in Nat
      BY <1>1, <1>4
    <2>2. (a * k) * num <= (b * k) * num /\ (b * k) * num \in Nat
      BY <1>1, <2>1
    <2>3. ((a * k) * num) * d <= ((b * k) * num) * d
      BY <1>1, <1>2, <2>2
    <2> QED
      BY <1>1, <1>2, <2>2, <2>3, DivMono
  <1> QED
    BY <1>3, <1>4 DEF Priced, k, num, d

LEMMA QuoteNat ==
    ASSUME NEW p \in Searching!PoolIds, NEW c, NEW t, NEW a \in Nat,
           SideOf(p, c, t) \in Nat, AwayFrom(p, c, t) \in Nat
    PROVE  Searching!QuoteAt(p, c, t, a) \in Nat
  <1>1. a * KeptBy(p) \in Nat
    BY PoolFacts
  <1>2. SideOf(p, c, t) # 0 /\ AwayFrom(p, c, t) # 0 =>
          Paid(a * KeptBy(p), SideOf(p, c, t), AwayFrom(p, c, t)) \in Nat
    BY <1>1, PaidBounds
  <1>3. Priced(p, t, a) \in Nat
    BY PricedFacts
  <1> QED
    BY <1>2, <1>3, QuoteCases

\* More of a token buys no less.
LEMMA QuoteMono ==
    ASSUME NEW p \in Searching!PoolIds, NEW c \in Stock, NEW t, NEW a \in Nat, NEW b \in Nat, a <= b
    PROVE  Searching!QuoteAt(p, c, t, a) <= Searching!QuoteAt(p, c, t, b)
  <1> DEFINE k == KeptBy(p)
             x == SideOf(p, c, t)
             y == AwayFrom(p, c, t)
  <1>1. k \in Nat /\ x \in Nat /\ y \in Nat
    BY PoolFacts DEF Stock, SideOf, AwayFrom
  <1> HIDE DEF k, x, y
  <1>2. a * k \in Nat /\ b * k \in Nat /\ a * k <= b * k
    BY <1>1
  <1>3. x # 0 /\ y # 0 => Paid(a * k, x, y) <= Paid(b * k, x, y)
    BY <1>1, <1>2, PaidMono
  <1>4. Priced(p, t, a) <= Priced(p, t, b)
    BY PricedFacts
  <1> QED
    BY <1>3, <1>4, QuoteCases DEF k, x, y

\* A pool turned round.
LEMMA Sides ==
    ASSUME NEW p \in Searching!PoolIds, NEW t \in {Pools[p].a, Pools[p].b}
    PROVE  /\ Searching!Opposite(p, t) \in {Pools[p].a, Pools[p].b} /\ Searching!Opposite(p, t) # t
           /\ Searching!Opposite(p, Searching!Opposite(p, t)) = t
           /\ \A c : /\ SideOf(p, c, Searching!Opposite(p, t)) = AwayFrom(p, c, t)
                     /\ AwayFrom(p, c, Searching!Opposite(p, t)) = SideOf(p, c, t)
           /\ NumOf(p, Searching!Opposite(p, t)) = DenOf(p, t)
           /\ DenOf(p, Searching!Opposite(p, t)) = NumOf(p, t)
  BY PoolFacts DEF Searching!Opposite, SideOf, AwayFrom, NumOf, DenOf

\* There is no free round trip through one pool.
LEMMA QuoteBack ==
    ASSUME NEW p \in Searching!PoolIds, NEW c \in Stock, NEW t \in {Pools[p].a, Pools[p].b}, NEW a \in Nat
    PROVE  Searching!QuoteAt(p, c, Searching!Opposite(p, t), Searching!QuoteAt(p, c, t, a)) <= a
  <1> DEFINE k == KeptBy(p)
             x == SideOf(p, c, t)
             y == AwayFrom(p, c, t)
             u == Searching!Opposite(p, t)
  <1>1. k \in 0 .. Bps /\ x \in Nat /\ y \in Nat
    BY PoolFacts DEF Stock, SideOf, AwayFrom
  <1>2. SideOf(p, c, u) = y /\ AwayFrom(p, c, u) = x
    BY Sides
  <1>3. CASE x = 0 \/ y = 0
    BY <1>2, <1>3, QuoteCases
  <1>4. CASE x # 0 /\ y # 0 /\ Searching!Concentrated(p)
    <2>1. CASE Pools[p].liquid = "none"
      BY <1>2, <1>4, <2>1, QuoteCases
    <2>2. CASE Pools[p].liquid # "none"
      <3>1. Searching!QuoteAt(p, c, t, a) = Priced(p, t, a)
        BY <1>4, <2>2, QuoteCases
      <3>2. Searching!QuoteAt(p, c, u, Priced(p, t, a)) = Priced(p, u, Priced(p, t, a))
        BY <1>2, <1>4, <2>2, QuoteCases
      <3>3. Priced(p, u, Priced(p, t, a)) <= a
        <4>1. NumOf(p, t) \in Nat \ {0} /\ DenOf(p, t) \in Nat \ {0}
          BY PoolFacts
        <4>2. NumOf(p, u) = DenOf(p, t) /\ DenOf(p, u) = NumOf(p, t)
          BY Sides
        <4> QED
          BY <1>1, <4>1, <4>2, PriceBack DEF Priced
      <3> QED
        BY <3>1, <3>2, <3>3
    <2> QED
      BY <2>1, <2>2
  <1>5. CASE x # 0 /\ y # 0 /\ ~Searching!Concentrated(p)
    <2>1. Searching!QuoteAt(p, c, t, a) = Paid(a * k, x, y)
      BY <1>5, QuoteCases
    <2>2. Searching!QuoteAt(p, c, u, Paid(a * k, x, y)) = Paid(Paid(a * k, x, y) * k, y, x)
      BY <1>2, <1>5, QuoteCases
    <2>3. Paid(Paid(a * k, x, y) * k, y, x) <= a
      <3> HIDE DEF k, x, y
      <3> QED
        BY <1>1, <1>5, PaidBack
    <2> QED
      BY <2>1, <2>2, <2>3
  <1> QED
    BY <1>3, <1>4, <1>5

\* A pool that a swap has gone through pays no less for the way back.
LEMMA QuoteMoved ==
    ASSUME NEW p \in Searching!PoolIds, NEW c \in Stock, NEW t \in {Pools[p].a, Pools[p].b},
           NEW a \in Nat, NEW n \in Nat,
           ~Searching!Concentrated(p)
    PROVE  Searching!QuoteAt(p, c, Searching!Opposite(p, t), n)
               <= Searching!QuoteAt(p, Searching!Swapped(c, p, t, a, Searching!QuoteAt(p, c, t, a)), Searching!Opposite(p, t), n)
  <1> DEFINE k == KeptBy(p)
             x == SideOf(p, c, t)
             y == AwayFrom(p, c, t)
             u == Searching!Opposite(p, t)
             got == Searching!QuoteAt(p, c, t, a)
             d == Searching!Swapped(c, p, t, a, got)
  <1>1. k \in 0 .. Bps /\ k \in Nat /\ x \in Nat /\ y \in Nat
    BY PoolFacts DEF Stock, SideOf, AwayFrom
  <1>2. SideOf(p, c, u) = y /\ AwayFrom(p, c, u) = x /\ SideOf(p, d, u) = AwayFrom(p, d, t)
        /\ AwayFrom(p, d, u) = SideOf(p, d, t)
    BY Sides
  <1>3. SideOf(p, d, t) = x + a /\ AwayFrom(p, d, t) = y - got
    BY DEF Searching!Swapped, SideOf, AwayFrom
  <1>4. got \in Nat
    BY <1>1, QuoteNat
  <1>5. Priced(p, u, n) \in Nat
    BY PricedFacts
  <1>6. x # 0 /\ y # 0 => got < y
    <2> SUFFICES ASSUME x # 0, y # 0 PROVE got < y
      OBVIOUS
    <2>1. got = Paid(a * k, x, y)
      BY QuoteCases
    <2>2. a * k \in Nat
      BY <1>1
    <2>3. Paid(a * k, x, y) < y
      <3> HIDE DEF x, y, k
      <3> QED
        BY <1>1, <2>2, PaidBounds
    <2> QED
      BY <2>1, <2>3
  <1>7. CASE x = 0 \/ y = 0
    <2>1. got = 0
      BY <1>7, QuoteCases
    <2>2. Searching!QuoteAt(p, c, u, n) = 0
      BY <1>2, <1>7, QuoteCases
    <2>3. SideOf(p, d, u) \in Nat /\ AwayFrom(p, d, u) \in Nat
      <3> HIDE DEF x, y, d, u, got
      <3> QED
        BY <1>1, <1>2, <1>3, <2>1
    <2>4. Searching!QuoteAt(p, d, u, n) \in Nat
      <3> HIDE DEF x, y, d, u, got
      <3> QED
        BY <2>3, QuoteNat
    <2> QED
      <3> HIDE DEF x, y, d, u, got
      <3> QED
        BY <2>2, <2>4 DEF d, u, got
  <1>8. CASE x # 0 /\ y # 0
    <2> HIDE DEF x, y, d, got
    <2>1. y - got \in Nat \ {0} /\ y - got <= y /\ x + a \in Nat \ {0} /\ x <= x + a
      BY <1>1, <1>4, <1>6, <1>8
    <2>2. Searching!QuoteAt(p, c, u, n) =
            IF Searching!Concentrated(p) THEN IF Pools[p].liquid = "none" THEN 0 ELSE Priced(p, u, n)
            ELSE Paid(n * k, y, x)
      BY <1>2, <1>8, QuoteCases
    <2>3. Searching!QuoteAt(p, d, u, n) =
            IF Searching!Concentrated(p) THEN IF Pools[p].liquid = "none" THEN 0 ELSE Priced(p, u, n)
            ELSE Paid(n * k, y - got, x + a)
      BY <1>2, <1>3, <2>1, QuoteCases
    <2>4. n * k \in Nat
      BY <1>1
    <2>5. Paid(n * k, y, x) <= Paid(n * k, y - got, x + a)
      <3> HIDE DEF k
      <3> QED
        BY <1>1, <1>8, <2>1, <2>4, PaidMoved
    <2>6. Searching!QuoteAt(p, c, u, n) <= Searching!QuoteAt(p, d, u, n)
      <3> HIDE DEF k, u
      <3> QED
        BY <1>5, <2>2, <2>3, <2>5
    <2> QED
      BY <2>6 DEF d, got
  <1> QED
    BY <1>7, <1>8

\* ... nor does it when it trades at a fixed price.
LEMMA QuoteLanded ==
    ASSUME NEW p \in Searching!PoolIds, NEW c \in Stock, NEW t \in {Pools[p].a, Pools[p].b},
           NEW a \in Nat, NEW n \in Nat
    PROVE  Searching!QuoteAt(p, c, Searching!Opposite(p, t), n)
               <= Searching!QuoteAt(p, Searching!Landed(c, p, t, a, Searching!QuoteAt(p, c, t, a)), Searching!Opposite(p, t), n)
  <1>1. CASE Searching!Concentrated(p)
    <2>1. SideOf(p, c, Searching!Opposite(p, t)) \in Nat /\ AwayFrom(p, c, Searching!Opposite(p, t)) \in Nat
      BY DEF Stock, SideOf, AwayFrom
    <2>2. Searching!QuoteAt(p, c, Searching!Opposite(p, t), n) \in Nat
      BY <2>1, QuoteNat
    <2> QED
      BY <1>1, <2>2 DEF Searching!Landed
  <1>2. CASE ~Searching!Concentrated(p)
    BY <1>2, QuoteMoved DEF Searching!Landed
  <1> QED
    BY <1>1, <1>2

-----------------------------------------------------------------------------
(* The recursive functions of the model: each exists, because there is no  *)
(* least length for which it does not.                                     *)

LEMMA LeastNat ==
    ASSUME NEW S, S \subseteq Nat, S # {}
    PROVE  \E n \in S : \A m \in S : ~(m < n)
  <1>1. PICK n \in S : \A m \in S : ~(<<m, n>> \in OpToRel(<, Nat))
    <2>1. PICK x \in S : TRUE
      OBVIOUS
    <2> QED
      BY <2>1, NatLessThanWellFounded, WFMin
  <1>2. \A m \in S : ~(m < n)
    BY <1>1 DEF OpToRel
  <1> QED
    BY <1>2

HopStep(ps, g, i, t, amount) ==
    LET paid == IF i = 1 THEN [out |-> t, amount |-> amount] ELSE g[i - 1]
    IN  Searching!Hop(ps[i], paid.out, Searching!Quote(ps[i], paid.out, paid.amount))

LEMMA HopsDef ==
    ASSUME NEW ps, NEW t, NEW amount, NEW n \in Nat, DOMAIN ps = 1 .. n
    PROVE  LET hops == Searching!HopsAlong(ps, t, amount)
           IN  hops = [i \in 1 .. n |-> HopStep(ps, hops, i, t, amount)]
  <1> DEFINE Good(g, k) == g = [i \in 1 .. k |-> HopStep(ps, g, i, t, amount)]
             Bad == {k \in 0 .. n : ~ \E g : Good(g, k)}
  <1>1. ASSUME Bad # {} PROVE FALSE
    <2>1. PICK k \in Bad : \A m \in Bad : ~(m < k)
      <3>1. Bad \subseteq Nat
        OBVIOUS
      <3> HIDE DEF Bad
      <3> QED
        BY <1>1, <3>1, LeastNat
    <2>2. k \in 0 .. n /\ ~ \E g : Good(g, k)
      OBVIOUS
    <2>3. CASE k = 0
      <3>1. Good([i \in 1 .. 0 |-> 0], 0)
        OBVIOUS
      <3> QED
        BY <2>2, <2>3, <3>1
    <2>4. CASE k > 0
      <3>1. k - 1 \in 0 .. n /\ k - 1 \notin Bad
        BY <2>1, <2>2, <2>4
      <3>2. PICK g : Good(g, k - 1)
        BY <3>1
      <3> DEFINE h == [i \in 1 .. k |-> IF i = k THEN HopStep(ps, g, k, t, amount) ELSE g[i]]
      <3>3. ASSUME NEW i \in 1 .. k PROVE h[i] = HopStep(ps, h, i, t, amount)
        <4>1. i = 1 \/ (i - 1 \in 1 .. (k - 1) /\ h[i - 1] = g[i - 1])
          BY <2>2
        <4>2. HopStep(ps, h, i, t, amount) = HopStep(ps, g, i, t, amount)
          BY <4>1 DEF HopStep
        <4>3. ASSUME i # k PROVE g[i] = HopStep(ps, g, i, t, amount)
          <5>1. i \in 1 .. (k - 1)
            BY <2>2, <4>3
          <5> QED
            BY <3>2, <5>1
        <4> QED
          BY <4>2, <4>3
      <3>4. Good(h, k)
        <4>1. h = [i \in 1 .. k |-> h[i]]
          OBVIOUS
        <4> HIDE DEF h
        <4> QED
          BY <3>3, <4>1
      <3> QED
        BY <2>2, <3>4
    <2> QED
      BY <2>2, <2>3, <2>4
  <1>2. \E g : Good(g, n)
    BY <1>1
  <1>3. Searching!HopsAlong(ps, t, amount) = CHOOSE g : Good(g, n)
    BY DEF Searching!HopsAlong, HopStep
  <1>4. Good(CHOOSE g : Good(g, n), n)
    <2> HIDE DEF Good
    <2> QED
      BY <1>2
  <1> QED
    BY <1>3, <1>4

\* The states of a replay, one for each number of hops.
LEMMA ReplayDef ==
    ASSUME NEW res, NEW r, NEW n \in Nat, Len(r.hops) = n
    PROVE  \E after :
             /\ Searching!ReplayFrom(res, r) = after[n]
             /\ after[0] = [amount |-> r.borrow, pools |-> res]
             /\ \A i \in 1 .. n : after[i] = Searching!SwappedAt(after[i - 1], r.hops[i])
  <1> DEFINE Start == [amount |-> r.borrow, pools |-> res]
             Step(g, i) == IF i = 0 THEN Start ELSE Searching!SwappedAt(g[i - 1], r.hops[i])
             Good(g, k) == g = [i \in 0 .. k |-> Step(g, i)]
             Bad == {k \in 0 .. n : ~ \E g : Good(g, k)}
  <1>1. ASSUME Bad # {} PROVE FALSE
    <2>1. PICK k \in Bad : \A m \in Bad : ~(m < k)
      <3>1. Bad \subseteq Nat
        OBVIOUS
      <3> HIDE DEF Bad
      <3> QED
        BY <1>1, <3>1, LeastNat
    <2>2. k \in 0 .. n /\ ~ \E g : Good(g, k)
      OBVIOUS
    <2>3. CASE k = 0
      <3> DEFINE h == [i \in 0 .. 0 |-> Start]
      <3>1. \A i \in 0 .. 0 : h[i] = Step(h, i)
        OBVIOUS
      <3>2. h = [i \in 0 .. 0 |-> h[i]]
        OBVIOUS
      <3>3. Good(h, 0)
        <4> HIDE DEF h, Step
        <4> QED
          BY <3>1, <3>2
      <3> QED
        BY <2>2, <2>3, <3>3
    <2>4. CASE k > 0
      <3>1. k - 1 \in 0 .. n /\ k - 1 \notin Bad
        BY <2>1, <2>2, <2>4
      <3>2. PICK g : Good(g, k - 1)
        BY <3>1
      <3> DEFINE h == [i \in 0 .. k |-> IF i = k THEN Step(g, k) ELSE g[i]]
      <3>3. ASSUME NEW i \in 0 .. k PROVE h[i] = Step(h, i)
        <4>1. i = 0 \/ (i - 1 \in 0 .. (k - 1) /\ h[i - 1] = g[i - 1])
          BY <2>2
        <4>2. Step(h, i) = Step(g, i)
          BY <4>1
        <4>3. ASSUME i # k PROVE g[i] = Step(g, i)
          <5>1. i \in 0 .. (k - 1)
            BY <2>2, <4>3
          <5> HIDE DEF Step
          <5> QED
            BY <3>2, <5>1
        <4> HIDE DEF Step
        <4> QED
          BY <4>2, <4>3
      <3>4. Good(h, k)
        <4>1. h = [i \in 0 .. k |-> h[i]]
          OBVIOUS
        <4> HIDE DEF h, Step
        <4> QED
          BY <3>3, <4>1
      <3> QED
        BY <2>2, <3>4
    <2> QED
      BY <2>2, <2>3, <2>4
  <1>2. \E g : Good(g, n)
    BY <1>1
  <1>3. Searching!ReplayFrom(res, r) = (CHOOSE g : Good(g, n))[n]
    BY DEF Searching!ReplayFrom
  <1>4. Good(CHOOSE g : Good(g, n), n)
    <2> HIDE DEF Good
    <2> QED
      BY <1>2
  <1>5. ASSUME NEW g, Good(g, n)
        PROVE  /\ g[0] = Start
               /\ \A i \in 1 .. n : g[i] = Searching!SwappedAt(g[i - 1], r.hops[i])
    <2>1. \A i \in 0 .. n : g[i] = Step(g, i)
      <3> HIDE DEF Step
      <3> QED
        BY <1>5
    <2> QED
      BY <2>1
  <1> HIDE DEF Good, Bad, Step, Start
  <1> QED
    BY <1>3, <1>4, <1>5 DEF Start

-----------------------------------------------------------------------------
(* Routes.                                                                 *)

\* The cache holds numbers.
Stocked == DOMAIN pools = Searching!PoolIds /\ \A p \in Searching!PoolIds : pools[p] \in Seen

LEMMA StockedFacts ==
    ASSUME Stocked, NEW p \in Searching!PoolIds
    PROVE  pools[p] \in Stock
  BY DEF Stocked, Seen, Stock

LEMMA LengthOf ==
    ASSUME NEW s, NEW n \in Nat, s = [i \in 1 .. n |-> s[i]]
    PROVE  Len(s) = n
  <1> DEFINE S == {s[i] : i \in 1 .. n}
  <1>1. s \in [1 .. n -> S]
    <2> HIDE DEF S
    <2>1. \A i \in 1 .. n : s[i] \in S
      BY DEF S
    <2> QED
      BY <2>1
  <1>2. s \in Seq(S)
    <2> HIDE DEF S
    <2> QED
      BY <1>1
  <1> QED
    BY <1>1, <1>2

LEMMA CandidateFacts ==
    ASSUME NEW ps, NEW t, NEW amount, NEW cost, NEW strategy,
           NEW n \in Nat, n >= 1, DOMAIN ps = 1 .. n,
           NEW r, r = Searching!Candidate(ps, t, amount, cost, strategy)
    PROVE  /\ Len(r.hops) = n /\ DOMAIN r.hops = 1 .. n
           /\ \A i \in 1 .. n : r.hops[i] = HopStep(ps, r.hops, i, t, amount)
           /\ r.borrow = amount /\ r.strategy = strategy
           /\ r.gross = r.hops[n].amount - amount /\ r.net = r.gross - cost
  <1> DEFINE hops == Searching!HopsAlong(ps, t, amount)
  <1>1. hops = [i \in 1 .. n |-> HopStep(ps, hops, i, t, amount)]
    BY HopsDef
  <1> HIDE DEF hops
  <1>2. DOMAIN hops = 1 .. n /\ \A i \in 1 .. n : hops[i] = HopStep(ps, hops, i, t, amount)
    BY <1>1
  <1>3. hops = [i \in 1 .. n |-> hops[i]]
    BY <1>1, <1>2
  <1>4. Len(hops) = n
    BY <1>3, LengthOf
  <1>5. Searching!Candidate(ps, t, amount, cost, strategy) =
          [hops |-> hops, borrow |-> amount, gross |-> hops[n].amount - amount,
           net |-> (hops[n].amount - amount) - cost, strategy |-> strategy]
    BY <1>4 DEF Searching!Candidate, Searching!Last, hops
  <1> QED
    BY <1>2, <1>4, <1>5

\* The pools ps lead from each of the tokens d to the next and back to the first.
Around(n, ps, d) ==
    /\ n \in Nat /\ n >= 2 /\ DOMAIN ps = 1 .. n
    /\ \A i \in 1 .. n :
         /\ ps[i] \in Searching!PoolIds
         /\ d[i] \in {Pools[ps[i]].a, Pools[ps[i]].b}
         /\ Searching!Opposite(ps[i], d[i]) = IF i = n THEN d[1] ELSE d[i + 1]

\* The hops of r take the pools ps in order, each with what the one before paid.
Chained(r, n, ps, d) ==
    /\ Len(r.hops) = n
    /\ \A i \in 1 .. n :
         /\ r.hops[i] = Searching!Hop(ps[i], d[i], Searching!Quote(ps[i], d[i], Searching!AmountIn(r, i)))
         /\ Searching!AmountIn(r, i) \in Nat /\ r.hops[i].amount \in Nat
    /\ r.gross = r.hops[n].amount - r.borrow

\* A route along pools that lead around is closed and chains their quotes.
LEMMA HopsFollow ==
    ASSUME Stocked, NEW n, NEW ps, NEW d, Around(n, ps, d),
           NEW amount \in Nat, NEW cost, NEW strategy,
           NEW r, r = Searching!Candidate(ps, d[1], amount, cost, strategy)
    PROVE  /\ Chained(r, n, ps, d) /\ Searching!Closed(r)
           /\ r.borrow = amount /\ r.strategy = strategy /\ r.net = r.gross - cost
  <1> DEFINE At(i) == /\ r.hops[i] = Searching!Hop(ps[i], d[i], Searching!Quote(ps[i], d[i], Searching!AmountIn(r, i)))
                      /\ Searching!AmountIn(r, i) \in Nat /\ r.hops[i].amount \in Nat
  <1>0. n \in Nat /\ n >= 2 /\ DOMAIN ps = 1 .. n
    BY DEF Around
  <1>1. /\ Len(r.hops) = n /\ r.borrow = amount /\ r.strategy = strategy
        /\ r.gross = r.hops[n].amount - amount /\ r.net = r.gross - cost
        /\ \A i \in 1 .. n : r.hops[i] = HopStep(ps, r.hops, i, d[1], amount)
    <2> SUFFICES ASSUME NEW t, t = d[1] PROVE
            /\ Len(r.hops) = n /\ r.borrow = amount /\ r.strategy = strategy
            /\ r.gross = r.hops[n].amount - amount /\ r.net = r.gross - cost
            /\ \A i \in 1 .. n : r.hops[i] = HopStep(ps, r.hops, i, t, amount)
      OBVIOUS
    <2>1. r = Searching!Candidate(ps, t, amount, cost, strategy) /\ n >= 1
      BY <1>0
    <2> QED
      BY <1>0, <2>1, CandidateFacts
  <1>2. ASSUME NEW i \in 1 .. n, r.hops[i] = Searching!Hop(ps[i], d[i], Searching!Quote(ps[i], d[i], Searching!AmountIn(r, i))),
               Searching!AmountIn(r, i) \in Nat
        PROVE  At(i)
    <2>1. ps[i] \in Searching!PoolIds
      BY DEF Around
    <2>2. pools[ps[i]] \in Stock
      BY <2>1, StockedFacts
    <2>3. Searching!Quote(ps[i], d[i], Searching!AmountIn(r, i)) \in Nat
      <3>1. SideOf(ps[i], pools[ps[i]], d[i]) \in Nat /\ AwayFrom(ps[i], pools[ps[i]], d[i]) \in Nat
        BY <2>2 DEF Stock, SideOf, AwayFrom
      <3> QED
        BY <1>2, <2>1, <3>1, QuoteNat DEF Searching!Quote
    <2> QED
      BY <1>2, <2>3 DEF Searching!Hop
  <1>3. At(1)
    <2>1. 1 \in 1 .. n
      BY <1>0
    <2>2. r.hops[1] = Searching!Hop(ps[1], d[1], Searching!Quote(ps[1], d[1], amount))
      BY <1>1, <2>1 DEF HopStep
    <2>3. Searching!AmountIn(r, 1) = amount
      BY <1>1 DEF Searching!AmountIn
    <2> HIDE DEF At
    <2> QED
      BY <1>2, <2>1, <2>2, <2>3
  <1>4. ASSUME NEW i \in 2 .. n, At(i - 1) PROVE At(i)
    <2>1. i \in 1 .. n /\ i - 1 \in 1 .. n /\ i # 1 /\ i - 1 # n /\ (i - 1) + 1 = i
      BY <1>0
    <2>2. r.hops[i] = Searching!Hop(ps[i], r.hops[i - 1].out, Searching!Quote(ps[i], r.hops[i - 1].out, r.hops[i - 1].amount))
      BY <1>1, <2>1 DEF HopStep
    <2>3. r.hops[i - 1].out = d[i]
      <3>1. Searching!Opposite(ps[i - 1], d[i - 1]) = d[i]
        BY <2>1 DEF Around
      <3>2. r.hops[i - 1].out = Searching!Opposite(ps[i - 1], d[i - 1])
        BY <1>4 DEF Searching!Hop
      <3> QED
        BY <3>1, <3>2
    <2>4. Searching!AmountIn(r, i) = r.hops[i - 1].amount
      BY <2>1 DEF Searching!AmountIn
    <2>5. Searching!AmountIn(r, i) \in Nat
      BY <1>4, <2>4
    <2>6. r.hops[i] = Searching!Hop(ps[i], d[i], Searching!Quote(ps[i], d[i], Searching!AmountIn(r, i)))
      BY <2>2, <2>3, <2>4
    <2> HIDE DEF At
    <2> QED
      BY <1>2, <2>1, <2>5, <2>6
  <1>5. ASSUME NEW k \in 1 .. n, ~At(k) PROVE FALSE
    <2> DEFINE Bad == {i \in 1 .. n : ~At(i)}
    <2>1. PICK j \in Bad : \A m \in Bad : ~(m < j)
      <3>1. Bad \subseteq Nat /\ Bad # {}
        <4> HIDE DEF At
        <4> QED
          BY <1>5
      <3> HIDE DEF Bad
      <3> QED
        BY <3>1, LeastNat
    <2> HIDE DEF At
    <2>2. j # 1 /\ j \in 2 .. n /\ j - 1 \in 1 .. n /\ j - 1 < j
      BY <1>0, <1>3, <2>1
    <2>3. At(j - 1)
      BY <2>1, <2>2
    <2> QED
      BY <1>4, <2>1, <2>2, <2>3
  <1>6. \A i \in 1 .. n : At(i)
    <2> HIDE DEF At
    <2> QED
      BY <1>5
  <1>7. Searching!Closed(r)
    <2>1. \A i \in 1 .. n : /\ r.hops[i].pool = ps[i] /\ r.hops[i].in = d[i]
                            /\ r.hops[i].out = Searching!Opposite(ps[i], d[i])
      <3> SUFFICES ASSUME NEW i \in 1 .. n
                   PROVE  /\ r.hops[i].pool = ps[i] /\ r.hops[i].in = d[i]
                          /\ r.hops[i].out = Searching!Opposite(ps[i], d[i])
        OBVIOUS
      <3>1. r.hops[i] = Searching!Hop(ps[i], d[i], Searching!Quote(ps[i], d[i], Searching!AmountIn(r, i)))
        BY <1>6
      <3> QED
        BY <3>1 DEF Searching!Hop
    <2>2. 1 \in 1 .. n /\ n \in 1 .. n
      BY <1>0
    <2>3. r.hops[n].out = r.hops[1].in
      BY <2>1, <2>2 DEF Around
    <2>4. \A i \in 1 .. n : Searching!Trades(r.hops[i].pool, r.hops[i].in)
      BY <2>1 DEF Around, Searching!Trades
    <2>5. ASSUME NEW i \in 2 .. n PROVE r.hops[i].in = r.hops[i - 1].out
      <3>1. i \in 1 .. n /\ i - 1 \in 1 .. n /\ i - 1 # n /\ (i - 1) + 1 = i
        BY <1>0
      <3>2. Searching!Opposite(ps[i - 1], d[i - 1]) = d[i]
        BY <3>1 DEF Around
      <3> QED
        BY <2>1, <3>1, <3>2
    <2> QED
      BY <1>1, <2>3, <2>4, <2>5 DEF Searching!Closed
  <1> QED
    BY <1>1, <1>6, <1>7 DEF Chained

\* The first m hops go through different pools, and were quoted on res.
Fresh(res, r, m) ==
    /\ \A i \in 1 .. m :
         /\ r.hops[i].pool \in DOMAIN res
         /\ r.hops[i].amount =
              Searching!QuoteAt(r.hops[i].pool, res[r.hops[i].pool], r.hops[i].in, Searching!AmountIn(r, i))
    /\ \A i, j \in 1 .. m : i # j => r.hops[i].pool # r.hops[j].pool

\* After m hops a replay on res holds what the last of them was quoted, and the
\* first pool has been swapped through.
Carried(res, r, n, m) ==
    \E after :
        /\ Searching!ReplayFrom(res, r) = after[n]
        /\ \A i \in 1 .. n : after[i] = Searching!SwappedAt(after[i - 1], r.hops[i])
        /\ after[m].amount = r.hops[m].amount
        /\ after[m].pools[r.hops[1].pool] =
             Searching!Landed(res[r.hops[1].pool], r.hops[1].pool, r.hops[1].in, r.borrow, r.hops[1].amount)

\* Until a pool comes up again a replay pays what the hops were quoted.
LEMMA ReplayPrefix ==
    ASSUME NEW res, NEW r, NEW n \in Nat, Len(r.hops) = n, NEW m \in 1 .. n, Fresh(res, r, m)
    PROVE  Carried(res, r, n, m)
  <1>0. /\ \A i \in 1 .. m :
              /\ r.hops[i].pool \in DOMAIN res
              /\ r.hops[i].amount =
                   Searching!QuoteAt(r.hops[i].pool, res[r.hops[i].pool], r.hops[i].in, Searching!AmountIn(r, i))
        /\ \A i, j \in 1 .. m : i # j => r.hops[i].pool # r.hops[j].pool
    BY DEF Fresh
  <1>1. PICK after : /\ Searching!ReplayFrom(res, r) = after[n]
                     /\ after[0] = [amount |-> r.borrow, pools |-> res]
                     /\ \A i \in 1 .. n : after[i] = Searching!SwappedAt(after[i - 1], r.hops[i])
    BY ReplayDef
  <1> DEFINE Used(i) == {r.hops[j].pool : j \in 1 .. i}
             Sw == Searching!Landed(res[r.hops[1].pool], r.hops[1].pool, r.hops[1].in, r.borrow, r.hops[1].amount)
             At(i) == /\ after[i].amount = Searching!AmountIn(r, i + 1)
                      /\ DOMAIN after[i].pools = DOMAIN res
                      /\ \A p : p \notin Used(i) => after[i].pools[p] = res[p]
                      /\ i >= 1 => after[i].pools[r.hops[1].pool] = Sw
  <1>2. At(0)
    BY <1>1 DEF Searching!AmountIn
  <1>3. ASSUME NEW i \in 1 .. m, At(i - 1) PROVE At(i)
    <2> DEFINE h == r.hops[i]
               s == after[i - 1]
               got == Searching!QuoteAt(h.pool, s.pools[h.pool], h.in, s.amount)
               c == Searching!Landed(s.pools[h.pool], h.pool, h.in, s.amount, got)
    <2>0. i \in 1 .. n /\ i \in Nat /\ i - 1 \in Nat /\ (i - 1) + 1 = i
      OBVIOUS
    <2>1. after[i] = Searching!SwappedAt(s, h)
      BY <1>1, <2>0
    <2>2. after[i].amount = got /\ after[i].pools = [s.pools EXCEPT ![h.pool] = c]
      BY <2>1 DEF Searching!SwappedAt
    <2>3. h.pool \notin Used(i - 1)
      <3>1. \A j \in 1 .. (i - 1) : j \in 1 .. m /\ j # i
        BY <2>0
      <3> QED
        BY <1>0, <3>1
    <2>4. s.pools[h.pool] = res[h.pool] /\ s.amount = Searching!AmountIn(r, i)
      BY <1>3, <2>0, <2>3
    <2>5. got = h.amount
      BY <1>0, <2>4
    <2>6. h.pool \in DOMAIN s.pools /\ DOMAIN s.pools = DOMAIN res
      BY <1>0, <1>3
    <2>7. after[i].amount = Searching!AmountIn(r, i + 1)
      <3>1. i + 1 # 1 /\ (i + 1) - 1 = i
        BY <2>0
      <3> QED
        BY <2>2, <2>5, <3>1 DEF Searching!AmountIn
    <2>8. DOMAIN after[i].pools = DOMAIN res
      <3> HIDE DEF s, h, c
      <3> QED
        BY <2>2, <2>6
    <2>9. ASSUME NEW p, p \notin Used(i) PROVE after[i].pools[p] = res[p]
      <3>1. p # h.pool
        BY <2>0, <2>9
      <3>2. p \notin Used(i - 1)
        <4>1. \A j \in 1 .. (i - 1) : j \in 1 .. i
          BY <2>0
        <4> QED
          BY <2>9, <4>1
      <3>3. s.pools[p] = res[p]
        BY <1>3, <3>2
      <3>4. [s.pools EXCEPT ![h.pool] = c][p] = s.pools[p]
        <4> HIDE DEF s, h, c
        <4>1. CASE p \in DOMAIN s.pools
          BY <3>1, <4>1
        <4>2. CASE p \notin DOMAIN s.pools
          BY <3>1, <4>2
        <4> QED
          BY <4>1, <4>2
      <3> QED
        BY <2>2, <3>3, <3>4
    <2>10. after[i].pools[r.hops[1].pool] = Sw
      <3>1. CASE i = 1
        <4>1. after[i].pools[h.pool] = c
          <5> HIDE DEF s, h, c
          <5> QED
            BY <2>2, <2>6
        <4>2. Searching!AmountIn(r, 1) = r.borrow
          BY DEF Searching!AmountIn
        <4>3. c = Searching!Landed(res[h.pool], h.pool, h.in, r.borrow, h.amount)
          BY <2>4, <2>5, <3>1, <4>2
        <4> QED
          BY <3>1, <4>1, <4>3
      <3>2. CASE i # 1
        <4>1. i - 1 >= 1 /\ 1 \in 1 .. m
          BY <2>0, <3>2
        <4>2. r.hops[1].pool # h.pool
          BY <1>0, <3>2, <4>1
        <4>3. s.pools[r.hops[1].pool] = Sw
          BY <1>3, <4>1
        <4>4. r.hops[1].pool \in DOMAIN s.pools
          BY <1>0, <2>6, <4>1
        <4>5. [s.pools EXCEPT ![h.pool] = c][r.hops[1].pool] = s.pools[r.hops[1].pool]
          <5> HIDE DEF s, h, c
          <5> QED
            BY <4>2, <4>4
        <4> QED
          BY <2>2, <4>3, <4>5
      <3> QED
        BY <3>1, <3>2
    <2> QED
      BY <2>7, <2>8, <2>9, <2>10
  <1>4. ASSUME ~At(m) PROVE FALSE
    <2> DEFINE Bad == {i \in 0 .. m : ~At(i)}
    <2>1. PICK j \in Bad : \A k \in Bad : ~(k < j)
      <3>1. Bad \subseteq Nat /\ Bad # {}
        <4> HIDE DEF At
        <4> QED
          BY <1>4
      <3> HIDE DEF Bad
      <3> QED
        BY <3>1, LeastNat
    <2> HIDE DEF At
    <2>2. j # 0 /\ j \in 1 .. m /\ j - 1 \in 0 .. m /\ j - 1 < j
      BY <1>2, <2>1
    <2>3. At(j - 1)
      BY <2>1, <2>2
    <2> QED
      BY <1>3, <2>1, <2>2, <2>3
  <1>5. Searching!AmountIn(r, m + 1) = r.hops[m].amount
    BY DEF Searching!AmountIn
  <1>6. after[m].amount = r.hops[m].amount /\ after[m].pools[r.hops[1].pool] = Sw
    <2>1. At(m)
      BY <1>4
    <2> QED
      BY <1>5, <2>1
  <1> QED
    BY <1>1, <1>6 DEF Carried

\* What RoutesPay asks of a route.
Sound(r) == Searching!Closed(r) /\ Searching!Replay(r).amount >= r.borrow + r.gross /\ r.net > 0

Apart(n, ps) == \A i, j \in 1 .. n : i # j => ps[i] # ps[j]

HopCount(r) == Len(r.hops)

\* A profitable route around different pools pays what it claims.
LEMMA AroundPays ==
    ASSUME Stocked, NEW n, NEW ps, NEW d, Around(n, ps, d), Apart(n, ps),
           NEW amount \in Nat, NEW cost, NEW strategy,
           NEW r, r = Searching!Candidate(ps, d[1], amount, cost, strategy), r.net > 0
    PROVE  /\ Sound(r) /\ r.hops[1].in = d[1] /\ HopCount(r) = n
           /\ r.strategy = strategy /\ r.borrow = amount
  <1>0. n \in Nat /\ n >= 2 /\ 1 \in 1 .. n /\ n \in 1 .. n
    BY DEF Around
  <1>1. Chained(r, n, ps, d) /\ Searching!Closed(r) /\ r.borrow = amount /\ r.strategy = strategy
    BY HopsFollow
  <1>2. ASSUME NEW i \in 1 .. n
        PROVE  /\ r.hops[i].pool = ps[i] /\ r.hops[i].in = d[i]
               /\ r.hops[i].amount = Searching!QuoteAt(ps[i], pools[ps[i]], d[i], Searching!AmountIn(r, i))
               /\ ps[i] \in DOMAIN pools /\ r.hops[i].amount \in Nat
    <2>1. r.hops[i] = Searching!Hop(ps[i], d[i], Searching!Quote(ps[i], d[i], Searching!AmountIn(r, i))) /\ r.hops[i].amount \in Nat
      BY <1>1 DEF Chained
    <2>2. ps[i] \in Searching!PoolIds
      BY DEF Around
    <2> QED
      BY <2>1, <2>2 DEF Searching!Hop, Searching!Quote, Stocked
  <1>3. Carried(pools, r, n, n)
    <2>1. Len(r.hops) = n
      BY <1>1 DEF Chained
    <2>2. Fresh(pools, r, n)
      BY <1>2 DEF Apart, Fresh
    <2> QED
      BY <1>0, <2>1, <2>2, ReplayPrefix
  <1>4. Searching!Replay(r).amount = r.hops[n].amount
    BY <1>3 DEF Carried, Searching!Replay
  <1>5. Searching!Replay(r).amount >= r.borrow + r.gross
    BY <1>0, <1>1, <1>2, <1>4 DEF Chained
  <1> QED
    BY <1>0, <1>1, <1>2, <1>5 DEF Chained, HopCount, Sound

-----------------------------------------------------------------------------
(* Trips through two and through three pools.                              *)

LEMMA SamePair ==
    ASSUME NEW p, NEW q, Searching!KeyOf(p) = Searching!KeyOf(q)
    PROVE  {Pools[p].a, Pools[p].b} = {Pools[q].a, Pools[q].b}
  <1>1. \A t, u : Searching!PairKey(t, u) = <<t, u>> \/ Searching!PairKey(t, u) = <<u, t>>
    BY DEF Searching!PairKey
  <1>2. \/ Searching!KeyOf(p) = <<Pools[p].a, Pools[p].b>>
        \/ Searching!KeyOf(p) = <<Pools[p].b, Pools[p].a>>
    BY <1>1 DEF Searching!KeyOf
  <1>3. \/ Searching!KeyOf(q) = <<Pools[q].a, Pools[q].b>>
        \/ Searching!KeyOf(q) = <<Pools[q].b, Pools[q].a>>
    BY <1>1 DEF Searching!KeyOf
  <1> QED
    BY <1>2, <1>3

LEMMA KeyTokens ==
    ASSUME NEW p
    PROVE  {Searching!KeyOf(p)[1], Searching!KeyOf(p)[2]} = {Pools[p].a, Pools[p].b}
  BY DEF Searching!KeyOf, Searching!PairKey

\* What the found routes are known to be.
Fit(r) ==
    /\ r.strategy \notin {"liquidity-event", "whale_backrun"} => Sound(r)
    /\ r.strategy \notin {"stablecoin_arb", "liquidity-event", "stale-oracle"} =>
         r.hops[1].in \in Searching!Borrowable(r)
    /\ r.strategy = "whale_backrun" /\ ~Searching!Concentrated(r.hops[2].pool) =>
         Searching!Closed(r) /\ Searching!ReplayFrom(Searching!AfterWhale(r), r).amount >= r.borrow + r.gross

LEMMA PairTrip ==
    ASSUME Stocked, NEW p \in Searching!PoolIds, NEW q \in Searching!PoolIds, p # q, Searching!KeyOf(p) = Searching!KeyOf(q),
           NEW t \in {Pools[p].a, Pools[p].b}, NEW amount \in Nat, NEW cost, NEW strategy,
           NEW r, r = Searching!Candidate(<<p, q>>, t, amount, cost, strategy), r.net > 0
    PROVE  Sound(r) /\ r.hops[1].in = t /\ Len(r.hops) = 2 /\ r.strategy = strategy
  <1> DEFINE u == Searching!Opposite(p, t)
  <1> SUFFICES ASSUME NEW ps, ps = <<p, q>>, NEW d, d = <<t, u>>
               PROVE  Sound(r) /\ r.hops[1].in = t /\ Len(r.hops) = 2 /\ r.strategy = strategy
    OBVIOUS
  <1>1. u \in {Pools[p].a, Pools[p].b} /\ u # t
    BY Sides
  <1>2. u \in {Pools[q].a, Pools[q].b} /\ t \in {Pools[q].a, Pools[q].b}
    BY <1>1, SamePair
  <1>3. Searching!Opposite(q, u) = t
    BY <1>1, <1>2 DEF Searching!Opposite
  <1>4. Around(2, ps, d)
    BY <1>2, <1>3 DEF Around
  <1>5. r = Searching!Candidate(ps, d[1], amount, cost, strategy)
    OBVIOUS
  <1>6. Apart(2, ps)
    BY DEF Apart
  <1>7. d[1] = t
    OBVIOUS
  <1>8. Sound(r) /\ r.hops[1].in = d[1] /\ HopCount(r) = 2 /\ r.strategy = strategy
    BY <1>4, <1>5, <1>6, AroundPays
  <1> QED
    BY <1>7, <1>8 DEF HopCount

LEMMA TripleTrip ==
    ASSUME Stocked, NEW p \in Searching!PoolIds, NEW q \in Searching!PoolIds, NEW s \in Searching!PoolIds,
           p # q, q # s, s # p, NEW t, Searching!Trades(p, t), Searching!Trades(q, Searching!Opposite(p, t)),
           Searching!Trades(s, Searching!Opposite(q, Searching!Opposite(p, t))),
           Searching!Opposite(s, Searching!Opposite(q, Searching!Opposite(p, t))) = t,
           NEW ps, DOMAIN ps = 1 .. 3, ps[1] = p, ps[2] = q, ps[3] = s,
           NEW amount \in Nat, NEW cost, NEW strategy,
           NEW r, r = Searching!Candidate(ps, t, amount, cost, strategy), r.net > 0
    PROVE  Sound(r) /\ r.hops[1].in = t /\ Len(r.hops) = 3 /\ r.strategy = strategy
  <1> DEFINE u == Searching!Opposite(p, t)
             v == Searching!Opposite(q, u)
  <1> SUFFICES ASSUME NEW d, d = <<t, u, v>>
               PROVE  Sound(r) /\ r.hops[1].in = t /\ Len(r.hops) = 3 /\ r.strategy = strategy
    OBVIOUS
  <1>4. Around(3, ps, d)
    BY DEF Around, Searching!Trades
  <1>5. r = Searching!Candidate(ps, d[1], amount, cost, strategy)
    OBVIOUS
  <1>6. Apart(3, ps)
    BY DEF Apart
  <1>7. d[1] = t
    OBVIOUS
  <1>8. Sound(r) /\ r.hops[1].in = d[1] /\ HopCount(r) = 3 /\ r.strategy = strategy
    BY <1>4, <1>5, <1>6, AroundPays
  <1> QED
    BY <1>7, <1>8 DEF HopCount

LEMMA FitTrip ==
    ASSUME Stocked, NEW p \in Searching!PoolIds, NEW q \in Searching!PoolIds, p # q, Searching!KeyOf(p) = Searching!KeyOf(q),
           NEW t \in {Pools[p].a, Pools[p].b}, NEW amount \in Nat, NEW cost, NEW strategy,
           strategy \notin {"liquidity-event", "whale_backrun"},
           t \in Searching!Anchors \/ strategy \in {"stablecoin_arb", "stale-oracle"},
           NEW r, r = Searching!Candidate(<<p, q>>, t, amount, cost, strategy), r.net > 0
    PROVE  Fit(r)
  <1>1. Sound(r) /\ r.hops[1].in = t /\ Len(r.hops) = 2 /\ r.strategy = strategy
    BY PairTrip
  <1> QED
    BY <1>1 DEF Fit, Searching!Borrowable

LEMMA SizesFacts == /\ \A x \in Searching!Sizes : x \in Nat
                    /\ Searching!Reference \in Nat
                    /\ \A i \in DOMAIN Amounts : Amounts[i] \in Searching!Sizes /\ Amounts[i] \in Nat
  <1>1. Amounts \in Seq(Nat) /\ Amounts # <<>>
    BY PoolAssumption
  <1>2. \A i \in DOMAIN Amounts : Amounts[i] \in Nat
    BY <1>1
  <1>3. 1 \in DOMAIN Amounts
    BY <1>1
  <1> QED
    BY <1>2, <1>3 DEF Searching!Sizes, Searching!Reference, Searching!Range

LEMMA RateNat ==
    ASSUME Stocked, NEW p \in Searching!PoolIds, NEW t, NEW amount \in Nat
    PROVE  Searching!Quote(p, t, amount) \in Nat
  <1>1. pools[p] \in Stock
    BY StockedFacts
  <1>2. SideOf(p, pools[p], t) \in Nat /\ AwayFrom(p, pools[p], t) \in Nat
    BY <1>1 DEF Stock, SideOf, AwayFrom
  <1> QED
    BY <1>2, QuoteNat DEF Searching!Quote

\* The trips of a pair in both directions.
LEMMA DirectionsFit ==
    ASSUME Stocked, NEW pair, pair[1] \in Searching!PoolIds, pair[2] \in Searching!PoolIds, pair[1] # pair[2],
           NEW key, Searching!KeyOf(pair[1]) = key, Searching!KeyOf(pair[2]) = key,
           NEW strategy, strategy \notin {"liquidity-event", "whale_backrun"},
           NEW routes \in Searching!Directions(pair, key, strategy), NEW r \in routes
    PROVE  Fit(r)
  <1>1. PICK t \in {key[1], key[2]} \cap Searching!Anchors :
          routes = UNION {IF t = key[1] THEN Searching!BuildCrossDexRoute(pair[1], pair[2], t, x, strategy)
                          ELSE Searching!BuildCrossDexRouteReverse(pair[2], pair[1], t, x, strategy) : x \in Searching!Sizes}
    BY DEF Searching!Directions
  <1>2. PICK x \in Searching!Sizes : r \in IF t = key[1] THEN Searching!BuildCrossDexRoute(pair[1], pair[2], t, x, strategy)
                                 ELSE Searching!BuildCrossDexRouteReverse(pair[2], pair[1], t, x, strategy)
    BY <1>1
  <1>3. x \in Nat
    BY SizesFacts
  <1>4. t \in {Pools[pair[1]].a, Pools[pair[1]].b} /\ t \in {Pools[pair[2]].a, Pools[pair[2]].b}
    BY KeyTokens
  <1>5. CASE r \in Searching!BuildCrossDexRoute(pair[1], pair[2], t, x, strategy)
    <2>1. r = Searching!Candidate(<<pair[1], pair[2]>>, t, x, 2 * TxFee, strategy) /\ r.net > 0
      BY <1>5 DEF Searching!BuildCrossDexRoute
    <2> QED
      BY <1>3, <1>4, <2>1, FitTrip
  <1>6. CASE r \in Searching!BuildCrossDexRouteReverse(pair[2], pair[1], t, x, strategy)
    <2>1. r = Searching!Candidate(<<pair[2], pair[1]>>, t, x, 2 * TxFee, strategy) /\ r.net > 0
      BY <1>6 DEF Searching!BuildCrossDexRouteReverse
    <2> QED
      BY <1>3, <1>4, <2>1, FitTrip
  <1> QED
    BY <1>2, <1>5, <1>6

LEMMA BestSizesFit ==
    ASSUME Stocked, NEW pair, pair[1] \in Searching!PoolIds, pair[2] \in Searching!PoolIds, pair[1] # pair[2],
           NEW key, Searching!KeyOf(pair[1]) = key, Searching!KeyOf(pair[2]) = key,
           NEW strategy, strategy \notin {"liquidity-event", "whale_backrun"},
           NEW r \in Searching!BestSizes(pair, key, strategy)
    PROVE  Fit(r)
  <1>1. PICK routes \in Searching!Directions(pair, key, strategy) : r \in Searching!BestOf(routes)
    BY DEF Searching!BestSizes
  <1>2. r \in routes
    BY <1>1 DEF Searching!BestOf
  <1> QED
    BY <1>2, DirectionsFit

LEMMA ExtremesDiffer ==
    ASSUME Stocked, NEW S, S \subseteq Searching!PoolIds, NEW t, NEW pair \in Searching!Extremes(S, t)
    PROVE  pair[1] \in S /\ pair[2] \in S /\ pair[1] # pair[2]
           /\ pair[1] \in Searching!PoolIds /\ pair[2] \in Searching!PoolIds
  <1>1. pair[1] \in S /\ pair[2] \in S /\ Searching!Rate(pair[1], t) > Searching!Rate(pair[2], t)
    BY DEF Searching!Extremes
  <1>2. Searching!Rate(pair[1], t) \in Nat
    BY <1>1, RateNat, SizesFacts DEF Searching!Rate
  <1> QED
    BY <1>1, <1>2

-----------------------------------------------------------------------------
(* The scanners that compare two pools.                                    *)

LEMMA ExtremeSizesFit ==
    ASSUME Stocked, NEW S, S \subseteq Searching!PoolIds, NEW key, \A p \in S : Searching!KeyOf(p) = key,
           NEW t, NEW pair \in Searching!Extremes(S, t),
           NEW strategy, strategy \notin {"liquidity-event", "whale_backrun"}
    PROVE  /\ \A r \in Searching!BestSizes(pair, key, strategy) : Fit(r)
           /\ \A routes \in Searching!Directions(pair, key, strategy) : \A r \in routes : Fit(r)
  <1>1. /\ pair[1] \in Searching!PoolIds /\ pair[2] \in Searching!PoolIds /\ pair[1] # pair[2]
        /\ Searching!KeyOf(pair[1]) = key /\ Searching!KeyOf(pair[2]) = key
    BY ExtremesDiffer
  <1>2. \A r \in Searching!BestSizes(pair, key, strategy) : Fit(r)
    BY <1>1, BestSizesFit
  <1>3. \A routes \in Searching!Directions(pair, key, strategy) : \A r \in routes : Fit(r)
    BY <1>1, DirectionsFit
  <1> QED
    BY <1>2, <1>3

LEMMA CrossDexFit ==
    ASSUME Stocked, NEW r \in Searching!ScanCrossDex
    PROVE  Fit(r)
  <1>1. PICK key : \E pair \in Searching!Extremes(Searching!CrossDexPools(key), key[1]) : r \in Searching!BestSizes(pair, key, "cross-dex")
    BY DEF Searching!ScanCrossDex, Searching!NotFragile
  <1>2. Searching!CrossDexPools(key) \subseteq Searching!PoolIds /\ \A p \in Searching!CrossDexPools(key) : Searching!KeyOf(p) = key
    BY DEF Searching!CrossDexPools
  <1> QED
    BY <1>1, <1>2, ExtremeSizesFit

LEMMA PairFit ==
    ASSUME Stocked, NEW key, NEW r \in Searching!ScanPair(key)
    PROVE  Fit(r)
  <1>1. PICK pair \in Searching!Extremes(Searching!PairPools(key), key[1]) :
          \E routes \in Searching!Directions(pair, key, "whale-backrun") : r \in routes
    BY DEF Searching!ScanPair, Searching!NotFragile
  <1>2. Searching!PairPools(key) \subseteq Searching!PoolIds /\ \A p \in Searching!PairPools(key) : Searching!KeyOf(p) = key
    BY DEF Searching!PairPools
  <1> QED
    BY <1>1, <1>2, ExtremeSizesFit

LEMMA HotRoutesFit ==
    ASSUME Stocked, NEW r \in Searching!ScanHotRoutes
    PROVE  Fit(r)
  <1>1. PICK hr \in HotRoutes :
          \E pair \in Searching!Extremes({hr.pools[1], hr.pools[2]}, Searching!PairKey(hr.tokens[1], hr.tokens[2])[1]) :
             r \in Searching!BestSizes(pair, Searching!PairKey(hr.tokens[1], hr.tokens[2]), "hot-route")
    BY DEF Searching!ScanHotRoutes, Searching!NotFragile
  <1>2. /\ {hr.pools[1], hr.pools[2]} \subseteq Searching!PoolIds
        /\ \A p \in {hr.pools[1], hr.pools[2]} : Searching!KeyOf(p) = Searching!PairKey(hr.tokens[1], hr.tokens[2])
    BY HotAssumption DEF Searching!PoolIds
  <1> QED
    BY <1>1, <1>2, ExtremeSizesFit

LEMMA LstFit ==
    ASSUME Stocked, NEW r \in Searching!ScanLst
    PROVE  Fit(r)
  <1>1. PICK key : \E pair \in Searching!RatioExtremes(Searching!LstPools(key), key[1], key[2]) :
                     \E routes \in Searching!Directions(pair, key, "lst-arb") : r \in routes
    <2>1. PICK key : \E pair \in Searching!RatioExtremes(Searching!LstPools(key), key[1], key[2]) :
            r \in Searching!BestOf({s \in UNION Searching!Directions(pair, key, "lst-arb") :
                             s.hops[1].in = Wsol /\ Searching!Plausible(s, 2)})
      <3>1. PICK key \in Searching!LstKeys :
              r \in UNION {Searching!BestOf({s \in UNION Searching!Directions(pair, key, "lst-arb") :
                                      s.hops[1].in = Wsol /\ Searching!Plausible(s, 2)}) :
                     pair \in {e \in Searching!RatioExtremes(Searching!LstPools(key), key[1], key[2]) :
                                Searching!RatioDiverges(e[1], e[2], key[1], key[2],
                                              Searching!DexFeeBps(e[1]) + Searching!DexFeeBps(e[2]) + 10)}}
        BY DEF Searching!ScanLst
      <3> QED
        BY <3>1
    <2> QED
      BY <2>1 DEF Searching!BestOf
  <1>2. PICK pair \in Searching!RatioExtremes(Searching!LstPools(key), key[1], key[2]) :
          \E routes \in Searching!Directions(pair, key, "lst-arb") : r \in routes
    BY <1>1
  <1>3. /\ pair[1] \in Searching!PoolIds /\ pair[2] \in Searching!PoolIds
        /\ Searching!KeyOf(pair[1]) = key /\ Searching!KeyOf(pair[2]) = key
    BY DEF Searching!RatioExtremes, Searching!LstPools
  <1>4. pair[1] # pair[2]
    <2> DEFINE x == Searching!ReserveOf(pair[1], key[2])
               y == Searching!ReserveOf(pair[1], key[1])
    <2>1. x \in Nat /\ y \in Nat
      BY <1>3, StockedFacts DEF Stock, Searching!ReserveOf
    <2>2. ASSUME pair[1] = pair[2] PROVE x * y > x * y
      BY <2>2 DEF Searching!RatioExtremes
    <2> HIDE DEF x, y
    <2> QED
      BY <2>1, <2>2
  <1> QED
    BY <1>2, <1>3, <1>4, DirectionsFit

LEMMA BinFit ==
    ASSUME Stocked, NEW r \in Searching!ScanBinDivergence
    PROVE  Fit(r)
  <1>1. PICK wp \in Searching!PoolIds, d \in Searching!PoolIds :
          /\ Searching!KeyOf(d) = Searching!KeyOf(wp)
          /\ \E pair \in Searching!Extremes({wp, d}, Searching!KeyOf(wp)[1]) :
                \E routes \in Searching!Directions(pair, Searching!KeyOf(wp), "dlmm_whirlpool_arb") : r \in routes
    <2>1. PICK wp \in Searching!PoolIds, d \in Searching!PoolIds :
            /\ Searching!KeyOf(d) = Searching!KeyOf(wp)
            /\ \E pair \in Searching!Extremes({wp, d}, Searching!KeyOf(wp)[1]) :
                 \E routes \in Searching!Directions(pair, Searching!KeyOf(wp), "dlmm_whirlpool_arb") :
                    r \in Searching!BestOf({s \in routes : Searching!Plausible(s, 3)})
      <3> DEFINE bins == {p \in Searching!PoolIds : Pools[p].dex = "meteora" /\ Pools[p].meta /\ ~Searching!Dust(p)}
      <3>1. PICK wp \in Searching!PoolIds :
              r \in UNION {Searching!BestOf({s \in routes : Searching!Plausible(s, 3)}) :
                       routes \in UNION {Searching!Directions(pair, Searching!KeyOf(wp), "dlmm_whirlpool_arb") :
                           pair \in {e \in UNION {Searching!Extremes({wp, d}, Searching!KeyOf(wp)[1]) :
                                                    d \in {b \in bins : Searching!KeyOf(b) = Searching!KeyOf(wp)}} :
                                        /\ Searching!Rate(e[1], Searching!KeyOf(wp)[1]) > 0 /\ Searching!Rate(e[2], Searching!KeyOf(wp)[1]) > 0
                                        /\ Searching!Diverges(e, Searching!KeyOf(wp)[1], 20)}}}
        BY DEF Searching!ScanBinDivergence
      <3>2. PICK pair \in UNION {Searching!Extremes({wp, d}, Searching!KeyOf(wp)[1]) :
                                 d \in {b \in bins : Searching!KeyOf(b) = Searching!KeyOf(wp)}} :
              \E routes \in Searching!Directions(pair, Searching!KeyOf(wp), "dlmm_whirlpool_arb") :
                  r \in Searching!BestOf({s \in routes : Searching!Plausible(s, 3)})
        BY <3>1
      <3>3. PICK d \in bins : Searching!KeyOf(d) = Searching!KeyOf(wp) /\ pair \in Searching!Extremes({wp, d}, Searching!KeyOf(wp)[1])
        BY <3>2
      <3>4. d \in Searching!PoolIds
        OBVIOUS
      <3> QED
        BY <3>2, <3>3, <3>4
    <2> QED
      BY <2>1 DEF Searching!BestOf
  <1>2. {wp, d} \subseteq Searching!PoolIds /\ \A p \in {wp, d} : Searching!KeyOf(p) = Searching!KeyOf(wp)
    BY <1>1
  <1> QED
    BY <1>1, <1>2, ExtremeSizesFit

LEMMA GraduationFit ==
    ASSUME Stocked, NEW token, NEW r \in Searching!ScanGraduation(token)
    PROVE  Fit(r)
  <1>0. PICK key : \E p, q \in Searching!GraduationPools(token, key) :
          /\ Searching!Rate(p, key[1]) > Searching!Rate(q, key[1])
          /\ r \in Searching!BestSizes(<<p, q>>, key, "pump_graduation_arb")
    BY DEF Searching!ScanGraduation
  <1>1. PICK p \in Searching!GraduationPools(token, key), q \in Searching!GraduationPools(token, key) :
          /\ Searching!Rate(p, key[1]) > Searching!Rate(q, key[1])
          /\ r \in Searching!BestSizes(<<p, q>>, key, "pump_graduation_arb")
    BY <1>0
  <1>2. p \in Searching!PoolIds /\ q \in Searching!PoolIds /\ Searching!KeyOf(p) = key /\ Searching!KeyOf(q) = key
    BY <1>1 DEF Searching!GraduationPools
  <1>3. p # q
    <2>1. Searching!Rate(p, key[1]) \in Nat
      BY <1>2, RateNat, SizesFacts DEF Searching!Rate
    <2> QED
      BY <1>1, <2>1
  <1>4. <<p, q>>[1] = p /\ <<p, q>>[2] = q
    OBVIOUS
  <1> QED
    BY <1>1, <1>2, <1>3, <1>4, BestSizesFit

LEMMA TokensOf ==
    ASSUME NEW p, NEW t, NEW u, Searching!KeyOf(p) = Searching!PairKey(t, u)
    PROVE  {Pools[p].a, Pools[p].b} = {t, u}
  BY DEF Searching!KeyOf, Searching!PairKey

LEMMA RoundTripFit ==
    ASSUME Stocked, NEW p \in Searching!PoolIds, NEW q \in Searching!PoolIds, p # q, Searching!KeyOf(p) = Searching!KeyOf(q),
           NEW t \in {Pools[p].a, Pools[p].b}, NEW amount \in Nat,
           NEW depth, NEW impact, NEW cap, NEW strategy,
           strategy \notin {"liquidity-event", "whale_backrun"},
           t \in Searching!Anchors \/ strategy \in {"stablecoin_arb", "stale-oracle"},
           NEW r \in Searching!BuildRoundTrip(p, q, t, amount, depth, impact, cap, strategy)
    PROVE  Fit(r)
  <1>1. r = Searching!Candidate(<<p, q>>, t, amount, 2 * TxFee, strategy) /\ r.net > 0
    BY DEF Searching!BuildRoundTrip
  <1> QED
    BY <1>1, FitTrip

LEMMA StableFit ==
    ASSUME Stocked, NEW stable, NEW r \in Searching!ScanStablePair(stable)
    PROVE  Fit(r)
  <1>1. PICK p \in Searching!StablePools(stable), q \in Searching!StablePools(stable) :
          /\ p # q
          /\ \E x \in Searching!Sizes :
                \/ r \in Searching!BuildRoundTrip(q, p, stable, x, 5, 5, 2, "stablecoin_arb")
                \/ r \in Searching!BuildRoundTrip(p, q, Wsol, x, 5, 5, 2, "stablecoin_arb")
    BY DEF Searching!ScanStablePair
  <1>2. PICK x \in Searching!Sizes :
          \/ r \in Searching!BuildRoundTrip(q, p, stable, x, 5, 5, 2, "stablecoin_arb")
          \/ r \in Searching!BuildRoundTrip(p, q, Wsol, x, 5, 5, 2, "stablecoin_arb")
    BY <1>1
  <1>3. /\ p \in Searching!PoolIds /\ q \in Searching!PoolIds
        /\ Searching!KeyOf(p) = Searching!PairKey(Wsol, stable) /\ Searching!KeyOf(q) = Searching!PairKey(Wsol, stable)
    BY <1>1 DEF Searching!StablePools
  <1>4. stable \in {Pools[q].a, Pools[q].b} /\ Wsol \in {Pools[p].a, Pools[p].b}
    BY <1>3, TokensOf
  <1>5. x \in Nat
    BY SizesFacts
  <1>6. CASE r \in Searching!BuildRoundTrip(q, p, stable, x, 5, 5, 2, "stablecoin_arb")
    BY <1>1, <1>3, <1>4, <1>5, <1>6, RoundTripFit
  <1>7. CASE r \in Searching!BuildRoundTrip(p, q, Wsol, x, 5, 5, 2, "stablecoin_arb")
    BY <1>1, <1>3, <1>4, <1>5, <1>7, RoundTripFit
  <1> QED
    BY <1>2, <1>6, <1>7

LEMMA TickFit ==
    ASSUME Stocked, NEW p \in Searching!PoolIds, NEW price, NEW r \in Searching!ScanTickCrossing(p, price)
    PROVE  Fit(r)
  <1>1. Searching!Concentrated(p)
    BY DEF Searching!ScanTickCrossing
  <1>2. PICK q \in Searching!PoolIds, t \in {Pools[p].a, Pools[p].b} \cap Searching!Anchors, x \in Searching!Sizes :
          /\ Searching!KeyOf(q) = Searching!KeyOf(p) /\ Pools[q].dex = "raydium"
          /\ \/ r \in Searching!BuildRoundTrip(p, q, t, x, 10, 10, 5, "clmm_tick_arb")
             \/ r \in Searching!BuildRoundTrip(q, p, t, x, 10, 10, 5, "clmm_tick_arb")
    BY DEF Searching!ScanTickCrossing
  <1>3. p # q
    BY <1>1, <1>2 DEF Searching!Concentrated
  <1>4. x \in Nat /\ t \in {Pools[q].a, Pools[q].b}
    BY <1>2, SizesFacts, SamePair
  <1>5. CASE r \in Searching!BuildRoundTrip(p, q, t, x, 10, 10, 5, "clmm_tick_arb")
    BY <1>2, <1>3, <1>4, <1>5, RoundTripFit
  <1>6. CASE r \in Searching!BuildRoundTrip(q, p, t, x, 10, 10, 5, "clmm_tick_arb")
    BY <1>2, <1>3, <1>4, <1>6, RoundTripFit
  <1> QED
    BY <1>2, <1>5, <1>6

LEMMA OracleFit ==
    ASSUME Stocked, NEW p \in Searching!PoolIds, NEW r \in Searching!ScanOracleLag(p)
    PROVE  Fit(r)
  <1>1. PICK q \in Searching!PoolIds, x \in Searching!Sizes :
          /\ q # p /\ Pools[q].a = Pools[p].a /\ Pools[q].b = Pools[p].b
          /\ \/ r = Searching!Candidate(<<p, q>>, Pools[p].a, x, 2 * TxFee, "stale-oracle")
             \/ r = Searching!Candidate(<<q, p>>, Pools[p].a, x, 2 * TxFee, "stale-oracle")
          /\ r.net > 0
    BY DEF Searching!ScanOracleLag
  <1>2. Searching!KeyOf(q) = Searching!KeyOf(p) /\ x \in Nat
    BY <1>1, SizesFacts DEF Searching!KeyOf
  <1>3. CASE r = Searching!Candidate(<<p, q>>, Pools[p].a, x, 2 * TxFee, "stale-oracle")
    BY <1>1, <1>2, <1>3, FitTrip
  <1>4. CASE r = Searching!Candidate(<<q, p>>, Pools[p].a, x, 2 * TxFee, "stale-oracle")
    BY <1>1, <1>2, <1>4, FitTrip
  <1> QED
    BY <1>1, <1>3, <1>4

LEMMA EventFit ==
    ASSUME NEW p, NEW r \in Searching!ScanLiquidityEvent(p)
    PROVE  Fit(r)
  <1>1. \A p1, p2, x : Searching!EventRoute(p1, p2, x).strategy = "liquidity-event"
    BY DEF Searching!EventRoute
  <1>2. \E p1, p2, x : r = Searching!EventRoute(p1, p2, x)
    BY DEF Searching!ScanLiquidityEvent
  <1>3. r.strategy = "liquidity-event"
    BY <1>1, <1>2
  <1> QED
    BY <1>3 DEF Fit

\* The pools of a pair lead around, whichever comes first.
LEMMA PairAround ==
    ASSUME NEW p \in Searching!PoolIds, NEW q \in Searching!PoolIds, Searching!KeyOf(p) = Searching!KeyOf(q),
           NEW t \in {Pools[p].a, Pools[p].b}
    PROVE  Around(2, <<p, q>>, <<t, Searching!Opposite(p, t)>>)
  <1> DEFINE u == Searching!Opposite(p, t)
  <1> SUFFICES ASSUME NEW ps, ps = <<p, q>>, NEW d, d = <<t, u>> PROVE Around(2, ps, d)
    OBVIOUS
  <1>1. u \in {Pools[p].a, Pools[p].b} /\ u # t
    BY Sides
  <1>2. u \in {Pools[q].a, Pools[q].b} /\ t \in {Pools[q].a, Pools[q].b}
    BY <1>1, SamePair
  <1>3. Searching!Opposite(q, u) = t
    BY <1>1, <1>2 DEF Searching!Opposite
  <1> QED
    BY <1>2, <1>3 DEF Around

Counted(r) == r.net \in Int /\ r.gross \in Int

LEMMA NetInt ==
    ASSUME Stocked, NEW n, NEW ps, NEW d, Around(n, ps, d),
           NEW amount \in Nat, NEW cost \in Int, NEW strategy,
           NEW r, r = Searching!Candidate(ps, d[1], amount, cost, strategy)
    PROVE  Counted(r)
  <1>1. Chained(r, n, ps, d) /\ r.borrow = amount /\ r.net = r.gross - cost
    BY HopsFollow
  <1>2. n \in 1 .. n
    BY DEF Around
  <1>3. r.hops[n].amount \in Nat /\ r.gross = r.hops[n].amount - r.borrow
    BY <1>1, <1>2 DEF Chained
  <1> QED
    BY <1>1, <1>3 DEF Counted

LEMMA PairNet ==
    ASSUME Stocked, NEW p \in Searching!PoolIds, NEW q \in Searching!PoolIds, Searching!KeyOf(p) = Searching!KeyOf(q),
           NEW t \in {Pools[p].a, Pools[p].b}, NEW amount \in Nat,
           NEW cost \in Int, NEW strategy, NEW r, r = Searching!Candidate(<<p, q>>, t, amount, cost, strategy)
    PROVE  r.net \in Int
  <1> SUFFICES ASSUME NEW ps, ps = <<p, q>>, NEW d, d = <<t, Searching!Opposite(p, t)>> PROVE r.net \in Int
    OBVIOUS
  <1>1. Around(2, ps, d)
    BY PairAround
  <1>2. r = Searching!Candidate(ps, d[1], amount, cost, strategy)
    OBVIOUS
  <1>3. Counted(r)
    BY <1>1, <1>2, NetInt
  <1> QED
    BY <1>3 DEF Counted

\* The counterparts of the index are other pools of the same pair.
Indexed ==
    /\ DOMAIN index \subseteq Searching!PoolIds
    /\ \A p \in DOMAIN index : \A q \in index[p] : q \in Searching!PoolIds /\ q # p /\ Searching!KeyOf(q) = Searching!KeyOf(p)

LEMMA UpdateFit ==
    ASSUME Stocked, Indexed, NEW p \in Searching!Scanned, NEW r \in Searching!ScanUpdate(p)
    PROVE  Fit(r)
  <1> DEFINE anchor == IF Searching!Trades(p, Wsol) THEN Wsol ELSE Usdc
  <1>1. PICK q \in index[p], i \in DOMAIN Amounts : r \in Searching!UpdateRoute(p, q, anchor, Amounts[i])
    BY DEF Searching!ScanUpdate
  <1>2. p \in DOMAIN index /\ anchor \in {Pools[p].a, Pools[p].b} /\ anchor \in Searching!Anchors
    BY DEF Searching!Scanned, Searching!Trades, Searching!Anchors
  <1>3. p \in Searching!PoolIds /\ q \in Searching!PoolIds /\ q # p /\ Searching!KeyOf(q) = Searching!KeyOf(p) /\ Amounts[i] \in Nat
    BY <1>2, SizesFacts DEF Indexed
  <1>4. anchor \in {Pools[q].a, Pools[q].b}
    BY <1>2, <1>3, SamePair
  <1> HIDE DEF anchor
  <1>5. PICK buy \in {p, q}, sell \in {p, q} :
          /\ buy # sell
          /\ r = Searching!Candidate(<<buy, sell>>, anchor, Amounts[i], 3 * TxFee, "shred_opp_scan")
          /\ r.net >= TxFee
    BY <1>1, <1>3 DEF Searching!UpdateRoute
  <1>6. TxFee \in Nat \ {0} /\ 3 * TxFee \in Int
    BY PoolAssumption
  <1>7. r.net \in Int
    <2>1. /\ buy \in Searching!PoolIds /\ sell \in Searching!PoolIds /\ Searching!KeyOf(buy) = Searching!KeyOf(sell)
          /\ anchor \in {Pools[buy].a, Pools[buy].b}
      BY <1>2, <1>3, <1>4 DEF anchor
    <2> QED
      BY <1>3, <1>5, <1>6, <2>1, PairNet
  <1>8. r.net > 0
    BY <1>5, <1>6, <1>7
  <1> QED
    BY <1>2, <1>3, <1>4, <1>5, <1>8, FitTrip

-----------------------------------------------------------------------------
(* Backruns.                                                               *)

\* What the whale's swap leaves in the pool it went through.
LEMMA PostSwapFacts ==
    ASSUME Stocked, NEW p \in Searching!PoolIds, NEW t \in {Pools[p].a, Pools[p].b}, NEW amount \in Nat,
           Searching!EffectiveOf(p, t) # 0
    PROVE  /\ SideOf(p, Searching!PostSwap(p, t, amount), t) \in Nat
           /\ AwayFrom(p, Searching!PostSwap(p, t, amount), t) \in Nat
  <1> DEFINE x == SideOf(p, pools[p], t)
             y == AwayFrom(p, pools[p], t)
             got == (y * amount) \div (x + amount)
  <1>1. x \in Nat \ {0} /\ y \in Nat
    <2>1. x \in Nat /\ y \in Nat
      BY StockedFacts DEF Stock, SideOf, AwayFrom
    <2> QED
      BY <2>1 DEF Searching!EffectiveOf, SideOf
  <1>2. got \in Nat /\ got <= y
    <2> HIDE DEF x, y
    <2>1. y * amount \in Nat /\ x + amount \in Nat \ {0}
      BY <1>1
    <2>2. got \in Nat /\ got * (x + amount) <= y * amount
      BY <2>1, DivBounds
    <2> HIDE DEF got
    <2>3. y * amount < (y + 1) * (x + amount)
      BY <1>1
    <2>4. ASSUME got >= y + 1 PROVE FALSE
      <3>1. (y + 1) * (x + amount) <= got * (x + amount)
        BY <1>1, <2>1, <2>2, <2>4
      <3> QED
        BY <1>1, <2>1, <2>2, <2>3, <3>1
    <2> QED
      BY <1>1, <2>2, <2>4
  <1>3. Searching!EffectiveOf(p, t) = x /\ Searching!EffectiveOf(p, Searching!Opposite(p, t)) = y
    BY Sides DEF Searching!EffectiveOf, SideOf, AwayFrom, Searching!Opposite
  <1>4. SideOf(p, Searching!PostSwap(p, t, amount), t) = x + amount
        /\ AwayFrom(p, Searching!PostSwap(p, t, amount), t) = y - got
    <2> DEFINE c == [pools[p] EXCEPT !.ra = pools[p].ea, !.rb = pools[p].eb]
    <2>1. Searching!PostSwap(p, t, amount) = Searching!Swapped(c, p, t, amount, got)
      BY <1>3 DEF Searching!PostSwap
    <2>2. c.ea = pools[p].ea /\ c.eb = pools[p].eb
      BY StockedFacts DEF Stock
    <2> HIDE DEF c, got
    <2>3. /\ SideOf(p, Searching!Swapped(c, p, t, amount, got), t) = SideOf(p, c, t) + amount
          /\ AwayFrom(p, Searching!Swapped(c, p, t, amount, got), t) = AwayFrom(p, c, t) - got
      BY DEF Searching!Swapped, SideOf, AwayFrom
    <2> QED
      BY <2>1, <2>2, <2>3 DEF SideOf, AwayFrom
  <1> HIDE DEF x, y, got
  <1> QED
    BY <1>1, <1>2, <1>4

\* On a pool at constant product the second hop is quoted as the pool would.
LEMMA SellIsQuote ==
    ASSUME NEW p \in Searching!PoolIds, ~Searching!Concentrated(p), NEW t \in {Pools[p].a, Pools[p].b},
           NEW amount, NEW mid
    PROVE  Searching!SellAfter(p, t, amount, mid) = Searching!QuoteAt(p, Searching!PostSwap(p, t, amount), Searching!Opposite(p, t), mid)
  <1> DEFINE c == Searching!PostSwap(p, t, amount)
             u == Searching!Opposite(p, t)
  <1>1. SideOf(p, c, u) = AwayFrom(p, c, t) /\ AwayFrom(p, c, u) = SideOf(p, c, t)
    BY Sides
  <1>2. Searching!QuoteAt(p, c, u, mid) =
          IF AwayFrom(p, c, t) = 0 \/ SideOf(p, c, t) = 0 THEN 0
          ELSE Paid(mid * KeptBy(p), AwayFrom(p, c, t), SideOf(p, c, t))
    BY <1>1, QuoteCases
  <1>3. Searching!SellAfter(p, t, amount, mid) =
          IF SideOf(p, c, t) = 0 \/ AwayFrom(p, c, t) = 0 THEN 0
          ELSE Paid(mid * KeptBy(p), AwayFrom(p, c, t), SideOf(p, c, t))
    <2> HIDE DEF c
    <2> QED
      BY DEF Searching!SellAfter, SideOf, AwayFrom, Paid, KeptBy, c
  <1> QED
    BY <1>2, <1>3

LEMMA BackrunFit ==
    ASSUME Stocked, NEW p \in Searching!PoolIds, NEW t \in {Pools[p].a, Pools[p].b}, NEW amount \in Nat,
           NEW r \in Searching!ScanBackrun(p, t, amount)
    PROVE  Fit(r)
  <1>1. PICK q \in Searching!PoolIds \ {p}, x \in Searching!Sizes :
          /\ Searching!KeyOf(q) = Searching!KeyOf(p) /\ r = Searching!BackrunRoute(p, q, t, amount, x)
          /\ t = Wsol /\ pools[p].ea # 0 /\ pools[p].eb # 0
    BY DEF Searching!ScanBackrun
  <1> DEFINE u == Searching!Opposite(p, t)
             mid == Searching!Quote(q, t, x)
             out == Searching!SellAfter(p, t, amount, mid)
             post == Searching!PostSwap(p, t, amount)
  <1>2. /\ r.hops = <<Searching!Hop(q, t, mid), Searching!Hop(p, u, out)>>
        /\ r.borrow = x /\ r.gross = out - x /\ r.strategy = "whale_backrun" /\ r.whale = amount
    BY <1>1 DEF Searching!BackrunRoute
  <1>3. /\ r.hops[1] = Searching!Hop(q, t, mid) /\ r.hops[2] = Searching!Hop(p, u, out) /\ Len(r.hops) = 2
        /\ r.hops[1].pool = q /\ r.hops[1].in = t /\ r.hops[1].amount = mid
        /\ r.hops[2].pool = p /\ r.hops[2].in = u /\ r.hops[2].amount = out
        /\ r.hops[1].out = Searching!Opposite(q, t) /\ r.hops[2].out = Searching!Opposite(p, u)
    BY <1>2 DEF Searching!Hop
  <1>4. x \in Nat /\ q # p /\ q \in Searching!PoolIds
    BY SizesFacts
  <1>5. mid \in Nat
    BY <1>4, RateNat
  <1>6. t \in {Pools[q].a, Pools[q].b} /\ u \in {Pools[p].a, Pools[p].b} /\ Searching!Opposite(p, u) = t
        /\ Searching!Opposite(q, t) = u
    <2>1. {Pools[p].a, Pools[p].b} = {Pools[q].a, Pools[q].b}
      BY <1>1, SamePair
    <2>2. u \in {Pools[p].a, Pools[p].b} /\ u # t /\ Searching!Opposite(p, u) = t
      BY Sides
    <2>3. Searching!Opposite(q, t) \in {Pools[q].a, Pools[q].b} /\ Searching!Opposite(q, t) # t
      BY <1>4, <2>1, Sides
    <2> QED
      BY <2>1, <2>2, <2>3
  <1> HIDE DEF u, mid, out, post
  <1>7. ASSUME ~Searching!Concentrated(p)
        PROVE  Searching!Closed(r) /\ Searching!ReplayFrom(Searching!AfterWhale(r), r).amount >= r.borrow + r.gross
    <2>1. Searching!Closed(r)
      <3>1. \A i \in 1 .. 2 : Searching!Trades(r.hops[i].pool, r.hops[i].in)
        BY <1>3, <1>6 DEF Searching!Trades
      <3>2. \A i \in 2 .. 2 : r.hops[i].in = r.hops[i - 1].out
        BY <1>3, <1>6
      <3> QED
        BY <1>3, <1>6, <3>1, <3>2 DEF Searching!Closed
    <2>2. Searching!AfterWhale(r) = [pools EXCEPT ![p] = post]
      BY <1>2, <1>3 DEF Searching!AfterWhale, post
    <2>3. p \in DOMAIN pools /\ q \in DOMAIN pools
      BY <1>4 DEF Stocked
    <2>4. Searching!AfterWhale(r)[p] = post /\ Searching!AfterWhale(r)[q] = pools[q]
          /\ p \in DOMAIN Searching!AfterWhale(r) /\ q \in DOMAIN Searching!AfterWhale(r)
      BY <1>4, <2>2, <2>3
    <2>5. Searching!AmountIn(r, 1) = x /\ Searching!AmountIn(r, 2) = mid
      BY <1>2, <1>3 DEF Searching!AmountIn
    <2>6. out = Searching!QuoteAt(p, post, u, mid)
      BY <1>7, SellIsQuote DEF out, post, u
    <2>7. out \in Nat
      <3>1. Searching!EffectiveOf(p, t) # 0
        BY <1>1 DEF Searching!EffectiveOf
      <3>2. SideOf(p, post, t) \in Nat /\ AwayFrom(p, post, t) \in Nat
        BY <3>1, PostSwapFacts DEF post
      <3>3. SideOf(p, post, u) \in Nat /\ AwayFrom(p, post, u) \in Nat
        BY <3>2, Sides DEF u
      <3> QED
        BY <1>5, <2>6, <3>3, QuoteNat
    <2>8. Fresh(Searching!AfterWhale(r), r, HopCount(r))
      <3>1. HopCount(r) = 2
        BY <1>3 DEF HopCount
      <3>2. mid = Searching!QuoteAt(q, pools[q], t, x)
        BY DEF mid, Searching!Quote
      <3> QED
        BY <1>3, <1>4, <2>4, <2>5, <2>6, <3>1, <3>2 DEF Fresh
    <2>9. HopCount(r) \in Nat /\ Len(r.hops) = HopCount(r) /\ HopCount(r) \in 1 .. HopCount(r)
      BY <1>3 DEF HopCount
    <2>10. Carried(Searching!AfterWhale(r), r, HopCount(r), HopCount(r))
      BY <2>8, <2>9, ReplayPrefix
    <2>11. Searching!ReplayFrom(Searching!AfterWhale(r), r).amount = out
      BY <1>3, <2>10 DEF Carried, HopCount
    <2>12. r.borrow + r.gross = out
      BY <1>2, <1>4, <2>7 DEF out
    <2> QED
      BY <2>1, <2>7, <2>11, <2>12
  <1>8. r.hops[1].in \in Searching!Borrowable(r)
    BY <1>1, <1>3 DEF Searching!Borrowable, Searching!Anchors
  <1> QED
    BY <1>2, <1>3, <1>7, <1>8 DEF Fit

-----------------------------------------------------------------------------
(* Triangles.                                                              *)

LEMMA FitTriple ==
    ASSUME Stocked, NEW p \in Searching!PoolIds, NEW q \in Searching!PoolIds, NEW s \in Searching!PoolIds,
           p # q, q # s, s # p, NEW t, Searching!Trades(p, t), Searching!Trades(q, Searching!Opposite(p, t)),
           Searching!Trades(s, Searching!Opposite(q, Searching!Opposite(p, t))),
           Searching!Opposite(s, Searching!Opposite(q, Searching!Opposite(p, t))) = t,
           NEW ps, DOMAIN ps = 1 .. 3, ps[1] = p, ps[2] = q, ps[3] = s,
           NEW amount \in Nat, NEW cost, NEW strategy,
           strategy \notin {"liquidity-event", "whale_backrun"},
           t \in Searching!Anchors \/ (strategy = "hot-route" /\ t = Usdt),
           NEW r, r = Searching!Candidate(ps, t, amount, cost, strategy), r.net > 0
    PROVE  Fit(r)
  <1>1. Sound(r) /\ r.hops[1].in = t /\ Len(r.hops) = 3 /\ r.strategy = strategy
    BY TripleTrip
  <1>2. t \in Searching!Borrowable(r)
    BY <1>1 DEF Searching!Borrowable
  <1> QED
    BY <1>1, <1>2 DEF Fit

LEMMA TriangleLegs ==
    ASSUME NEW anchor \in Searching!Anchors, NEW legs \in Searching!Triangles(anchor)
    PROVE  \E p1, p2, p3 \in Searching!PoolIds : \E x \in {Searching!Opposite(p, anchor) : p \in Searching!PoolIds} \ Searching!Anchors :
             /\ legs = <<p1, p2, p3>>
             /\ {Pools[p1].a, Pools[p1].b} = {anchor, x}
             /\ Searching!Trades(p2, x) /\ Searching!Opposite(p2, x) # anchor
             /\ {Pools[p3].a, Pools[p3].b} = {Searching!Opposite(p2, x), anchor}
  <1> DEFINE First(x) == {p \in Searching!TrianglePools : {Pools[p].a, Pools[p].b} = {anchor, x}}
             xs == {Searching!Opposite(p, anchor) : p \in {q \in Searching!TrianglePools : Searching!Trades(q, anchor)}} \ Searching!Anchors
  <1>1. PICK x \in xs : legs \in UNION {Searching!TrianglesThrough(p1, p2, anchor, x) :
                                         p1 \in Searching!BestPaying(First(x), anchor, Searching!Reference),
                                         p2 \in {q \in Searching!TrianglePools : Searching!Trades(q, x)}}
    BY DEF Searching!Triangles
  <1>2. PICK p1 \in First(x), p2 \in {q \in Searching!TrianglePools : Searching!Trades(q, x)} :
          legs \in Searching!TrianglesThrough(p1, p2, anchor, x)
    BY <1>1 DEF Searching!BestPaying
  <1>3. PICK p3 \in {p \in Searching!TrianglePools : {Pools[p].a, Pools[p].b} = {Searching!Opposite(p2, x), anchor}} :
          Searching!Opposite(p2, x) # anchor /\ legs = <<p1, p2, p3>>
    BY <1>2 DEF Searching!BestPaying, Searching!TrianglesThrough
  <1>4. x \in {Searching!Opposite(p, anchor) : p \in Searching!PoolIds} \ Searching!Anchors
    BY DEF Searching!TrianglePools
  <1>5. p1 \in Searching!PoolIds /\ p2 \in Searching!PoolIds /\ p3 \in Searching!PoolIds
    BY DEF Searching!TrianglePools
  <1> QED
    BY <1>2, <1>3, <1>4, <1>5

LEMMA LegsAround ==
    ASSUME NEW p \in Searching!PoolIds, NEW q \in Searching!PoolIds, NEW s \in Searching!PoolIds, NEW t, NEW x, x # t,
           {Pools[p].a, Pools[p].b} = {t, x}, Searching!Trades(q, x), Searching!Opposite(q, x) # t,
           {Pools[s].a, Pools[s].b} = {Searching!Opposite(q, x), t}
    PROVE  /\ p # q /\ q # s /\ s # p
           /\ Searching!Trades(p, t) /\ Searching!Trades(q, Searching!Opposite(p, t)) /\ Searching!Trades(s, Searching!Opposite(q, Searching!Opposite(p, t)))
           /\ Searching!Opposite(s, Searching!Opposite(q, Searching!Opposite(p, t))) = t
  <1> DEFINE y == Searching!Opposite(q, x)
  <1>1. Searching!Opposite(p, t) = x
    BY DEF Searching!Opposite
  <1>2. x \in {Pools[q].a, Pools[q].b} /\ {Pools[q].a, Pools[q].b} = {x, y} /\ y # x
    <2>1. x \in {Pools[q].a, Pools[q].b}
      BY DEF Searching!Trades
    <2>2. y \in {Pools[q].a, Pools[q].b} /\ y # x
      BY <2>1, Sides
    <2> QED
      BY <2>1, <2>2
  <1> HIDE DEF y
  <1>3. y # t /\ {Pools[s].a, Pools[s].b} = {y, t}
    BY DEF y
  <1>4. Searching!Opposite(s, y) = t
    BY <1>3 DEF Searching!Opposite
  <1>5. p # q /\ q # s /\ s # p
    BY <1>2, <1>3
  <1> QED
    BY <1>1, <1>3, <1>4, <1>5 DEF Searching!Trades, y

LEMMA TrianglesFit ==
    ASSUME Stocked, NEW r \in Searching!ScanTriangles
    PROVE  Fit(r)
  <1>1. PICK anchor \in Searching!Anchors :
          \E legs \in Searching!Triangles(anchor), x \in Searching!Sizes : r = Searching!TriangleRoute(legs, anchor, x) /\ r.net > 0
    <2>1. PICK anchor \in Searching!Anchors :
            \E legs \in Searching!PayingTriangles(anchor) :
               r \in Searching!BestOf({s \in {Searching!TriangleRoute(legs, anchor, x) : x \in Searching!Sizes} :
                                Searching!Plausible(s, 5) /\ s.net > 0 /\ Searching!WithinLarger(s)})
      BY DEF Searching!ScanTriangles, Searching!NotFragile
    <2>2. PICK legs \in Searching!PayingTriangles(anchor) :
               r \in Searching!BestOf({s \in {Searching!TriangleRoute(legs, anchor, x) : x \in Searching!Sizes} :
                                Searching!Plausible(s, 5) /\ s.net > 0 /\ Searching!WithinLarger(s)})
      BY <2>1
    <2>3. legs \in Searching!Triangles(anchor)
      BY DEF Searching!PayingTriangles
    <2> QED
      BY <2>2, <2>3 DEF Searching!BestOf
  <1>2. PICK legs \in Searching!Triangles(anchor), x \in Searching!Sizes : r = Searching!TriangleRoute(legs, anchor, x) /\ r.net > 0
    BY <1>1
  <1>3. PICK p1 \in Searching!PoolIds, p2 \in Searching!PoolIds, p3 \in Searching!PoolIds : \E u :
             /\ u \notin Searching!Anchors
             /\ legs = <<p1, p2, p3>>
             /\ {Pools[p1].a, Pools[p1].b} = {anchor, u}
             /\ Searching!Trades(p2, u) /\ Searching!Opposite(p2, u) # anchor
             /\ {Pools[p3].a, Pools[p3].b} = {Searching!Opposite(p2, u), anchor}
    BY TriangleLegs
  <1>4. /\ p1 # p2 /\ p2 # p3 /\ p3 # p1
        /\ Searching!Trades(p1, anchor) /\ Searching!Trades(p2, Searching!Opposite(p1, anchor))
        /\ Searching!Trades(p3, Searching!Opposite(p2, Searching!Opposite(p1, anchor)))
        /\ Searching!Opposite(p3, Searching!Opposite(p2, Searching!Opposite(p1, anchor))) = anchor
    BY <1>3, LegsAround
  <1>5. DOMAIN legs = 1 .. 3 /\ legs[1] = p1 /\ legs[2] = p2 /\ legs[3] = p3
    BY <1>3
  <1>6. x \in Nat /\ r = Searching!Candidate(legs, anchor, x, 3 * TxFee, "cross_dex_3hop") /\ r.net > 0
    BY <1>2, SizesFacts DEF Searching!TriangleRoute
  <1> QED
    BY <1>4, <1>5, <1>6, FitTriple

LEMMA CyclicFit ==
    ASSUME Stocked, NEW r \in Searching!ScanCyclic
    PROVE  Fit(r)
  <1>1. PICK v \in Searching!VenueCombos, anchor \in Searching!Anchors :
          \E legs \in Searching!ThreeLegs(v, anchor) : r \in Searching!BestCycles(legs, anchor)
    BY DEF Searching!ScanCyclic
  <1>2. PICK legs \in Searching!ThreeLegs(v, anchor), x \in Searching!Sizes :
          r \in Searching!ThreeLegCycle(legs, anchor, Searching!Min({x, MaxBorrow}))
    BY <1>1 DEF Searching!BestCycles, Searching!BestOf
  <1>3. Searching!Min({x, MaxBorrow}) \in Nat
    <2>1. x \in Nat /\ MaxBorrow \in Nat
      BY SizesFacts, PoolAssumption
    <2>2. \E m \in {x, MaxBorrow} : \A k \in {x, MaxBorrow} : m <= k
      BY <2>1
    <2> QED
      BY <2>1, <2>2 DEF Searching!Min
  <1>4. PICK t \in Searching!Tokens \ Searching!Anchors, u \in Searching!Tokens :
          /\ u \notin {anchor, t}
          /\ legs \in Searching!LargestPools(v[1], anchor, t) \X Searching!LargestPools(v[2], t, u) \X Searching!LargestPools(v[3], u, anchor)
    BY DEF Searching!ThreeLegs
  <1> DEFINE p == legs[1]
             q == legs[2]
             s == legs[3]
  <1>5. DOMAIN legs = 1 .. 3
    BY <1>4
  <1>6. /\ p \in Searching!PoolIds /\ {Pools[p].a, Pools[p].b} = {anchor, t}
        /\ q \in Searching!PoolIds /\ {Pools[q].a, Pools[q].b} = {t, u}
        /\ s \in Searching!PoolIds /\ {Pools[s].a, Pools[s].b} = {u, anchor}
    BY <1>4 DEF Searching!LargestPools, Searching!TrianglePools
  <1>7. t # anchor /\ u # anchor /\ u # t
    BY <1>4
  <1>8. Searching!Trades(q, t) /\ Searching!Opposite(q, t) = u
    BY <1>6, <1>7 DEF Searching!Trades, Searching!Opposite
  <1>9. /\ p # q /\ q # s /\ s # p
        /\ Searching!Trades(p, anchor) /\ Searching!Trades(q, Searching!Opposite(p, anchor))
        /\ Searching!Trades(s, Searching!Opposite(q, Searching!Opposite(p, anchor)))
        /\ Searching!Opposite(s, Searching!Opposite(q, Searching!Opposite(p, anchor))) = anchor
    BY <1>6, <1>7, <1>8, LegsAround
  <1>10. r = Searching!Candidate(legs, anchor, Searching!Min({x, MaxBorrow}), 3 * TxFee, "cyclic_3leg") /\ r.net > 0
    BY <1>2 DEF Searching!ThreeLegCycle
  <1> QED
    BY <1>3, <1>5, <1>6, <1>9, <1>10, FitTriple

LEMMA HotCyclesFit ==
    ASSUME Stocked, NEW r \in Searching!ScanHotCycles
    PROVE  Fit(r)
  <1>1. PICK hc \in HotCycles, x \in Searching!Sizes :
          r = Searching!Candidate(hc.pools, hc.token, x, TxFee + Len(hc.pools) * TxFee, "hot-route") /\ r.net > TxFee
    BY DEF Searching!ScanHotCycles, Searching!NotFragile
  <1> DEFINE p == hc.pools[1]
             q == hc.pools[2]
             s == hc.pools[3]
             t == Searching!Opposite(p, hc.token)
             u == Searching!Opposite(q, t)
  <1>2. /\ hc.pools \in Seq(Searching!PoolIds) /\ Len(hc.pools) = 3
        /\ \A i, j \in 1 .. 3 : i # j => hc.pools[i] # hc.pools[j]
        /\ hc.token \in {Wsol, Usdc, Usdt}
        /\ Searching!Trades(p, hc.token) /\ Searching!Trades(q, t) /\ Searching!Trades(s, u) /\ Searching!Opposite(s, u) = hc.token
    BY HotAssumption DEF Circuit, Searching!PoolIds
  <1>3. DOMAIN hc.pools = 1 .. 3 /\ p \in Searching!PoolIds /\ q \in Searching!PoolIds /\ s \in Searching!PoolIds
    BY <1>2
  <1>4. p # q /\ q # s /\ s # p
    BY <1>2
  <1>5. x \in Nat /\ TxFee \in Nat \ {0} /\ TxFee + 3 * TxFee \in Int
    BY SizesFacts, PoolAssumption
  <1>6. r = Searching!Candidate(hc.pools, hc.token, x, TxFee + 3 * TxFee, "hot-route")
    BY <1>1, <1>2
  <1>7. r.net > 0
    <2> SUFFICES ASSUME NEW ps, ps = hc.pools, NEW d, d = <<hc.token, t, u>> PROVE r.net > 0
      OBVIOUS
    <2>1. Around(3, ps, d)
      BY <1>2, <1>3 DEF Around, Searching!Trades
    <2>2. r = Searching!Candidate(ps, d[1], x, TxFee + 3 * TxFee, "hot-route")
      BY <1>6
    <2>3. Counted(r)
      BY <1>5, <2>1, <2>2, NetInt
    <2> QED
      BY <1>1, <1>5, <2>3 DEF Counted
  <1>8. hc.token \in Searching!Anchors \/ hc.token = Usdt
    BY <1>2 DEF Searching!Anchors
  <1> HIDE DEF p, q, s, t, u
  <1>9. hc.pools[1] = p /\ hc.pools[2] = q /\ hc.pools[3] = s /\ Searching!Opposite(p, hc.token) = t /\ Searching!Opposite(q, t) = u
    BY DEF p, q, s, t, u
  <1> QED
    BY <1>2, <1>3, <1>4, <1>5, <1>6, <1>7, <1>8, <1>9, FitTriple

-----------------------------------------------------------------------------
(* The scanners together.                                                  *)

LEMMA TruncationsFacts ==
    ASSUME NEW routes, NEW k, NEW kept \in Searching!Truncations(routes, k)
    PROVE  kept \subseteq routes
  BY DEF Searching!Truncations, Searching!kSubset

LEMMA WhalesFacts == \A amount \in WhaleAmounts : amount \in Nat
  BY PoolAssumption

\* Whatever a scanner returns fits.
LEMMA ScanFit ==
    ASSUME Stocked, Indexed, Searching!Scan
    PROVE  /\ found = {} /\ pools' = pools /\ (index' = index \/ index' = Searching!RebuiltIndex)
           /\ \A r \in found' : Fit(r)
  <1> USE TruncationsFacts
  <1>1. ASSUME NEW routes, Searching!Returns(routes), \A r \in routes : Fit(r)
        PROVE  /\ found = {} /\ pools' = pools /\ (index' = index \/ index' = Searching!RebuiltIndex)
               /\ \A r \in found' : Fit(r)
    BY <1>1 DEF Searching!Returns
  <1>2. CASE Searching!CrossDexScan
    BY <1>1, <1>2, CrossDexFit DEF Searching!CrossDexScan
  <1>3. CASE Searching!HotScan
    BY <1>1, <1>3, HotRoutesFit, HotCyclesFit DEF Searching!HotScan
  <1>4. CASE Searching!TriangleScan
    <2>1. PICK kept \in Searching!Truncations(Searching!ScanTriangles, 20) : Searching!Returns(kept)
      BY <1>4 DEF Searching!TriangleScan
    <2> QED
      BY <1>1, <2>1, TrianglesFit
  <1>5. CASE Searching!CyclicScan
    BY <1>1, <1>5, CyclicFit DEF Searching!CyclicScan
  <1>6. CASE Searching!StableScan
    <2>1. PICK usdc \in Searching!Truncations(Searching!ScanStablePair(Usdc), 3),
               usdt \in Searching!Truncations(Searching!ScanStablePair(Usdt), 3) : Searching!Returns(usdc \cup usdt)
      BY <1>6 DEF Searching!StableScan
    <2>2. \A r \in usdc \cup usdt : Fit(r)
      BY StableFit
    <2> QED
      BY <1>1, <2>1, <2>2
  <1>7. CASE Searching!LstScan
    BY <1>1, <1>7, LstFit DEF Searching!LstScan
  <1>8. CASE Searching!BinScan
    BY <1>1, <1>8, BinFit DEF Searching!BinScan
  <1>9. ASSUME NEW key, Searching!PairScan(key)
        PROVE  /\ found = {} /\ pools' = pools /\ (index' = index \/ index' = Searching!RebuiltIndex)
               /\ \A r \in found' : Fit(r)
    <2>1. PICK kept \in Searching!Truncations(Searching!ScanPair(key), 3) : Searching!Returns(kept)
      BY <1>9 DEF Searching!PairScan
    <2> QED
      BY <1>1, <2>1, PairFit
  <1>10. ASSUME NEW token, Searching!GraduationScan(token)
         PROVE  /\ found = {} /\ pools' = pools /\ (index' = index \/ index' = Searching!RebuiltIndex)
                /\ \A r \in found' : Fit(r)
    BY <1>1, <1>10, GraduationFit DEF Searching!GraduationScan
  <1>11. ASSUME NEW p \in Searching!PoolIds, Searching!VaultUpdate(p)
         PROVE  /\ found = {} /\ pools' = pools /\ (index' = index \/ index' = Searching!RebuiltIndex)
                /\ \A r \in found' : Fit(r)
    <2>1. p \in Searching!Scanned
      BY <1>11 DEF Searching!VaultUpdate
    <2>2. PICK kept \in Searching!Truncations(Searching!ScanUpdate(p), 3) : found' = kept
      BY <1>11 DEF Searching!VaultUpdate
    <2>3. \A r \in kept : Fit(r)
      BY <2>1, UpdateFit
    <2> QED
      BY <1>11, <2>2, <2>3 DEF Searching!VaultUpdate
  <1>12. ASSUME NEW p \in Searching!PoolIds, Searching!OracleScan(p)
         PROVE  /\ found = {} /\ pools' = pools /\ (index' = index \/ index' = Searching!RebuiltIndex)
                /\ \A r \in found' : Fit(r)
    BY <1>1, <1>12, OracleFit DEF Searching!OracleScan
  <1>13. ASSUME NEW p \in Searching!PoolIds, Searching!EventScan(p)
         PROVE  /\ found = {} /\ pools' = pools /\ (index' = index \/ index' = Searching!RebuiltIndex)
                /\ \A r \in found' : Fit(r)
    BY <1>1, <1>13, EventFit DEF Searching!EventScan
  <1>14. ASSUME NEW p \in Searching!PoolIds, NEW price, Searching!TickScan(p, price)
         PROVE  /\ found = {} /\ pools' = pools /\ (index' = index \/ index' = Searching!RebuiltIndex)
                /\ \A r \in found' : Fit(r)
    <2>1. PICK kept \in Searching!Truncations(Searching!ScanTickCrossing(p, price), 5) : Searching!Returns(kept)
      BY <1>14 DEF Searching!TickScan
    <2> QED
      BY <1>1, <2>1, TickFit
  <1>15. ASSUME NEW p \in Searching!PoolIds, NEW amount \in WhaleAmounts, NEW t \in {Pools[p].a, Pools[p].b},
                Searching!BackrunScan(p, t, amount)
         PROVE  /\ found = {} /\ pools' = pools /\ (index' = index \/ index' = Searching!RebuiltIndex)
                /\ \A r \in found' : Fit(r)
    <2>1. \A r \in Searching!BestPerCounterpart(Searching!ScanBackrun(p, t, amount)) : Fit(r)
      BY WhalesFacts, BackrunFit DEF Searching!BestPerCounterpart
    <2> QED
      BY <1>1, <1>15, <2>1 DEF Searching!BackrunScan
  <1> QED
    BY <1>2, <1>3, <1>4, <1>5, <1>6, <1>7, <1>8, <1>9, <1>10, <1>11, <1>12, <1>13, <1>14, <1>15, Zenon
    DEF Searching!Scan

\* The index after a rebuild.
LEMMA RebuiltIndexed ==
    /\ DOMAIN Searching!RebuiltIndex \subseteq Searching!PoolIds
    /\ \A p \in DOMAIN Searching!RebuiltIndex : \A q \in Searching!RebuiltIndex[p] :
          q \in Searching!PoolIds /\ q # p /\ Searching!KeyOf(q) = Searching!KeyOf(p)
  BY DEF Searching!RebuiltIndex

\* A route fits as long as the pools are the same.
LEMMA FitStays ==
    ASSUME NEW r, pools' = pools, Fit(r)
    PROVE  Fit(r)'
  <1>1. Searching!AfterWhale(r)' = Searching!AfterWhale(r)
    BY DEF Searching!AfterWhale, Searching!PostSwap, Searching!EffectiveOf
  <1>2. Searching!Replay(r)' = Searching!Replay(r)
    BY DEF Searching!Replay
  <1>3. Sound(r)' <=> Sound(r)
    BY <1>2 DEF Sound
  <1> QED
    BY <1>1, <1>3 DEF Fit

-----------------------------------------------------------------------------
(* Walks along a cycle of the graph.                                       *)

\* The edges of the graph are directions of pools.
Wired == \A e \in DOMAIN graph : e[1] \in Searching!PoolIds /\ Searching!Trades(e[1], e[2])

\* c is a cycle of n different tokens.
CycleOf(n, c) ==
    /\ n \in Nat /\ n >= 2 /\ DOMAIN c = 1 .. n /\ Len(c) = n
    /\ \A i, j \in 1 .. n : c[i] = c[j] => i = j

LEMMA CyclesFacts ==
    ASSUME NEW c \in Searching!Cycles
    PROVE  \E n : CycleOf(n, c)
  <1>1. PICK n \in 2 .. (MaxHops + 1) : c \in [1 .. n -> Searching!Nodes] /\ Searching!IsInjective(c)
    BY DEF Searching!Cycles
  <1>2. n \in Nat /\ n >= 2
    BY <1>1, PoolAssumption
  <1>3. Len(c) = n
    BY <1>1, <1>2, LengthOf
  <1> QED
    BY <1>1, <1>2, <1>3 DEF CycleOf, Searching!IsInjective

LEMMA AfterFacts ==
    ASSUME NEW n, NEW c, CycleOf(n, c), NEW i \in 1 .. n
    PROVE  Searching!After(c, i) = IF i = n THEN c[1] ELSE c[i + 1]
  <1>1. n \in Nat /\ n >= 2 /\ Len(c) = n
    BY DEF CycleOf
  <1>2. i = n => i % n = 0
    BY <1>1
  <1>3. i < n => i % n = i
    BY <1>1
  <1> QED
    BY <1>1, <1>2, <1>3 DEF Searching!After

WalkStep(g, i, c, amount) ==
    IF i = 0 THEN {<<>>}
    ELSE UNION {{Append(w, p) : p \in Searching!NextPools(c, w, amount)} : w \in g[i - 1]}

LEMMA WalksDef ==
    ASSUME NEW c, NEW amount, NEW n \in Nat, Len(c) = n
    PROVE  \E walks : /\ Searching!Walks(c, amount) = walks[n]
                      /\ \A i \in 0 .. n : walks[i] = WalkStep(walks, i, c, amount)
  <1> DEFINE Good(g, k) == g = [i \in 0 .. k |-> WalkStep(g, i, c, amount)]
             Bad == {k \in 0 .. n : ~ \E g : Good(g, k)}
  <1>1. ASSUME Bad # {} PROVE FALSE
    <2>1. PICK k \in Bad : \A m \in Bad : ~(m < k)
      <3>1. Bad \subseteq Nat
        OBVIOUS
      <3> HIDE DEF Bad
      <3> QED
        BY <1>1, <3>1, LeastNat
    <2>2. k \in 0 .. n /\ ~ \E g : Good(g, k)
      OBVIOUS
    <2>3. CASE k = 0
      <3> DEFINE h == [i \in 0 .. 0 |-> {<<>>}]
      <3>1. \A i \in 0 .. 0 : h[i] = WalkStep(h, i, c, amount)
        BY DEF WalkStep
      <3>2. h = [i \in 0 .. 0 |-> h[i]]
        OBVIOUS
      <3>3. Good(h, 0)
        <4> HIDE DEF h
        <4> QED
          BY <3>1, <3>2
      <3> QED
        BY <2>2, <2>3, <3>3
    <2>4. CASE k > 0
      <3>1. k - 1 \in 0 .. n /\ k - 1 \notin Bad
        BY <2>1, <2>2, <2>4
      <3>2. PICK g : Good(g, k - 1)
        BY <3>1
      <3> DEFINE h == [i \in 0 .. k |-> IF i = k THEN WalkStep(g, k, c, amount) ELSE g[i]]
      <3>3. ASSUME NEW i \in 0 .. k PROVE h[i] = WalkStep(h, i, c, amount)
        <4>1. i = 0 \/ (i - 1 \in 0 .. (k - 1) /\ h[i - 1] = g[i - 1])
          BY <2>2
        <4>2. WalkStep(h, i, c, amount) = WalkStep(g, i, c, amount)
          <5> HIDE DEF h
          <5> QED
            BY <4>1 DEF WalkStep
        <4>3. ASSUME i # k PROVE g[i] = WalkStep(g, i, c, amount)
          <5>1. i \in 0 .. (k - 1)
            BY <2>2, <4>3
          <5> QED
            BY <3>2, <5>1
        <4> QED
          BY <4>2, <4>3
      <3>4. Good(h, k)
        <4>1. h = [i \in 0 .. k |-> h[i]]
          OBVIOUS
        <4> HIDE DEF h
        <4> QED
          BY <3>3, <4>1
      <3> QED
        BY <2>2, <3>4
    <2> QED
      BY <2>2, <2>3, <2>4
  <1>2. \E g : Good(g, n)
    BY <1>1
  <1>3. Searching!Walks(c, amount) = (CHOOSE g : Good(g, n))[n]
    BY DEF Searching!Walks, WalkStep
  <1>4. Good(CHOOSE g : Good(g, n), n)
    <2> HIDE DEF Good
    <2> QED
      BY <1>2
  <1>5. ASSUME NEW g, Good(g, n) PROVE \A i \in 0 .. n : g[i] = WalkStep(g, i, c, amount)
    BY <1>5
  <1> HIDE DEF Good, Bad
  <1> QED
    BY <1>3, <1>4, <1>5

LEMMA BestEdgesFacts ==
    ASSUME Wired, NEW t, NEW u, NEW amount, NEW p \in Searching!BestEdges(t, u, amount)
    PROVE  p \in Searching!PoolIds /\ t \in {Pools[p].a, Pools[p].b} /\ Searching!Opposite(p, t) = u
  <1>1. PICK e \in DOMAIN graph : e[2] = t /\ Searching!Opposite(e[1], e[2]) = u /\ p = e[1]
    BY DEF Searching!BestEdges, Searching!Between
  <1> QED
    BY <1>1 DEF Wired, Searching!Trades

\* w leads through the first k pairs of the cycle c.
WalkOf(k, c, w) ==
    /\ w \in Seq(Searching!PoolIds) /\ Len(w) = k
    /\ \A i \in 1 .. k :
         w[i] \in Searching!PoolIds /\ c[i] \in {Pools[w[i]].a, Pools[w[i]].b} /\ Searching!Opposite(w[i], c[i]) = Searching!After(c, i)

LEMMA WalkFacts ==
    ASSUME Wired, NEW n, NEW c, CycleOf(n, c), NEW amount, NEW w \in Searching!Walks(c, amount)
    PROVE  WalkOf(n, c, w)
  <1>0. n \in Nat /\ Len(c) = n
    BY DEF CycleOf
  <1>1. PICK g : /\ Searching!Walks(c, amount) = g[n]
                 /\ \A i \in 0 .. n : g[i] = WalkStep(g, i, c, amount)
    BY <1>0, WalksDef
  <1> DEFINE At(i) == \A v \in g[i] : WalkOf(i, c, v)
  <1>2. At(0)
    <2>1. 0 \in 0 .. n
      BY <1>0
    <2>2. g[0] = {<<>>}
      BY <1>1, <2>1 DEF WalkStep
    <2> QED
      BY <2>2 DEF WalkOf
  <1>3. ASSUME NEW i \in 1 .. n, At(i - 1) PROVE At(i)
    <2>0. i \in 0 .. n /\ i # 0 /\ i - 1 \in Nat
      OBVIOUS
    <2> SUFFICES ASSUME NEW v \in g[i] PROVE WalkOf(i, c, v)
      OBVIOUS
    <2>1. v \in UNION {{Append(u, p) : p \in Searching!NextPools(c, u, amount)} : u \in g[i - 1]}
      BY <1>1, <2>0 DEF WalkStep
    <2>2. PICK u \in g[i - 1] : \E p \in Searching!NextPools(c, u, amount) : v = Append(u, p)
      BY <2>1
    <2>3. PICK p \in Searching!NextPools(c, u, amount) : v = Append(u, p)
      BY <2>2
    <2>4. u \in Seq(Searching!PoolIds) /\ Len(u) = i - 1
          /\ \A j \in 1 .. (i - 1) :
               /\ u[j] \in Searching!PoolIds /\ c[j] \in {Pools[u[j]].a, Pools[u[j]].b}
               /\ Searching!Opposite(u[j], c[j]) = Searching!After(c, j)
      BY <1>3, <2>2 DEF WalkOf
    <2>5. Len(u) + 1 = i
      BY <2>0, <2>4
    <2>6. \E paid : p \in Searching!BestEdges(c[i], Searching!After(c, i), paid)
      BY <2>3, <2>5 DEF Searching!NextPools
    <2>7. p \in Searching!PoolIds /\ c[i] \in {Pools[p].a, Pools[p].b} /\ Searching!Opposite(p, c[i]) = Searching!After(c, i)
      BY <2>6, BestEdgesFacts
    <2>8. v \in Seq(Searching!PoolIds) /\ Len(v) = i /\ v[i] = p /\ \A j \in 1 .. (i - 1) : v[j] = u[j]
      BY <2>3, <2>4, <2>5, <2>7
    <2>9. \A j \in 1 .. i : j = i \/ j \in 1 .. (i - 1)
      BY <2>0
    <2> QED
      BY <2>4, <2>7, <2>8, <2>9 DEF WalkOf
  <1>4. ASSUME ~At(n) PROVE FALSE
    <2> DEFINE Bad == {i \in 0 .. n : ~At(i)}
    <2>1. PICK j \in Bad : \A k \in Bad : ~(k < j)
      <3>1. Bad \subseteq Nat /\ Bad # {}
        <4> HIDE DEF At
        <4> QED
          BY <1>0, <1>4
      <3> HIDE DEF Bad
      <3> QED
        BY <3>1, LeastNat
    <2> HIDE DEF At
    <2>2. j # 0 /\ j \in 1 .. n /\ j - 1 \in 0 .. n /\ j - 1 < j
      BY <1>0, <1>2, <2>1
    <2>3. At(j - 1)
      BY <2>1, <2>2
    <2> QED
      BY <1>3, <2>1, <2>2, <2>3
  <1> QED
    BY <1>1, <1>4

-----------------------------------------------------------------------------
(* The pools of a walk are apart, except where a cycle of two tokens goes  *)
(* there and back through one pool; such a route does not pay.             *)

LEMMA WalkApart ==
    ASSUME NEW n, NEW c, CycleOf(n, c), NEW w, WalkOf(n, c, w)
    PROVE  Apart(n, w) \/ (n = 2 /\ w[1] = w[2])
  <1>0. n \in Nat /\ n >= 2 /\ \A i, j \in 1 .. n : c[i] = c[j] => i = j
    BY DEF CycleOf
  <1>1. ASSUME NEW i \in 1 .. n
        PROVE  /\ c[i] \in {Pools[w[i]].a, Pools[w[i]].b}
               /\ Searching!Opposite(w[i], c[i]) = (IF i = n THEN c[1] ELSE c[i + 1])
               /\ {Pools[w[i]].a, Pools[w[i]].b} = {c[i], IF i = n THEN c[1] ELSE c[i + 1]}
    <2>1. c[i] \in {Pools[w[i]].a, Pools[w[i]].b} /\ Searching!Opposite(w[i], c[i]) = Searching!After(c, i) /\ w[i] \in Searching!PoolIds
      BY DEF WalkOf
    <2>2. Searching!Opposite(w[i], c[i]) = (IF i = n THEN c[1] ELSE c[i + 1])
      BY <2>1, AfterFacts
    <2>3. {Pools[w[i]].a, Pools[w[i]].b} = {c[i], Searching!Opposite(w[i], c[i])}
      BY <2>1 DEF Searching!Opposite
    <2> QED
      BY <2>1, <2>2, <2>3
  <1>2. ASSUME NEW i \in 1 .. n, NEW j \in 1 .. n, i < j, w[i] = w[j]
        PROVE  n = 2 /\ w[1] = w[2]
    <2>1. {c[i], c[i + 1]} = {c[j], IF j = n THEN c[1] ELSE c[j + 1]} /\ i + 1 \in 1 .. n
      BY <1>0, <1>1, <1>2
    <2>2. c[i] # c[j]
      BY <1>0, <1>2
    <2>3. c[i] = IF j = n THEN c[1] ELSE c[j + 1]
      BY <2>1, <2>2
    <2>4. c[i + 1] = c[j]
      BY <2>1, <2>2
    <2>5. j = i + 1
      BY <1>0, <2>1, <2>4
    <2>6. j = n /\ i = 1
      <3>1. j # n => j + 1 \in 1 .. n /\ c[i] = c[j + 1]
        BY <1>0, <2>3
      <3>2. j = n
        BY <1>0, <1>2, <3>1
      <3>3. c[i] = c[1] /\ 1 \in 1 .. n
        BY <1>0, <2>3, <3>2
      <3> QED
        BY <1>0, <3>2, <3>3
    <2> QED
      BY <1>2, <2>5, <2>6
  <1>3. ASSUME NEW i \in 1 .. n, NEW j \in 1 .. n, i # j, w[i] = w[j]
        PROVE  n = 2 /\ w[1] = w[2]
    <2>1. i < j \/ j < i
      BY <1>0, <1>3
    <2> QED
      BY <1>2, <1>3, <2>1
  <1> QED
    BY <1>3 DEF Apart

\* Where a rotation takes the pool and the token at i from.
Turn(n, f, i) == IF i <= n - f + 1 THEN f + i - 1 ELSE i - (n - f + 1)

LEMMA TurnFirst ==
    ASSUME NEW n \in Nat, n >= 2, NEW f \in 1 .. n
    PROVE  Turn(n, f, 1) = f
  BY DEF Turn

LEMMA TurnFacts ==
    ASSUME NEW n \in Nat, n >= 2, NEW f \in 1 .. n, NEW i \in 1 .. n
    PROVE  /\ Turn(n, f, i) \in 1 .. n
           /\ i # n => Turn(n, f, i + 1) = (IF Turn(n, f, i) = n THEN 1 ELSE Turn(n, f, i) + 1)
           /\ i = n => f = (IF Turn(n, f, i) = n THEN 1 ELSE Turn(n, f, i) + 1)
  BY DEF Turn

LEMMA TurnApart ==
    ASSUME NEW n \in Nat, n >= 2, NEW f \in 1 .. n, NEW i \in 1 .. n, NEW j \in 1 .. n,
           Turn(n, f, i) = Turn(n, f, j)
    PROVE  i = j
  BY DEF Turn

LEMMA RotateFacts ==
    ASSUME NEW S, NEW w \in Seq(S), NEW n \in Nat, n >= 2, Len(w) = n, NEW f \in 1 .. n
    PROVE  /\ DOMAIN Searching!RotateLeft(w, f) = 1 .. n /\ Len(Searching!RotateLeft(w, f)) = n
           /\ \A i \in 1 .. n : Searching!RotateLeft(w, f)[i] = w[Turn(n, f, i)]
  <1> DEFINE x == SubSeq(w, f, n)
             y == SubSeq(w, 1, f - 1)
  <1>1. x \in Seq(S) /\ Len(x) = n - f + 1 /\ \A i \in 1 .. (n - f + 1) : x[i] = w[f + i - 1]
    OBVIOUS
  <1>2. y \in Seq(S) /\ Len(y) = f - 1 /\ \A i \in 1 .. (f - 1) : y[i] = w[i]
    OBVIOUS
  <1> HIDE DEF x, y
  <1>3. Len(x \o y) = n /\ x \o y \in Seq(S)
    <2>1. \A v, u \in Seq(S) : Len(v \o u) = Len(v) + Len(u) /\ v \o u \in Seq(S)
      OBVIOUS
    <2>2. Len(x) + Len(y) = n
      BY <1>1, <1>2
    <2> QED
      BY <1>1, <1>2, <2>1, <2>2
  <1>4. ASSUME NEW i \in 1 .. n PROVE (x \o y)[i] = w[Turn(n, f, i)]
    <2>1. CASE i <= n - f + 1
      <3>1. (x \o y)[i] = x[i]
        BY <1>1, <1>2, <2>1
      <3> QED
        BY <1>1, <2>1, <3>1 DEF Turn
    <2>2. CASE ~(i <= n - f + 1)
      <3>1. i - (n - f + 1) \in 1 .. (f - 1)
        BY <2>2
      <3>2. (x \o y)[i] = y[i - (n - f + 1)]
        BY <1>1, <1>2, <2>2, <3>1
      <3> QED
        BY <1>2, <2>2, <3>1, <3>2 DEF Turn
    <2> QED
      BY <2>1, <2>2
  <1>5. Searching!RotateLeft(w, f) = x \o y
    BY DEF Searching!RotateLeft, x, y
  <1> QED
    BY <1>3, <1>4, <1>5

LEMMA RotatedAround ==
    ASSUME NEW n, NEW c, CycleOf(n, c), NEW w, WalkOf(n, c, w), NEW f \in 1 .. n
    PROVE  \E d : /\ Around(n, Searching!RotateLeft(w, f), d) /\ d[1] = c[f] /\ Len(Searching!RotateLeft(w, f)) = n
                  /\ \/ Apart(n, Searching!RotateLeft(w, f))
                     \/ n = 2 /\ Searching!RotateLeft(w, f)[1] = Searching!RotateLeft(w, f)[2]
  <1>0. n \in Nat /\ n >= 2 /\ w \in Seq(Searching!PoolIds) /\ Len(w) = n
    BY DEF CycleOf, WalkOf
  <1> DEFINE ps == Searching!RotateLeft(w, f)
             d == [i \in 1 .. n |-> c[Turn(n, f, i)]]
  <1>1. DOMAIN ps = 1 .. n /\ Len(ps) = n /\ \A i \in 1 .. n : ps[i] = w[Turn(n, f, i)]
    BY <1>0, RotateFacts
  <1> HIDE DEF ps
  <1>2. ASSUME NEW i \in 1 .. n
        PROVE  /\ ps[i] \in Searching!PoolIds /\ d[i] \in {Pools[ps[i]].a, Pools[ps[i]].b}
               /\ Searching!Opposite(ps[i], d[i]) = IF i = n THEN d[1] ELSE d[i + 1]
    <2> DEFINE k == Turn(n, f, i)
    <2>0. Turn(n, f, 1) = f
      BY <1>0, TurnFirst
    <2>1. /\ k \in 1 .. n /\ (i # n => Turn(n, f, i + 1) = (IF k = n THEN 1 ELSE k + 1))
          /\ (i = n => f = (IF k = n THEN 1 ELSE k + 1))
      BY <1>0, TurnFacts
    <2>2. ps[i] = w[k] /\ d[i] = c[k]
      BY <1>1
    <2>3. d[1] = c[f]
      BY <1>0, <2>0
    <2>4. i # n => d[i + 1] = c[Turn(n, f, i + 1)]
      BY <1>0
    <2> HIDE DEF k, d
    <2>5. w[k] \in Searching!PoolIds /\ c[k] \in {Pools[w[k]].a, Pools[w[k]].b} /\ Searching!Opposite(w[k], c[k]) = Searching!After(c, k)
      BY <2>1 DEF WalkOf
    <2>6. Searching!After(c, k) = IF k = n THEN c[1] ELSE c[k + 1]
      BY <2>1, AfterFacts
    <2> QED
      BY <2>1, <2>2, <2>3, <2>4, <2>5, <2>6
  <1>3. Around(n, ps, d)
    <2> HIDE DEF d
    <2> QED
      BY <1>0, <1>1, <1>2 DEF Around
  <1>4. d[1] = c[f]
    BY <1>0, TurnFirst
  <1>5. Apart(n, ps) \/ (n = 2 /\ ps[1] = ps[2])
    <2>1. CASE Apart(n, w)
      <3>1. Apart(n, ps)
        <4> SUFFICES ASSUME NEW i \in 1 .. n, NEW j \in 1 .. n, i # j PROVE ps[i] # ps[j]
          BY DEF Apart
        <4>1. Turn(n, f, i) \in 1 .. n /\ Turn(n, f, j) \in 1 .. n
          BY <1>0, TurnFacts
        <4>2. Turn(n, f, i) # Turn(n, f, j)
          BY <1>0, TurnApart
        <4> QED
          BY <1>1, <2>1, <4>1, <4>2 DEF Apart
      <3> QED
        BY <3>1
    <2>2. CASE n = 2 /\ w[1] = w[2]
      <3>1. 1 \in 1 .. n /\ 2 \in 1 .. n
        BY <2>2
      <3>2. Turn(n, f, 1) \in 1 .. 2 /\ Turn(n, f, 2) \in 1 .. 2
        BY <1>0, <2>2, <3>1, TurnFacts
      <3>3. \A k \in 1 .. 2 : w[k] = w[1]
        BY <2>2
      <3> QED
        BY <1>1, <2>2, <3>1, <3>2, <3>3
    <2> QED
      BY <2>1, <2>2, WalkApart
  <1> QED
    BY <1>1, <1>3, <1>4, <1>5 DEF ps

\* A route there and back through one pool loses.
LEMMA BackAndForth ==
    ASSUME Stocked, NEW n, n = 2, NEW ps, NEW d, Around(n, ps, d), ps[1] = ps[2],
           NEW amount \in Nat, NEW cost \in Nat, NEW strategy,
           NEW r, r = Searching!Candidate(ps, d[1], amount, cost, strategy)
    PROVE  ~(r.net > 0)
  <1>1. Chained(r, n, ps, d) /\ r.borrow = amount /\ r.net = r.gross - cost
    BY HopsFollow
  <1>2. /\ r.hops[1] = Searching!Hop(ps[1], d[1], Searching!Quote(ps[1], d[1], Searching!AmountIn(r, 1)))
        /\ r.hops[2] = Searching!Hop(ps[2], d[2], Searching!Quote(ps[2], d[2], Searching!AmountIn(r, 2)))
        /\ r.hops[2].amount \in Nat /\ r.gross = r.hops[2].amount - r.borrow
    BY <1>1 DEF Chained
  <1>3. Searching!AmountIn(r, 1) = amount /\ Searching!AmountIn(r, 2) = r.hops[1].amount
    BY <1>1 DEF Searching!AmountIn
  <1>4. /\ ps[1] \in Searching!PoolIds /\ d[1] \in {Pools[ps[1]].a, Pools[ps[1]].b}
        /\ d[2] = Searching!Opposite(ps[1], d[1])
    BY DEF Around
  <1>5. r.hops[2].amount = Searching!Quote(ps[1], Searching!Opposite(ps[1], d[1]), Searching!Quote(ps[1], d[1], amount))
    BY <1>2, <1>3, <1>4 DEF Searching!Hop
  <1>6. r.hops[2].amount <= amount
    BY <1>4, <1>5, StockedFacts, QuoteBack DEF Searching!Quote
  <1> QED
    BY <1>1, <1>2, <1>6

-----------------------------------------------------------------------------
(* Routes bridged from WSOL and back through one pool.                     *)

\* What one hop of a chained route takes and pays.
LEMMA HopFacts ==
    ASSUME Stocked, NEW n, NEW ps, NEW d, Around(n, ps, d), NEW r, Chained(r, n, ps, d),
           NEW i \in 1 .. n
    PROVE  /\ r.hops[i].pool = ps[i] /\ r.hops[i].in = d[i]
           /\ r.hops[i].amount = Searching!QuoteAt(ps[i], pools[ps[i]], d[i], Searching!AmountIn(r, i))
           /\ Searching!AmountIn(r, i) \in Nat /\ r.hops[i].amount \in Nat
           /\ ps[i] \in Searching!PoolIds /\ ps[i] \in DOMAIN pools /\ pools[ps[i]] \in Stock
           /\ d[i] \in {Pools[ps[i]].a, Pools[ps[i]].b}
  <1>1. r.hops[i] = Searching!Hop(ps[i], d[i], Searching!Quote(ps[i], d[i], Searching!AmountIn(r, i)))
        /\ Searching!AmountIn(r, i) \in Nat /\ r.hops[i].amount \in Nat
    BY DEF Chained
  <1>2. ps[i] \in Searching!PoolIds /\ d[i] \in {Pools[ps[i]].a, Pools[ps[i]].b}
    BY DEF Around
  <1> QED
    BY <1>1, <1>2, StockedFacts DEF Searching!Hop, Searching!Quote, Stocked

\* The last hop goes back through the pool of the first one, which the first
\* one moved: it pays no less than was quoted.
LEMMA BridgePays ==
    ASSUME Stocked, NEW m, NEW ps, NEW d, Around(m, ps, d), m >= 3, ps[m] = ps[1],
           Apart(m - 1, ps), NEW amount \in Nat, NEW cost \in Nat, NEW strategy,
           NEW r, r = Searching!Candidate(ps, d[1], amount, cost, strategy), r.net > 0
    PROVE  Sound(r) /\ r.hops[1].in = d[1] /\ r.strategy = strategy
  <1>0. /\ m \in Nat /\ 1 \in 1 .. m /\ m \in 1 .. m /\ m - 1 \in 1 .. m /\ m - 1 \in Nat
        /\ m - 1 \in 1 .. (m - 1) /\ m # 1
    BY DEF Around
  <1>1. /\ Chained(r, m, ps, d) /\ Searching!Closed(r) /\ r.borrow = amount /\ r.strategy = strategy
        /\ r.net = r.gross - cost
    BY HopsFollow
  <1>2. Len(r.hops) = m /\ r.gross = r.hops[m].amount - amount
    BY <1>1 DEF Chained
  <1> DEFINE p == ps[1]
             t == d[1]
             u == Searching!Opposite(p, t)
             m1 == r.hops[1].amount
             mn == r.hops[m - 1].amount
             out == r.hops[m].amount
  <1>3. p \in Searching!PoolIds /\ pools[p] \in Stock /\ t \in {Pools[p].a, Pools[p].b}
        /\ m1 = Searching!QuoteAt(p, pools[p], t, Searching!AmountIn(r, 1)) /\ m1 \in Nat /\ r.hops[1].pool = p
        /\ r.hops[1].in = t
    BY <1>0, <1>1, HopFacts
  <1>4. d[m] = u
    <2>1. Searching!Opposite(ps[m], d[m]) = d[1] /\ d[m] \in {Pools[ps[m]].a, Pools[ps[m]].b}
      BY <1>0 DEF Around
    <2> QED
      BY <1>3, <2>1, Sides
  <1>5. /\ out = Searching!QuoteAt(p, pools[p], u, Searching!AmountIn(r, m)) /\ out \in Nat /\ Searching!AmountIn(r, m) \in Nat
        /\ r.hops[m].pool = p /\ r.hops[m].in = u
    BY <1>0, <1>1, <1>4, HopFacts
  <1>6. Searching!AmountIn(r, m) = mn /\ Searching!AmountIn(r, 1) = amount
    BY <1>0, <1>1 DEF Searching!AmountIn
  <1> HIDE DEF p, t, u, m1, mn, out
  <1>7. out > amount
    BY <1>1, <1>2, <1>5 DEF out
  <1>8. Fresh(pools, r, m - 1)
    <2>1. ASSUME NEW i \in 1 .. (m - 1)
          PROVE  /\ r.hops[i].pool \in DOMAIN pools /\ r.hops[i].pool = ps[i]
                 /\ r.hops[i].amount =
                      Searching!QuoteAt(r.hops[i].pool, pools[r.hops[i].pool], r.hops[i].in, Searching!AmountIn(r, i))
      <3>1. i \in 1 .. m
        BY <1>0
      <3> QED
        BY <1>1, <3>1, HopFacts
    <2> QED
      BY <2>1 DEF Fresh, Apart
  <1>9. Carried(pools, r, m, m - 1)
    BY <1>0, <1>2, <1>8, ReplayPrefix
  <1>10. PICK after : /\ Searching!ReplayFrom(pools, r) = after[m]
                      /\ \A i \in 1 .. m : after[i] = Searching!SwappedAt(after[i - 1], r.hops[i])
                      /\ after[m - 1].amount = mn
                      /\ after[m - 1].pools[p] = Searching!Landed(pools[p], p, t, r.borrow, m1)
    <2>1. r.hops[1].pool = p /\ r.hops[1].in = t
      BY <1>3
    <2> QED
      BY <1>9, <2>1 DEF Carried, mn, m1
  <1>11. Searching!ReplayFrom(pools, r).amount = Searching!QuoteAt(p, Searching!Landed(pools[p], p, t, amount, m1), u, mn)
    <2>1. after[m] = Searching!SwappedAt(after[m - 1], r.hops[m])
      BY <1>0, <1>10
    <2>2. after[m].amount = Searching!QuoteAt(p, after[m - 1].pools[p], u, after[m - 1].amount)
      BY <1>5, <2>1 DEF Searching!SwappedAt
    <2> QED
      BY <1>1, <1>10, <2>2
  <1>12. Searching!QuoteAt(p, pools[p], u, mn) <= Searching!QuoteAt(p, Searching!Landed(pools[p], p, t, amount, m1), u, mn)
    <2>1. m1 = Searching!QuoteAt(p, pools[p], t, amount) /\ mn \in Nat
      BY <1>3, <1>5, <1>6
    <2> QED
      BY <1>3, <1>6, <2>1, QuoteLanded DEF u
  <1>13. Searching!Replay(r).amount >= out
    BY <1>5, <1>6, <1>11, <1>12 DEF Searching!Replay
  <1>14. r.borrow + r.gross = out
    BY <1>1, <1>2, <1>5 DEF out
  <1> QED
    BY <1>1, <1>3, <1>13, <1>14 DEF Sound, t

\* Bridged to a cycle there and back through one pool, a route loses.
LEMMA BridgeLoses ==
    ASSUME Stocked, NEW m, m = 4, NEW ps, NEW d, Around(m, ps, d), ps[m] = ps[1], ps[2] = ps[3],
           NEW amount \in Nat, NEW cost \in Nat, NEW strategy,
           NEW r, r = Searching!Candidate(ps, d[1], amount, cost, strategy)
    PROVE  ~(r.net > 0)
  <1>1. Chained(r, m, ps, d) /\ r.borrow = amount /\ r.net = r.gross - cost
    BY HopsFollow
  <1>2. r.gross = r.hops[m].amount - amount
    BY <1>1 DEF Chained
  <1> DEFINE p == ps[1]
             q == ps[2]
             m1 == r.hops[1].amount
             m2 == r.hops[2].amount
             m3 == r.hops[3].amount
  <1>3. /\ p \in Searching!PoolIds /\ pools[p] \in Stock /\ d[1] \in {Pools[p].a, Pools[p].b}
        /\ m1 = Searching!QuoteAt(p, pools[p], d[1], Searching!AmountIn(r, 1)) /\ m1 \in Nat
    BY <1>1, HopFacts
  <1>4. /\ q \in Searching!PoolIds /\ pools[q] \in Stock /\ d[2] \in {Pools[q].a, Pools[q].b}
        /\ m2 = Searching!QuoteAt(q, pools[q], d[2], Searching!AmountIn(r, 2)) /\ m2 \in Nat
    BY <1>1, HopFacts
  <1>5. m3 = Searching!QuoteAt(q, pools[q], d[3], Searching!AmountIn(r, 3)) /\ m3 \in Nat
    BY <1>1, HopFacts
  <1>6. r.hops[m].amount = Searching!QuoteAt(p, pools[p], d[m], Searching!AmountIn(r, m)) /\ r.hops[m].amount \in Nat
    <2>1. m \in 1 .. m
      OBVIOUS
    <2> QED
      BY <1>1, <2>1, HopFacts
  <1>7. Searching!AmountIn(r, 1) = amount /\ Searching!AmountIn(r, 2) = m1 /\ Searching!AmountIn(r, 3) = m2 /\ Searching!AmountIn(r, m) = m3
    BY <1>1 DEF Searching!AmountIn
  <1>8. d[3] = Searching!Opposite(q, d[2])
    BY DEF Around
  <1>9. d[m] = Searching!Opposite(p, d[1])
    <2>1. Searching!Opposite(p, d[m]) = d[1] /\ d[m] \in {Pools[p].a, Pools[p].b}
      BY DEF Around
    <2> QED
      BY <1>3, <2>1, Sides
  <1> HIDE DEF p, q, m1, m2, m3
  <1>10. m3 <= m1
    BY <1>3, <1>4, <1>5, <1>7, <1>8, QuoteBack
  <1>11. Searching!QuoteAt(p, pools[p], d[m], m3) <= Searching!QuoteAt(p, pools[p], d[m], m1)
    BY <1>3, <1>5, <1>10, QuoteMono
  <1>12. Searching!QuoteAt(p, pools[p], d[m], m1) <= amount
    BY <1>3, <1>7, <1>9, QuoteBack
  <1>13. Searching!QuoteAt(p, pools[p], d[m], m1) \in Nat
    <2>1. SideOf(p, pools[p], d[m]) \in Nat /\ AwayFrom(p, pools[p], d[m]) \in Nat
      BY <1>3 DEF Stock, SideOf, AwayFrom
    <2> QED
      BY <1>3, <2>1, QuoteNat
  <1>14. r.hops[m].amount <= amount
    BY <1>6, <1>7, <1>11, <1>12, <1>13
  <1> QED
    BY <1>1, <1>2, <1>6, <1>14

\* The bridge leads around, and its pool trades WSOL, which no pool of the walk
\* does.
LEMMA BridgeAround ==
    ASSUME NEW n, NEW c, CycleOf(n, c), NEW w, WalkOf(n, c, w), \A i \in 1 .. n : c[i] # Wsol,
           NEW p \in Searching!PoolIds, Searching!KeyOf(p) = Searching!PairKey(Wsol, c[1])
    PROVE  LET ps == <<p>> \o w \o <<p>>
           IN  \E d : /\ Around(n + 2, ps, d) /\ d[1] = Wsol /\ ps[n + 2] = ps[1]
                      /\ Len(ps) = n + 2
                      /\ \/ Apart((n + 2) - 1, ps)
                         \/ n + 2 = 4 /\ ps[2] = ps[3]
  <1>0. n \in Nat /\ n >= 2 /\ w \in Seq(Searching!PoolIds) /\ Len(w) = n
    BY DEF CycleOf, WalkOf
  <1> DEFINE ps == <<p>> \o w \o <<p>>
             m == n + 2
             d == [i \in 1 .. m |-> IF i = 1 THEN Wsol ELSE IF i = m THEN c[1] ELSE c[i - 1]]
  <1>1. /\ Len(ps) = m /\ DOMAIN ps = 1 .. m /\ ps[1] = p /\ ps[m] = p
        /\ \A i \in 2 .. (m - 1) : ps[i] = w[i - 1]
    BY <1>0
  <1>2. {Pools[p].a, Pools[p].b} = {Wsol, c[1]} /\ Wsol # c[1]
    BY <1>0, TokensOf
  <1>3. Searching!Opposite(p, Wsol) = c[1] /\ Searching!Opposite(p, c[1]) = Wsol
    BY <1>2 DEF Searching!Opposite
  <1> HIDE DEF ps
  <1>4. ASSUME NEW i \in 2 .. (m - 1)
        PROVE  /\ i - 1 \in 1 .. n /\ ps[i] = w[i - 1] /\ d[i] = c[i - 1] /\ d[i + 1] = Searching!After(c, i - 1)
               /\ ps[i] \in Searching!PoolIds /\ d[i] \in {Pools[ps[i]].a, Pools[ps[i]].b}
               /\ Searching!Opposite(ps[i], d[i]) = d[i + 1] /\ ps[i] # p
    <2>1. i - 1 \in 1 .. n /\ i \in 1 .. m /\ i + 1 \in 1 .. m /\ i # 1 /\ i # m
      BY <1>0
    <2>2. ps[i] = w[i - 1] /\ d[i] = c[i - 1]
      BY <1>1, <2>1
    <2>3. d[i + 1] = IF i - 1 = n THEN c[1] ELSE c[(i - 1) + 1]
      BY <1>0, <2>1
    <2>4. Searching!After(c, i - 1) = IF i - 1 = n THEN c[1] ELSE c[(i - 1) + 1]
      BY <2>1, AfterFacts
    <2> HIDE DEF d
    <2>5. /\ w[i - 1] \in Searching!PoolIds /\ c[i - 1] \in {Pools[w[i - 1]].a, Pools[w[i - 1]].b}
          /\ Searching!Opposite(w[i - 1], c[i - 1]) = Searching!After(c, i - 1)
      BY <2>1 DEF WalkOf
    <2>6. Searching!After(c, i - 1) # Wsol /\ c[i - 1] # Wsol
      <3>1. 1 \in 1 .. n /\ (i - 1 # n => (i - 1) + 1 \in 1 .. n)
        BY <1>0, <2>1
      <3> QED
        BY <2>1, <2>4, <3>1
    <2>7. w[i - 1] # p
      BY <1>2, <2>5, <2>6 DEF Searching!Opposite
    <2> QED
      BY <2>1, <2>2, <2>3, <2>4, <2>5, <2>7
  <1>5. d[1] = Wsol /\ d[m] = c[1] /\ d[2] = c[1]
    BY <1>0
  <1>6. Around(m, ps, d)
    <2> HIDE DEF d
    <2>1. ASSUME NEW i \in 1 .. m
          PROVE  /\ ps[i] \in Searching!PoolIds /\ d[i] \in {Pools[ps[i]].a, Pools[ps[i]].b}
                 /\ Searching!Opposite(ps[i], d[i]) = IF i = m THEN d[1] ELSE d[i + 1]
      <3>0. m # 1
        BY <1>0
      <3>1. CASE i = 1
        <4>1. i # m /\ i + 1 = 2
          BY <3>0, <3>1
        <4> HIDE DEF m
        <4> QED
          BY <1>1, <1>2, <1>3, <1>5, <3>1, <4>1
      <3>2. CASE i = m
        <4> HIDE DEF m
        <4> QED
          BY <1>1, <1>2, <1>3, <1>5, <3>2
      <3>3. CASE i \in 2 .. (m - 1)
        <4>1. i # m
          BY <1>0, <3>3
        <4> HIDE DEF m
        <4> QED
          BY <1>4, <3>3, <4>1
      <3> QED
        BY <1>0, <3>1, <3>2, <3>3
    <2>2. m \in Nat /\ m >= 2
      BY <1>0
    <2> HIDE DEF m
    <2> QED
      BY <1>1, <2>1, <2>2 DEF Around
  <1>7. Apart(m - 1, ps) \/ (m = 4 /\ ps[2] = ps[3])
    <2>1. CASE Apart(n, w)
      <3> SUFFICES ASSUME NEW i \in 1 .. (m - 1), NEW j \in 1 .. (m - 1), i # j PROVE ps[i] # ps[j]
        BY DEF Apart
      <3>1. CASE i = 1 \/ j = 1
        <4>1. (i = 1 => j \in 2 .. (m - 1)) /\ (j = 1 => i \in 2 .. (m - 1))
          BY <1>0
        <4>2. \A k \in 2 .. (m - 1) : ps[k] # p
          BY <1>4
        <4> HIDE DEF m
        <4> QED
          BY <1>1, <3>1, <4>1, <4>2
      <3>2. CASE i # 1 /\ j # 1
        <4>1. i \in 2 .. (m - 1) /\ j \in 2 .. (m - 1) /\ i - 1 # j - 1
          BY <1>0, <3>2
        <4>2. i - 1 \in 1 .. n /\ j - 1 \in 1 .. n /\ ps[i] = w[i - 1] /\ ps[j] = w[j - 1]
          BY <1>4, <4>1
        <4> QED
          BY <2>1, <4>1, <4>2 DEF Apart
      <3> QED
        BY <3>1, <3>2
    <2>2. CASE n = 2 /\ w[1] = w[2]
      BY <1>1, <2>2
    <2> QED
      BY <2>1, <2>2, WalkApart
  <1> QED
    BY <1>1, <1>5, <1>6, <1>7 DEF ps

-----------------------------------------------------------------------------
(* The graph search.                                                       *)

\* A route that keeps a fifth of a transaction's fee gains.
LEMMA Gains ==
    ASSUME Stocked, NEW n, NEW ps, NEW d, Around(n, ps, d),
           NEW amount \in Nat, NEW cost \in Nat, NEW strategy,
           NEW r, r = Searching!Candidate(ps, d[1], amount, cost, strategy), 5 * r.net >= TxFee
    PROVE  r.net > 0
  <1>1. Counted(r)
    BY NetInt
  <1>2. TxFee \in Nat \ {0}
    BY PoolAssumption
  <1> QED
    BY <1>1, <1>2 DEF Counted

\* A route around a rotated cycle.
LEMMA RotatedFit ==
    ASSUME Stocked, NEW n, NEW c, CycleOf(n, c), NEW w, WalkOf(n, c, w),
           NEW f \in 1 .. n, c[f] \in Searching!Anchors, NEW amount \in Nat,
           NEW r, r = Searching!Candidate(Searching!RotateLeft(w, f), c[f], amount, Len(Searching!RotateLeft(w, f)) * TxFee, "bellman-ford"),
           5 * r.net >= TxFee
    PROVE  Fit(r)
  <1> DEFINE ps == Searching!RotateLeft(w, f)
             cost == Len(ps) * TxFee
  <1>1. PICK d : /\ Around(n, ps, d) /\ d[1] = c[f] /\ Len(ps) = n
                 /\ Apart(n, ps) \/ (n = 2 /\ ps[1] = ps[2])
    BY RotatedAround
  <1>2. cost \in Nat
    <2>1. n \in Nat /\ TxFee \in Nat
      BY PoolAssumption DEF CycleOf
    <2> HIDE DEF ps
    <2> QED
      BY <1>1, <2>1
  <1>3. r = Searching!Candidate(ps, d[1], amount, cost, "bellman-ford")
    BY <1>1
  <1> HIDE DEF ps, cost
  <1>4. r.net > 0
    BY <1>1, <1>2, <1>3, Gains
  <1>5. Apart(n, ps)
    BY <1>1, <1>2, <1>3, <1>4, BackAndForth
  <1>6. Sound(r) /\ r.hops[1].in = d[1] /\ HopCount(r) = n /\ r.strategy = "bellman-ford"
    <2>1. Around(n, ps, d)
      BY <1>1
    <2> QED
      BY <1>3, <1>4, <1>5, <2>1, AroundPays
  <1> QED
    BY <1>1, <1>6 DEF Fit, Searching!Borrowable

\* A route bridged from WSOL.
LEMMA BackFit ==
    ASSUME Stocked, NEW m, NEW ps, NEW d, Around(m, ps, d), m >= 3, ps[m] = ps[1],
           d[1] = Wsol, Apart(m - 1, ps) \/ (m = 4 /\ ps[2] = ps[3]),
           NEW amount \in Nat, NEW cost \in Nat,
           NEW r, r = Searching!Candidate(ps, d[1], amount, cost, "bellman-ford"),
           5 * r.net >= TxFee
    PROVE  Fit(r)
  <1>1. r.net > 0
    BY Gains
  <1>2. Apart(m - 1, ps)
    BY <1>1, BridgeLoses
  <1>3. Sound(r) /\ r.hops[1].in = d[1] /\ r.strategy = "bellman-ford"
    BY <1>1, <1>2, BridgePays
  <1> QED
    BY <1>3 DEF Fit, Searching!Borrowable, Searching!Anchors

LEMMA BridgedFit ==
    ASSUME Stocked, NEW n, NEW c, CycleOf(n, c), NEW w, WalkOf(n, c, w),
           \A i \in 1 .. n : c[i] # Wsol,
           NEW p \in Searching!PoolIds, Searching!KeyOf(p) = Searching!PairKey(Wsol, c[1]), NEW amount \in Nat,
           NEW r, r = Searching!Candidate(<<p>> \o w \o <<p>>, Wsol, amount,
                                Len(<<p>> \o w \o <<p>>) * TxFee, "bellman-ford"),
           5 * r.net >= TxFee
    PROVE  Fit(r)
  <1> DEFINE qs == <<p>> \o w \o <<p>>
  <1>1. PICK d : /\ Around(n + 2, qs, d) /\ d[1] = Wsol /\ qs[n + 2] = qs[1] /\ Len(qs) = n + 2
                 /\ Apart((n + 2) - 1, qs) \/ (n + 2 = 4 /\ qs[2] = qs[3])
    BY BridgeAround
  <1> HIDE DEF qs
  <1>2. r = Searching!Candidate(qs, Wsol, amount, Len(qs) * TxFee, "bellman-ford")
    BY DEF qs
  <1>3. PICK ps : ps = qs
    OBVIOUS
  <1>4. PICK m : m = n + 2
    OBVIOUS
  <1>5. PICK cost : cost = Len(ps) * TxFee
    OBVIOUS
  <1>6. m >= 3 /\ cost \in Nat
    <2>1. n \in Nat /\ n >= 2 /\ TxFee \in Nat
      BY PoolAssumption DEF CycleOf
    <2> QED
      BY <1>1, <1>3, <1>4, <1>5, <2>1
  <1>7. /\ Around(m, ps, d) /\ ps[m] = ps[1] /\ d[1] = Wsol
        /\ Apart(m - 1, ps) \/ (m = 4 /\ ps[2] = ps[3])
    BY <1>1, <1>3, <1>4
  <1>8. r = Searching!Candidate(ps, d[1], amount, cost, "bellman-ford")
    BY <1>2, <1>3, <1>5, <1>7
  <1> QED
    BY <1>6, <1>7, <1>8, BackFit

\* A way chosen for a cycle: a walk along it, from the first borrowable token
\* on or bridged there and back through one pool.
Rotated(y, n, c, w) ==
    \E i \in 1 .. n : /\ c[i] \in Searching!Anchors
                      /\ y.pools = Searching!RotateLeft(w, i) /\ y.token = c[i]

Bridged(y, n, c, w) ==
    \E p \in Searching!PoolIds :
        /\ Searching!KeyOf(p) = Searching!PairKey(Wsol, c[1])
        /\ \A i \in 1 .. n : c[i] # Wsol
        /\ y.pools = <<p>> \o w \o <<p>> /\ y.token = Wsol

Way(y) ==
    /\ y.amount \in Nat
    /\ \E n : \E c : \E w : /\ CycleOf(n, c) /\ WalkOf(n, c, w)
                            /\ Rotated(y, n, c, w) \/ Bridged(y, n, c, w)

\* What the re-quote makes of such a way fits, if its profit covers the fees.
LEMMA WayFit ==
    ASSUME Stocked, NEW y, Way(y), NEW r \in Searching!Requoted(y), 5 * r.net >= TxFee
    PROVE  Fit(r)
  <1>1. r = Searching!Candidate(y.pools, y.token, y.amount, Len(y.pools) * TxFee, "bellman-ford")
    BY DEF Searching!Requoted
  <1>2. PICK n : \E c : \E w : /\ CycleOf(n, c) /\ WalkOf(n, c, w)
                               /\ Rotated(y, n, c, w) \/ Bridged(y, n, c, w)
    BY DEF Way
  <1>3. PICK c : \E w : /\ CycleOf(n, c) /\ WalkOf(n, c, w)
                        /\ Rotated(y, n, c, w) \/ Bridged(y, n, c, w)
    BY <1>2
  <1>4. PICK w : /\ CycleOf(n, c) /\ WalkOf(n, c, w)
                 /\ Rotated(y, n, c, w) \/ Bridged(y, n, c, w)
    BY <1>3
  <1>5. PICK amount \in Nat : amount = y.amount
    BY DEF Way
  <1>6. CASE Rotated(y, n, c, w)
    <2>1. PICK i \in 1 .. n : /\ c[i] \in Searching!Anchors
                              /\ y.pools = Searching!RotateLeft(w, i) /\ y.token = c[i]
      BY <1>6 DEF Rotated
    <2>2. r = Searching!Candidate(Searching!RotateLeft(w, i), c[i], amount,
                                  Len(Searching!RotateLeft(w, i)) * TxFee, "bellman-ford")
      BY <1>1, <1>5, <2>1
    <2> QED
      BY <1>4, <2>1, <2>2, RotatedFit
  <1>7. CASE Bridged(y, n, c, w)
    <2>1. PICK p \in Searching!PoolIds :
              /\ Searching!KeyOf(p) = Searching!PairKey(Wsol, c[1])
              /\ \A i \in 1 .. n : c[i] # Wsol
              /\ y.pools = <<p>> \o w \o <<p>> /\ y.token = Wsol
      BY <1>7 DEF Bridged
    <2> DEFINE ps == <<p>> \o w \o <<p>>
    <2>2. r = Searching!Candidate(ps, Wsol, amount, Len(ps) * TxFee, "bellman-ford")
      BY <1>1, <1>5, <2>1
    <2> QED
      BY <1>4, <2>1, <2>2, BridgedFit
  <1> QED
    BY <1>4, <1>6, <1>7

\* What a walk is turned into is such a way.
LEMMA TurnedWay ==
    ASSUME NEW n, NEW c, CycleOf(n, c), NEW w, WalkOf(n, c, w), NEW x \in Nat,
           listed \subseteq Searching!PoolIds, NEW t \in Searching!Turned(c, w, x),
           NEW y, y.pools = t.pools, y.token = t.token, y.amount = x
    PROVE  Way(y)
  <1>1. n \in Nat /\ DOMAIN c = 1 .. n
    BY DEF CycleOf
  <1> DEFINE S == {i \in DOMAIN c : c[i] \in Searching!Anchors}
             first == CHOOSE i \in S : \A j \in S : i <= j
  <1>2. CASE S # {}
    <2>1. t = [pools |-> Searching!RotateLeft(w, first), token |-> c[first]]
      BY <1>2 DEF Searching!Turned
    <2>2. first \in S
      <3>1. S \subseteq Nat
        BY <1>1
      <3>2. \E i \in S : \A j \in S : i <= j
        <4> HIDE DEF S
        <4>1. PICK i \in S : \A j \in S : ~(j < i)
          BY <1>2, <3>1, LeastNat
        <4> QED
          BY <3>1, <4>1
      <3> HIDE DEF S
      <3> QED
        BY <3>2
    <2>3. first \in 1 .. n /\ c[first] \in Searching!Anchors
      BY <1>1, <2>2
    <2> HIDE DEF first
    <2>4. Rotated(y, n, c, w)
      BY <2>1, <2>3 DEF Rotated
    <2> QED
      BY <2>4 DEF Way
  <1>3. CASE S = {}
    <2>1. PICK p \in listed : /\ Searching!KeyOf(p) = Searching!PairKey(Wsol, c[1])
                              /\ t = [pools |-> <<p>> \o w \o <<p>>, token |-> Wsol]
      BY <1>3 DEF Searching!Turned
    <2>2. \A i \in 1 .. n : c[i] # Wsol
      BY <1>1, <1>3 DEF Searching!Anchors
    <2>3. Bridged(y, n, c, w)
      BY <2>1, <2>2 DEF Bridged
    <2> QED
      BY <2>3 DEF Way
  <1> QED
    BY <1>2, <1>3

\* The ways of a cycle are ways.
LEMMA WaysFit ==
    ASSUME Wired, listed \subseteq Searching!PoolIds, NEW c \in Searching!Cycles,
           NEW y \in Searching!WaysOf(c)
    PROVE  Way(y)
  <1>1. PICK x \in Searching!Range(Amounts) : y \in Searching!WaysFor(c, x)
    BY DEF Searching!WaysOf
  <1>2. x \in Nat
    BY SizesFacts DEF Searching!Sizes
  <1>3. PICK w \in Searching!Walks(c, x) :
            y \in {[pools |-> t.pools, token |-> t.token, amount |-> x] : t \in Searching!Turned(c, w, x)}
    BY <1>1 DEF Searching!WaysFor
  <1>4. PICK t \in Searching!Turned(c, w, x) : y = [pools |-> t.pools, token |-> t.token, amount |-> x]
    BY <1>3
  <1>5. PICK n : CycleOf(n, c)
    BY CyclesFacts
  <1>6. WalkOf(n, c, w)
    BY <1>5, WalkFacts
  <1>7. y.pools = t.pools /\ y.token = t.token /\ y.amount = x
    BY <1>4
  <1> QED
    BY <1>2, <1>5, <1>6, <1>7, TurnedWay

\* The cycle that is being tried has been walked.
Walked == \A y \in trial.ways : Way(y)

LEMMA WalkedStep ==
    ASSUME Wired, listed \subseteq Searching!PoolIds, Walked, Searching!WalkCycle
    PROVE  \A y \in trial'.ways : Way(y)
  <1>1. CASE trial' = trial
    BY <1>1 DEF Walked
  <1>2. CASE trial' = Searching!NoTrial
    BY <1>2 DEF Searching!NoTrial
  <1>3. CASE \E c \in Searching!Cycles :
                trial' = [key |-> Searching!CycleKey(c), ways |-> Searching!WaysOf(c)]
    <2>1. PICK c \in Searching!Cycles :
              trial' = [key |-> Searching!CycleKey(c), ways |-> Searching!WaysOf(c)]
      BY <1>3
    <2>2. trial'.ways = Searching!WaysOf(c)
      BY <2>1
    <2> QED
      BY <2>2, WaysFit
  <1> QED
    BY <1>1, <1>2, <1>3 DEF Searching!WalkCycle

\* What the search returns fits.
LEMMA RequoteFit ==
    ASSUME Stocked, Walked, Searching!RequoteCycle
    PROVE  \A r \in found' : Fit(r)
  <1>1. found' = Searching!BestOf(Searching!Profitable(UNION {Searching!Requoted(y) : y \in trial.ways}))
    BY DEF Searching!RequoteCycle
  <1> SUFFICES ASSUME NEW r \in found' PROVE Fit(r)
    OBVIOUS
  <1>2. r \in UNION {Searching!Requoted(y) : y \in trial.ways} /\ 5 * r.net >= TxFee
    BY <1>1 DEF Searching!BestOf, Searching!Profitable
  <1>3. PICK y \in trial.ways : r \in Searching!Requoted(y)
    BY <1>2
  <1> QED
    BY <1>2, <1>3, WayFit DEF Walked

LEMMA BuiltWired ==
    ASSUME listed \subseteq Searching!PoolIds
    PROVE  \A e \in DOMAIN Searching!Built : e[1] \in Searching!PoolIds /\ Searching!Trades(e[1], e[2])
  <1>1. DOMAIN Searching!Built = UNION {{p} \X Searching!EdgesOf(p) : p \in {q \in listed : Searching!PoolIsEligible(q)}}
    BY DEF Searching!Built
  <1> SUFFICES ASSUME NEW e \in DOMAIN Searching!Built PROVE e[1] \in Searching!PoolIds /\ Searching!Trades(e[1], e[2])
    OBVIOUS
  <1>2. PICK p \in listed : e \in {p} \X Searching!EdgesOf(p)
    BY <1>1
  <1>3. e[1] = p /\ e[2] \in Searching!EdgesOf(p)
    BY <1>2
  <1> QED
    BY <1>3 DEF Searching!EdgesOf, Searching!Trades

LEMMA ReweightedWired == DOMAIN Searching!Reweighted = DOMAIN graph
  BY DEF Searching!Reweighted

-----------------------------------------------------------------------------
(* The invariant of the search: the cache holds what the feeds may store,  *)
(* the index and the edges of the graph name pools, and what was found     *)
(* fits the cache, which does not move until it is handed on.              *)

SearchInv ==
    part # "engine" =>
        /\ Stocked /\ Indexed /\ Wired /\ Walked
        /\ listed \subseteq Searching!PoolIds
        /\ \A r \in found : Fit(r)

LEMMA SearchInvInit == MCInit => SearchInv
  <1> SUFFICES ASSUME Searching!Init
               PROVE  /\ Stocked /\ Indexed /\ Wired /\ Walked
                      /\ listed \subseteq Searching!PoolIds /\ found = {}
    BY DEF MCInit, SearchInv
  <1>1. pools = [p \in Searching!PoolIds |-> Searching!Even] /\ found = {} /\ index = Searching!RebuiltIndex
        /\ listed \subseteq Known /\ graph = <<>> /\ trial = Searching!NoTrial
    BY DEF Searching!Init, Searching!GraphInit
  <1>2. Searching!Even \in Seen
    BY DEF Searching!Even, Seen
  <1>3. Stocked
    BY <1>1, <1>2 DEF Stocked
  <1>4. Indexed
    BY <1>1, RebuiltIndexed DEF Indexed
  <1>5. Wired
    BY <1>1 DEF Wired
  <1>6. listed \subseteq Searching!PoolIds
    BY <1>1, PoolAssumption DEF Searching!PoolIds
  <1>7. Walked
    BY <1>1 DEF Walked, Searching!NoTrial
  <1> QED
    BY <1>1, <1>3, <1>4, <1>5, <1>6, <1>7

\* A feed's write keeps the cache stocked.
LEMMA MoveStocked ==
    ASSUME Stocked, NEW p, NEW c \in ReservesOf[p], Searching!MovePool(p, c)
    PROVE  Stocked'
  <1>1. pools' = [pools EXCEPT ![p] = c] /\ DOMAIN pools = Searching!PoolIds
    BY DEF Searching!MovePool, Stocked
  <1>2. p \in Searching!PoolIds => c \in Seen
    BY PoolAssumption DEF Searching!PoolIds
  <1>3. DOMAIN pools' = Searching!PoolIds
    BY <1>1
  <1>4. ASSUME NEW q \in Searching!PoolIds PROVE pools'[q] \in Seen
    BY <1>1, <1>2, <1>4 DEF Stocked
  <1> QED
    BY <1>3, <1>4 DEF Stocked

LEMMA StillWired ==
    ASSUME Wired, listed \subseteq Searching!PoolIds, Searching!BeginSearch
    PROVE  Wired'
  <1>1. graph' = Searching!Built \/ graph' = Searching!Reweighted
    BY DEF Searching!BeginSearch
  <1>2. CASE graph' = Searching!Built
    BY <1>2, BuiltWired DEF Wired
  <1>3. CASE graph' = Searching!Reweighted
    <2>1. DOMAIN graph' = DOMAIN graph
      BY <1>3, ReweightedWired
    <2> QED
      BY <2>1 DEF Wired
  <1> QED
    BY <1>1, <1>2, <1>3

\* What the invariant says outside of the engine's part.
Searched ==
    /\ Stocked /\ Indexed /\ Wired /\ Walked
    /\ listed \subseteq Searching!PoolIds
    /\ \A r \in found : Fit(r)

\* A way is one whatever the cache holds.
LEMMA WalkedStays ==
    ASSUME Walked, trial' = trial
    PROVE  Walked'
  BY DEF Walked

LEMMA SearchedStays ==
    ASSUME Searched, UNCHANGED <<pools, found, index, Searching!graphVars>>
    PROVE  Searched'
  <1>1. pools' = pools /\ found' = found /\ index' = index /\ listed' = listed /\ graph' = graph
        /\ trial' = trial
    BY DEF Searching!graphVars
  <1>2. \A r \in found' : Fit(r)'
    BY <1>1, FitStays DEF Searched
  <1> QED
    BY <1>1, <1>2, WalkedStays DEF Searched, Stocked, Indexed, Wired

LEMMA SearchedStep ==
    ASSUME Searched, Searching!Next
    PROVE  Searched'
  <1>0. /\ Stocked /\ Indexed /\ Wired /\ listed \subseteq Searching!PoolIds /\ \A r \in found : Fit(r)
        /\ Walked
    BY DEF Searched
  <1>1. CASE Searching!Scan /\ UNCHANGED <<Searching!graphVars, Searching!quoteVars>>
    <2>1. listed' = listed /\ graph' = graph /\ trial' = trial
      BY <1>1 DEF Searching!graphVars
    <2>2. pools' = pools /\ (index' = index \/ index' = Searching!RebuiltIndex) /\ \A r \in found' : Fit(r)
      BY <1>0, <1>1, ScanFit
    <2>3. \A r \in found' : Fit(r)'
      BY <2>2, FitStays
    <2>4. Indexed'
      BY <1>0, <2>2, RebuiltIndexed DEF Indexed
    <2> QED
      BY <1>0, <2>1, <2>2, <2>3, <2>4, WalkedStays DEF Searched, Stocked, Wired
  <1>2. CASE UNCHANGED <<pools, found, index, Searching!graphVars>>
    BY <1>2, SearchedStays
  <1>3. CASE Searching!BeginSearch /\ UNCHANGED <<index, Searching!quoteVars>>
    <2>1. pools' = pools /\ found' = found /\ listed' = listed /\ index' = index /\ trial' = trial
      BY <1>3 DEF Searching!BeginSearch
    <2>2. Wired'
      BY <1>0, <1>3, StillWired
    <2>3. \A r \in found' : Fit(r)'
      BY <1>0, <2>1, FitStays
    <2> QED
      BY <1>0, <2>1, <2>2, <2>3, WalkedStays DEF Searched, Stocked, Indexed
  <1>4. CASE Searching!RequoteCycle /\ UNCHANGED <<index, Searching!quoteVars>>
    <2>1. pools' = pools /\ listed' = listed /\ graph' = graph /\ index' = index
          /\ trial' = Searching!NoTrial
      BY <1>4 DEF Searching!RequoteCycle
    <2>2. \A r \in found' : Fit(r)
      BY <1>0, <1>4, RequoteFit
    <2>3. \A r \in found' : Fit(r)'
      BY <2>1, <2>2, FitStays
    <2>4. Walked'
      BY <2>1 DEF Walked, Searching!NoTrial
    <2> QED
      BY <1>0, <2>1, <2>3, <2>4 DEF Searched, Stocked, Indexed, Wired
  <1>8. CASE Searching!WalkCycle /\ UNCHANGED <<index, Searching!quoteVars>>
    <2>1. pools' = pools /\ listed' = listed /\ graph' = graph /\ index' = index /\ found' = found
      BY <1>8 DEF Searching!WalkCycle
    <2>2. \A y \in trial'.ways : Way(y)
      BY <1>0, <1>8, WalkedStep
    <2>3. \A r \in found' : Fit(r)'
      BY <1>0, <2>1, FitStays
    <2>4. Walked'
      BY <2>2 DEF Walked
    <2> QED
      BY <1>0, <2>1, <2>3, <2>4 DEF Searched, Stocked, Indexed, Wired
  <1>5. CASE (\E p \in Known : Searching!ListPool(p)) /\ UNCHANGED <<index, Searching!quoteVars>>
    <2>1. PICK p \in Known : Searching!ListPool(p)
      BY <1>5
    <2>2. pools' = pools /\ found' = found /\ graph' = graph /\ index' = index /\ listed' = listed \cup {p}
          /\ trial' = trial
      BY <1>5, <2>1 DEF Searching!ListPool
    <2>3. listed' \subseteq Searching!PoolIds
      BY <1>0, <2>2, PoolAssumption DEF Searching!PoolIds
    <2>4. \A r \in found' : Fit(r)'
      BY <1>0, <2>2, FitStays
    <2> QED
      BY <1>0, <2>2, <2>3, <2>4, WalkedStays DEF Searched, Stocked, Indexed, Wired
  <1>6. CASE Searching!HandOn /\ UNCHANGED <<Searching!graphVars, Searching!quoteVars>>
    <2>1. pools' = pools /\ found' = {} /\ index' = index /\ listed' = listed /\ graph' = graph
          /\ trial' = trial
      BY <1>6 DEF Searching!HandOn, Searching!graphVars
    <2> QED
      BY <1>0, <2>1, WalkedStays DEF Searched, Stocked, Indexed, Wired
  <1>7. CASE (\E p : \E c \in ReservesOf[p] : Searching!MovePool(p, c)) /\ UNCHANGED <<Searching!graphVars, Searching!quoteVars>>
    <2>1. PICK p : \E c \in ReservesOf[p] : Searching!MovePool(p, c)
      BY <1>7
    <2>2. PICK c \in ReservesOf[p] : Searching!MovePool(p, c)
      BY <2>1
    <2>3. found' = {} /\ index' = index /\ listed' = listed /\ graph' = graph /\ trial' = trial
      BY <1>7, <2>2 DEF Searching!MovePool, Searching!graphVars
    <2>4. Stocked'
      BY <1>0, <2>2, MoveStocked
    <2> QED
      BY <1>0, <2>3, <2>4, WalkedStays DEF Searched, Indexed, Wired
  <1> QED
    BY <1>1, <1>2, <1>3, <1>4, <1>5, <1>6, <1>7, <1>8, Zenon DEF Searching!Next, Searching!SearchGraph

LEMMA SearchInvStep == SearchInv /\ [MCNext]_<<part, vars, searchState>> => SearchInv'
  <1>1. SearchInv <=> (part # "engine" => Searched)
    BY DEF SearchInv, Searched
  <1>2. SearchInv' <=> (part' # "engine" => Searched')
    BY DEF SearchInv, Searched
  <1>3. ASSUME Searched, UNCHANGED searchState PROVE Searched'
    BY <1>3, SearchedStays DEF searchState, Searching!graphVars
  <1>4. ASSUME part # "engine", part' = part, Searched, Searching!Next PROVE Searched'
    BY <1>4, SearchedStep
  <1>5. ASSUME part # "engine", [MCNext]_<<part, vars, searchState>>, Searched
        PROVE  part' = part /\ Searched'
    <2>1. CASE UNCHANGED <<part, vars, searchState>>
      BY <1>3, <1>5, <2>1
    <2>2. CASE MCNext
      <3>1. Searching!Next
        BY <1>5, <2>2 DEF MCNext
      <3>2. part' = part
        BY <3>1 DEF Searching!Next
      <3> QED
        BY <1>4, <1>5, <3>1, <3>2
    <2> QED
      BY <1>5, <2>1, <2>2
  <1>6. ASSUME part = "engine", [MCNext]_<<part, vars, searchState>>
        PROVE  part' = "engine"
    BY <1>6 DEF MCNext
  <1> QED
    BY <1>1, <1>2, <1>5, <1>6

LEMMA SearchInvSound == SearchInv => RoutesPay /\ BorrowsAnchor
  <1> SUFFICES ASSUME part # "engine", \A r \in found : Fit(r)
               PROVE  /\ Searching!RoutesPay /\ Searching!BackrunsPayAfterSwap /\ Searching!BorrowsAnchor
    BY DEF SearchInv, RoutesPay, BorrowsAnchor
  <1>1. Searching!RoutesPay
    BY DEF Fit, Sound, Searching!RoutesPay
  <1>2. Searching!BackrunsPayAfterSwap
    BY DEF Fit, Searching!Backruns, Searching!BackrunsPayAfterSwap
  <1>3. Searching!BorrowsAnchor
    BY DEF Fit, Searching!BorrowsAnchor
  <1> QED
    BY <1>1, <1>2, <1>3

\* For every table of pools and reserves the feeds may store, every route that
\* a scanner or the graph search returns can be carried by a flash loan and
\* pays on the pools it was quoted from at least what it claims; a backrun does
\* so after one more swap like the whale's (build_route, the scanners,
\* check_backrun).
THEOREM RoutesAreSound == MCSpec => []RoutesPay
  <1>1. SearchInv => RoutesPay
    BY SearchInvSound
  <1> QED
    BY <1>1, SearchInvInit, SearchInvStep, PTL DEF MCSpec

\* Every route borrows a token that some flash-loan provider lends, but those
\* of three scanners and the circuits from USDT that the database holds
\* (BORROWABLE_MINTS, scan_multihop_hot_routes).
THEOREM RoutesBorrowAnchors == MCSpec => []BorrowsAnchor
  <1>1. SearchInv => BorrowsAnchor
    BY SearchInvSound
  <1> QED
    BY <1>1, SearchInvInit, SearchInvStep, PTL DEF MCSpec
=============================================================================
