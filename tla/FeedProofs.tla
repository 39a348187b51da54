----------------------------- MODULE FeedProofs -----------------------------
(***************************************************************************)
(* TLAPS proofs about the services that follow the chain, for any pools,   *)
(* accounts, batches, streams, failures and length of the chain: the       *)
(* hydrator leaves a Raydium pool without its market only when the market  *)
(* was asked for in vain; the account cache of agave-lite-core implements  *)
(* LatestSlot; and what mini-agave and the simulation server answer is     *)
(* sound.                                                                  *)
(***************************************************************************)
EXTENDS MCFeeds, FiniteSetTheorems, WellFoundedInduction, TLAPS

-----------------------------------------------------------------------------
(* PoolHydrator                                                            *)

\* Entries keep their fields, whichever thread writes them.
Shape == /\ DOMAIN entry = Pools /\ DOMAIN unanswered = Pools /\ DOMAIN dex = Pools
         /\ \A p \in Pools :
              /\ DOMAIN entry[p] = {"meta", "vault", "reserve"}
              /\ "known" \in DOMAIN entry[p].meta
              /\ entry[p].meta.known \in BOOLEAN
              /\ entry[p].meta.known => {"state", "extras"} \subseteq DOMAIN entry[p].meta
         /\ DOMAIN round = {"at", "steady", "mapped", "todo", "answer", "pending",
                            "states", "got", "lost", "targets"}

\* The market stage of refresh_all gets what it asks for or loses it: while it
\* runs, the market of a pending pool is to be asked for, has just been
\* answered, was kept or was lost.
MarketIsSomewhere(p) ==
  <<p, "market">> \in round.todo \cup DOMAIN round.answer \cup round.got \cup round.lost

MarketsAccounted ==
  round.at = "RaydiumAmmV4" =>
    \A p \in round.pending : dex[p] = "RaydiumAmmV4" => MarketIsSomewhere(p)

IInv == Shape /\ MarketsAccounted /\ UnresolvedOnlyOnFailure

-----------------------------------------------------------------------------
\* An empty answer answers nothing.
LEMMA NoneIsEmpty == DOMAIN None = {}
  BY DEF None

\* Before the first round no Raydium metadata is cached.
LEMMA InitIInv == ASSUME NEW venues PROVE HydratorInit(venues) => IInv
<1> SUFFICES ASSUME HydratorInit(venues) PROVE IInv
  OBVIOUS
<1>1. round = Asleep /\ DOMAIN unanswered = Pools /\ DOMAIN dex = Pools
  BY DEF HydratorInit
<1>2. \A p \in Pools : entry[p] = Loaded(p)
  BY DEF HydratorInit
<1>3. DOMAIN entry = Pools
  BY DEF HydratorInit
<1>4. \A p \in Pools : /\ DOMAIN Loaded(p) = {"meta", "vault", "reserve"}
                       /\ "known" \in DOMAIN Loaded(p).meta
                       /\ Loaded(p).meta.known \in BOOLEAN
                       /\ Loaded(p).meta.known =>
                            {"state", "extras"} \subseteq DOMAIN Loaded(p).meta
                       /\ dex[p] = "RaydiumAmmV4" => ~Loaded(p).meta.known
  <2> SUFFICES ASSUME NEW p \in Pools
               PROVE  /\ DOMAIN Loaded(p) = {"meta", "vault", "reserve"}
                      /\ "known" \in DOMAIN Loaded(p).meta
                      /\ Loaded(p).meta.known \in BOOLEAN
                      /\ Loaded(p).meta.known =>
                           {"state", "extras"} \subseteq DOMAIN Loaded(p).meta
                      /\ dex[p] = "RaydiumAmmV4" => ~Loaded(p).meta.known
    OBVIOUS
  <2>1. CASE dex[p] = "OrcaWhirlpool"
    BY <2>1 DEF Loaded, Meta
  <2>2. CASE dex[p] # "OrcaWhirlpool"
    BY <2>2 DEF Loaded, NoMeta
  <2> QED BY <2>1, <2>2
<1>5. Shape
  BY <1>1, <1>2, <1>3, <1>4 DEF Shape, Asleep
<1>6. MarketsAccounted
  BY <1>1 DEF MarketsAccounted, Asleep
<1>7. UnresolvedOnlyOnFailure
  BY <1>2, <1>4 DEF UnresolvedOnlyOnFailure
<1> QED BY <1>5, <1>6, <1>7 DEF IInv

\* Steps of the round that leave the cache alone: only its own record changes.
LEMMA RoundOnly ==
  ASSUME IInv, UNCHANGED <<dex, entry, unanswered>>, DOMAIN round' = DOMAIN round,
         MarketsAccounted'
  PROVE  IInv'
  BY DEF IInv, Shape, UnresolvedOnlyOnFailure

\* A request answers or loses what it asks for.
LEMMA FetchIInv == ASSUME IInv, NEW stage, Fetch(stage) PROVE IInv'
<1> DEFINE chunk == Chunk(round.todo)
<1>1. PICK found \in SUBSET chunk :
        round' = [round EXCEPT !.todo = @ \ chunk, !.answer = Answered(found),
                               !.lost = @ \cup (chunk \ found)]
  BY DEF Fetch
<1>2. UNCHANGED <<dex, entry, unanswered>> /\ round.answer = None
  BY DEF Fetch, others
<1> HIDE DEF chunk
<1>3. DOMAIN Answered(found) = found
  BY DEF Answered
<1>4. /\ DOMAIN round' = DOMAIN round
      /\ round'.at = round.at /\ round'.pending = round.pending /\ round'.got = round.got
      /\ round'.todo = round.todo \ chunk
      /\ round'.answer = Answered(found)
      /\ round'.lost = round.lost \cup (chunk \ found)
  BY <1>1 DEF IInv, Shape
<1>5. \A p : MarketIsSomewhere(p) => MarketIsSomewhere(p)'
  BY <1>2, <1>3, <1>4, NoneIsEmpty DEF MarketIsSomewhere
<1>6. MarketsAccounted'
  BY <1>2, <1>4, <1>5 DEF MarketsAccounted, IInv
<1> QED BY <1>2, <1>4, <1>6, RoundOnly

\* An answer of the market stage is kept, and a stage asks for the markets of
\* the Raydium pools that wait for them.
LEMMA RoundRecordIInv ==
  ASSUME IInv, StartRound(FALSE) \/ StartRound(TRUE) \/ EnterExtras \/ KeepExtras
                 \/ EnterVaults \/ EndRound
  PROVE  IInv'
<1>1. UNCHANGED <<dex, entry, unanswered>>
  BY DEF StartRound, EnterExtras, Enter, KeepExtras, EnterVaults, EndRound, others
<1>2. CASE StartRound(FALSE) \/ StartRound(TRUE)
  <2>1. DOMAIN round' = DOMAIN round /\ round'.at = "accounts"
    BY <1>2 DEF StartRound, Asleep, IInv, Shape
  <2> QED BY <1>1, <2>1, RoundOnly DEF MarketsAccounted
<1>3. CASE Enter("OrcaWhirlpool", "RaydiumAmmV4")
  <2>1. /\ DOMAIN round' = DOMAIN round
        /\ round'.pending = round.pending
        /\ round'.todo = Requests("RaydiumAmmV4")
    BY <1>3 DEF Enter, IInv, Shape
  <2>2. \A p \in round.pending : dex[p] = "RaydiumAmmV4" =>
          <<p, "market">> \in Requests("RaydiumAmmV4")
    BY DEF Requests, Extras
  <2>3. MarketsAccounted'
    BY <1>1, <2>1, <2>2 DEF MarketsAccounted, MarketIsSomewhere
  <2> QED BY <1>1, <2>1, <2>3, RoundOnly
<1>4. CASE Enter("accounts", "MeteoraDlmm") \/ Enter("MeteoraDlmm", "OrcaWhirlpool")
  <2>1. DOMAIN round' = DOMAIN round /\ round'.at # "RaydiumAmmV4"
    BY <1>4 DEF Enter, IInv, Shape
  <2> QED BY <1>1, <2>1, RoundOnly DEF MarketsAccounted
<1>5. CASE KeepExtras
  <2>1. /\ DOMAIN round' = DOMAIN round
        /\ round'.at = round.at /\ round'.pending = round.pending
        /\ round'.todo = round.todo /\ round'.lost = round.lost
        /\ round'.got = round.got \cup DOMAIN round.answer
    BY <1>5 DEF KeepExtras, IInv, Shape
  <2>2. \A p : MarketIsSomewhere(p) => MarketIsSomewhere(p)'
    BY <2>1 DEF MarketIsSomewhere
  <2>3. MarketsAccounted'
    BY <1>1, <2>1, <2>2 DEF MarketsAccounted, IInv
  <2> QED BY <1>1, <2>1, <2>3, RoundOnly
<1>6. CASE EnterVaults
  <2>1. DOMAIN round' = DOMAIN round /\ round'.at = "vaults"
    BY <1>6 DEF EnterVaults, IInv, Shape
  <2> QED BY <1>1, <2>1, RoundOnly DEF MarketsAccounted
<1>7. CASE EndRound
  <2>1. DOMAIN round' = DOMAIN round /\ round'.at = "asleep"
    BY <1>7 DEF EndRound, Asleep, IInv, Shape
  <2> QED BY <1>1, <2>1, RoundOnly DEF MarketsAccounted
<1> QED BY <1>2, <1>3, <1>4, <1>5, <1>6, <1>7 DEF EnterExtras

-----------------------------------------------------------------------------
\* An entry that keeps its fields and whose metadata keeps what is known and
\* its extras.
SameMeta(e, f) == /\ DOMAIN f = DOMAIN e
                  /\ DOMAIN f.meta = DOMAIN e.meta
                  /\ f.meta.known = e.meta.known
                  /\ e.meta.known => f.meta.extras = e.meta.extras

\* A balance leaves the metadata as it is.
LEMMA BalanceKeepsMeta ==
  ASSUME NEW e, DOMAIN e = {"meta", "vault", "reserve"}, NEW kind, NEW amount
  PROVE  SameMeta(e, WithBalance(e, kind, amount))
<1> DEFINE f == WithBalance(e, kind, amount)
<1>1. DOMAIN f = DOMAIN e /\ f.meta = e.meta
  BY DEF WithBalance
<1> QED BY <1>1 DEF SameMeta

\* Writes of one entry that keep its metadata keep the invariant.
LEMMA EntryIInv ==
  ASSUME IInv, NEW q, NEW f, UNCHANGED <<dex, unanswered>>,
         entry' = [entry EXCEPT ![q] = f],
         q \in Pools => SameMeta(entry[q], f),
         DOMAIN round' = DOMAIN round, MarketsAccounted'
  PROVE  IInv'
<1>1. DOMAIN entry' = Pools
  BY DEF IInv, Shape
<1>2. \A p \in Pools : SameMeta(entry[p], entry'[p])
  <2> SUFFICES ASSUME NEW p \in Pools PROVE SameMeta(entry[p], entry'[p])
    OBVIOUS
  <2>1. entry'[p] = IF p = q THEN f ELSE entry[p]
    BY DEF IInv, Shape
  <2> QED BY <2>1 DEF SameMeta
<1>3. Shape'
  BY <1>1, <1>2 DEF IInv, Shape, SameMeta
<1>4. UnresolvedOnlyOnFailure'
  BY <1>2 DEF IInv, UnresolvedOnlyOnFailure, SameMeta
<1> QED BY <1>3, <1>4 DEF IInv

\* The metadata of a pool's account goes in at once unless it is a Raydium one,
\* which waits for its market.
LEMMA StoreAccountIInv == ASSUME IInv, StoreAccount PROVE IInv'
<1>1. PICK p \in DOMAIN round.answer :
        /\ round' = [round EXCEPT !.answer = Without(@, p),
                         !.pending = IF Decodes(p) THEN @ \cup {p} ELSE @,
                         !.states[p] = round.answer[p]]
        /\ entry' = IF Decodes(p) /\ dex[p] # "RaydiumAmmV4"
                    THEN [entry EXCEPT ![p].meta = Meta(OnChain[p], round.answer[p], {})]
                    ELSE entry
  BY DEF StoreAccount
<1>2. UNCHANGED <<dex, unanswered>> /\ round.at = "accounts"
  BY DEF StoreAccount, others
<1>3. DOMAIN round' = DOMAIN round /\ round'.at = "accounts"
  BY <1>1, <1>2 DEF IInv, Shape
<1>4. MarketsAccounted'
  BY <1>3 DEF MarketsAccounted
<1> DEFINE m == Meta(OnChain[p], round.answer[p], {})
<1>5. {"known", "state", "extras"} \subseteq DOMAIN m /\ m.known = TRUE
  BY DEF Meta
<1> HIDE DEF m
<1>6. CASE entry' = entry
  BY <1>2, <1>3, <1>4, <1>6, RoundOnly
<1>7. CASE entry' = [entry EXCEPT ![p].meta = m] /\ dex[p] # "RaydiumAmmV4"
  <2>1. /\ DOMAIN entry' = Pools
        /\ \A q \in Pools : q # p => entry'[q] = entry[q]
        /\ p \in Pools => /\ DOMAIN entry'[p] = DOMAIN entry[p]
                          /\ entry'[p].meta = m
    BY <1>7 DEF IInv, Shape
  <2>2. Shape'
    BY <1>2, <1>3, <1>5, <2>1 DEF IInv, Shape
  <2>3. UnresolvedOnlyOnFailure'
    BY <1>2, <1>7, <2>1 DEF IInv, UnresolvedOnlyOnFailure
  <2> QED BY <1>4, <2>2, <2>3 DEF IInv
<1> QED BY <1>1, <1>6, <1>7 DEF m

\* A Raydium metadata goes in when the market stage is through: its market has
\* been kept, or was asked for in vain.
LEMMA StoreExtrasIInv == ASSUME IInv, StoreExtras PROVE IInv'
<1>1. PICK p \in round.pending :
        LET got == {x \in Extras(dex[p]) : <<p, x>> \in round.got}
        IN /\ Done(dex[p])
           /\ round' = [round EXCEPT !.pending = @ \ {p}]
           /\ entry' = IF dex[p] = "RaydiumAmmV4"
                       THEN [entry EXCEPT ![p].meta = Meta(OnChain[p], round.states[p], got)]
                       ELSE IF got # {} THEN [entry EXCEPT ![p].meta.extras = got] ELSE entry
           /\ unanswered' = [unanswered EXCEPT ![p] = <<p, "market">> \in round.lost]
           /\ UNCHANGED others
  BY DEF StoreExtras
<1> DEFINE got == {x \in Extras(dex[p]) : <<p, x>> \in round.got}
           m == Meta(OnChain[p], round.states[p], got)
<1>2. /\ dex' = dex /\ DOMAIN unanswered' = Pools
      /\ \A q \in Pools : q # p => unanswered'[q] = unanswered[q]
      /\ p \in Pools /\ <<p, "market">> \in round.lost => unanswered'[p]
  BY <1>1 DEF others, IInv, Shape
<1>3. /\ DOMAIN round' = DOMAIN round
      /\ round'.at = round.at /\ round'.todo = round.todo /\ round'.answer = round.answer
      /\ round'.got = round.got /\ round'.lost = round.lost
      /\ round'.pending = round.pending \ {p}
  BY <1>1 DEF IInv, Shape
<1>4. MarketsAccounted'
  BY <1>2, <1>3 DEF IInv, MarketsAccounted, MarketIsSomewhere
<1>5. {"known", "state", "extras"} \subseteq DOMAIN m /\ m.known = TRUE /\ m.extras = got
  BY DEF Meta
<1>6. CASE dex[p] = "RaydiumAmmV4"
  <2>1. got # {} \/ <<p, "market">> \in round.lost
    <3>1. MarketIsSomewhere(p)
      BY <1>1, <1>6 DEF Done, IInv, MarketsAccounted
    <3>2. round.todo = {} /\ DOMAIN round.answer = {}
      BY <1>1, NoneIsEmpty DEF Done
    <3>3. "market" \in Extras(dex[p])
      BY <1>6 DEF Extras
    <3> QED BY <3>1, <3>2, <3>3 DEF MarketIsSomewhere
  <2>2. entry' = [entry EXCEPT ![p].meta = m]
    BY <1>1, <1>6
  <2> HIDE DEF got, m
  <2>3. /\ DOMAIN entry' = Pools
        /\ \A q \in Pools : q # p => entry'[q] = entry[q]
        /\ p \in Pools => /\ DOMAIN entry'[p] = DOMAIN entry[p]
                          /\ entry'[p].meta = m
    BY <2>2 DEF IInv, Shape
  <2>4. Shape'
    BY <1>2, <1>3, <1>5, <2>3 DEF IInv, Shape
  <2>5. UnresolvedOnlyOnFailure'
    <3> SUFFICES ASSUME NEW q \in Pools, dex[q] = "RaydiumAmmV4", entry'[q].meta.known
                 PROVE  entry'[q].meta.extras # {} \/ unanswered'[q]
      BY <1>2 DEF UnresolvedOnlyOnFailure
    <3>1. CASE q = p
      BY <1>2, <1>5, <2>1, <2>3, <3>1
    <3>2. CASE q # p
      <4>1. entry'[q] = entry[q] /\ unanswered'[q] = unanswered[q]
        BY <1>2, <2>3, <3>2
      <4> QED BY <4>1 DEF IInv, UnresolvedOnlyOnFailure
    <3> QED BY <3>1, <3>2
  <2> QED BY <1>4, <2>4, <2>5 DEF IInv
<1>7. CASE dex[p] # "RaydiumAmmV4"
  <2>1. entry' = [entry EXCEPT ![p].meta.extras = got] \/ entry' = entry
    BY <1>1, <1>7
  <2> HIDE DEF got, m
  <2>2. /\ DOMAIN entry' = Pools
        /\ \A q \in Pools : q # p => entry'[q] = entry[q]
        /\ p \in Pools => /\ DOMAIN entry'[p] = DOMAIN entry[p]
                          /\ DOMAIN entry'[p].meta = DOMAIN entry[p].meta
                          /\ entry'[p].meta.known = entry[p].meta.known
    BY <2>1 DEF IInv, Shape
  <2>3. Shape'
    BY <1>2, <1>3, <2>2 DEF IInv, Shape
  <2>4. UnresolvedOnlyOnFailure'
    <3> SUFFICES ASSUME NEW q \in Pools, dex[q] = "RaydiumAmmV4", entry'[q].meta.known
                 PROVE  entry'[q].meta.extras # {} \/ unanswered'[q]
      BY <1>2 DEF UnresolvedOnlyOnFailure
    <3>1. entry'[q] = entry[q] /\ unanswered'[q] = unanswered[q]
      BY <1>2, <1>7, <2>2
    <3> QED BY <3>1 DEF IInv, UnresolvedOnlyOnFailure
  <2> QED BY <1>4, <2>3, <2>4 DEF IInv
<1> QED BY <1>6, <1>7

\* Balances never touch the metadata (set_vault_balance).
LEMMA StoreBalanceIInv == ASSUME IInv, StoreBalance PROVE IInv'
<1> DEFINE k == First(round.answer)
           v == round.targets[k]
           f == WithBalance(entry[v.pool], v.kind, round.answer[k])
<1>1. /\ entry' = [entry EXCEPT ![v.pool] = f]
      /\ round' = [round EXCEPT !.answer = Without(@, k)]
      /\ UNCHANGED <<dex, unanswered>>
      /\ round.at = "vaults"
  BY DEF StoreBalance, others
<1>2. v.pool \in Pools => SameMeta(entry[v.pool], f)
  BY BalanceKeepsMeta DEF IInv, Shape
<1> HIDE DEF k, v, f
<1>3. DOMAIN round' = DOMAIN round /\ round'.at = "vaults"
  BY <1>1 DEF IInv, Shape
<1>4. MarketsAccounted'
  BY <1>3 DEF MarketsAccounted
<1> QED BY <1>1, <1>2, <1>3, <1>4, EntryIInv

\* refresh_single_pool writes balances, or the account of a pool whose
\* metadata is cached; neither touches what the metadata leads to.
LEMMA SingleStoresIInv == ASSUME IInv, SingleStores PROVE IInv'
<1> DEFINE k == First(single.answer)
           q == single.pool
           e == entry[q]
           kind == single.targets[k].kind
           value == single.answer[k]
           f == Refreshed(e, kind, value)
<1>1. entry' = [entry EXCEPT ![q] = f] /\ UNCHANGED <<dex, unanswered, round>>
  BY DEF SingleStores, rest
<1>2. q \in Pools => SameMeta(e, f)
  <2> SUFFICES ASSUME q \in Pools PROVE SameMeta(e, f)
    OBVIOUS
  <2>1. /\ DOMAIN e = {"meta", "vault", "reserve"} /\ "known" \in DOMAIN e.meta
        /\ e.meta.known => {"state", "extras"} \subseteq DOMAIN e.meta
    BY DEF IInv, Shape
  <2>2. SameMeta(e, [e EXCEPT !.meta.state = value])
    BY <2>1 DEF SameMeta
  <2>3. SameMeta(e, [e EXCEPT !.reserve.a = value])
    BY <2>1 DEF SameMeta
  <2>4. SameMeta(e, [e EXCEPT !.reserve.b = value])
    BY <2>1 DEF SameMeta
  <2>5. SameMeta(e, WithBalance(e, kind, value))
    BY <2>1, BalanceKeepsMeta
  <2> HIDE DEF e, kind, value, q
  <2>6. \/ f = [e EXCEPT !.meta.state = value]
        \/ f = [e EXCEPT !.reserve.a = value]
        \/ f = [e EXCEPT !.reserve.b = value]
        \/ f = WithBalance(e, kind, value)
    BY DEF Refreshed
  <2> QED BY <2>2, <2>3, <2>4, <2>5, <2>6
<1>3. MarketsAccounted'
  BY <1>1 DEF IInv, MarketsAccounted, MarketIsSomewhere
<1> HIDE DEF f, e, q
<1> QED BY <1>1, <1>2, <1>3, EntryIInv DEF e

\* Every step of the two threads and of the chain keeps the invariant.
LEMMA NextIInv == IInv /\ [Next]_vars => IInv'
<1> SUFFICES ASSUME IInv, [Next]_vars PROVE IInv'
  OBVIOUS
<1>1. ASSUME UNCHANGED <<dex, entry, round, unanswered>> PROVE IInv'
  BY <1>1 DEF IInv, Shape, MarketsAccounted, MarketIsSomewhere, UnresolvedOnlyOnFailure
<1>2. CASE Round
  <2>1. CASE FetchAccounts \/ FetchExtras \/ FetchVaults
    BY <2>1, FetchIInv DEF FetchAccounts, FetchExtras, FetchVaults
  <2>2. CASE StoreAccount \/ StoreExtras \/ StoreBalance
    BY <2>2, StoreAccountIInv, StoreExtrasIInv, StoreBalanceIInv
  <2>3. CASE StartRound(FALSE) \/ EnterExtras \/ KeepExtras \/ EnterVaults \/ EndRound
    BY <2>3, RoundRecordIInv
  <2> QED BY <1>2, <2>1, <2>2, <2>3 DEF Round
<1>3. CASE StartRound(TRUE)
  BY <1>3, RoundRecordIInv
<1>4. CASE SingleStores
  BY <1>4, SingleStoresIInv
<1>5. CASE Produce \/ StartSingle \/ SingleAccount \/ SingleAnswered
  BY <1>1, <1>5 DEF Produce, StartSingle, SingleAccount, SingleAnswered, rest
<1>6. CASE UNCHANGED vars
  BY <1>1, <1>6 DEF vars
<1> QED BY <1>2, <1>3, <1>4, <1>5, <1>6 DEF Next

-----------------------------------------------------------------------------
\* The types of the hydrator.  A balance is at most one more than the changes
\* there have been, and so is what the two threads carry.
Amounts == 0 .. (MaxChanges + 1)

ChainType == /\ changes \in 0 .. MaxChanges
             /\ \A k \in DOMAIN chain : chain[k] \in 0 .. (changes + 1)

EntryType == \A p \in Pools : \A k \in DOMAIN entry[p].vault : entry[p].vault[k] \in Amounts

\* An answer is of what is no longer to do; in the stage of the accounts both
\* are pools of the round.
RoundType ==
  /\ round.answer \in [DOMAIN round.answer -> Amounts]
  /\ DOMAIN round.answer \cap round.todo = {}
  /\ round.mapped \subseteq Pools /\ round.pending \subseteq round.mapped
  /\ round.at = "accounts" => round.todo \cup DOMAIN round.answer \subseteq round.mapped

\* A single refresh asks for something, and stores as long as it has some of it.
SingleType ==
  /\ DOMAIN single = {"at", "pool", "targets", "answer"}
  /\ single.answer \in [DOMAIN single.answer -> Amounts]
  /\ single.at = "vaults" => DOMAIN single.targets # {}
  /\ single.at = "storing" => DOMAIN single.answer # {}

HydratorInv == IInv /\ ChainType /\ EntryType /\ RoundType /\ SingleType

\* The amounts are numbers, and 0 and 1 among them.
LEMMA AmountsHold ==
  ASSUME Deployment
  PROVE  /\ MaxChanges \in Nat /\ 0 \in Amounts /\ 1 \in Amounts
         /\ ChainType => \A k \in DOMAIN chain : chain[k] \in Amounts
<1>1. MaxChanges \in Nat
  BY DEF Deployment
<1> QED BY <1>1 DEF Amounts, ChainType

\* What is answered is a balance, or of an account that is just there.
LEMMA AnsweredType ==
  ASSUME Deployment, ChainType, NEW found
  PROVE  Answered(found) \in [found -> Amounts]
  BY AmountsHold DEF Answered

\* A chunk is a part of what is to do.
LEMMA ChunkIsPart ==
  ASSUME Deployment, NEW todo, IsFiniteSet(todo)
  PROVE  Chunk(todo) \subseteq todo
<1> DEFINE n == IF Cardinality(todo) < BatchSize THEN Cardinality(todo) ELSE BatchSize
<1>1. BatchSize \in Nat \ {0} /\ Cardinality(todo) \in Nat
  BY FS_CardinalityType DEF Deployment
<1>2. n \in Nat /\ n <= Cardinality(todo)
  BY <1>1
<1>3. PICK f \in Bijection(1 .. Cardinality(todo), todo) : TRUE
  BY FS_CardinalityType DEF ExistsBijection
<1> HIDE DEF n
<1> DEFINE c == {f[i] : i \in 1 .. n}
           g == [i \in 1 .. n |-> f[i]]
<1>4. c \in SUBSET todo
  BY <1>1, <1>2, <1>3 DEF Bijection, Injection
<1>5. g \in Bijection(1 .. n, c)
  <2>1. \A i, j \in 1 .. n : f[i] = f[j] => i = j
    BY <1>1, <1>2, <1>3 DEF Bijection, Injection, IsInjective
  <2>2. g \in [1 .. n -> c] /\ \A t \in c : \E s \in 1 .. n : g[s] = t
    OBVIOUS
  <2> QED BY <2>1, <2>2 DEF Bijection, Injection, Surjection, IsInjective
<1>6. Cardinality(c) = n
  BY <1>2, <1>5, FS_CountingElements DEF ExistsBijection
<1> HIDE DEF c
<1>7. \E d \in SUBSET todo : Cardinality(d) = n
  BY <1>4, <1>6
<1> QED BY <1>7, Zenon DEF Chunk, n

\* Before the first round there is nothing but zeros.
LEMMA InitHydratorInv ==
  ASSUME Deployment, NEW venues, HydratorInit(venues) PROVE HydratorInv
<1>1. IInv
  BY InitIInv
<1>2. /\ chain = [k \in Vaults \cup Pools |-> 1] /\ changes = 0 /\ round = Asleep
      /\ single = Waiting /\ entry = [p \in Pools |-> Loaded(p)]
  BY DEF HydratorInit
<1>3. ChainType
  BY <1>2, AmountsHold DEF ChainType
<1>4. EntryType
  BY <1>2, AmountsHold DEF EntryType, Loaded
<1>5. None \in [DOMAIN None -> Amounts] /\ DOMAIN None = {}
  BY DEF None
<1>6. RoundType
  BY <1>2, <1>5 DEF RoundType, Asleep
<1>7. SingleType
  BY <1>2, <1>5 DEF SingleType, Waiting
<1> QED BY <1>1, <1>3, <1>4, <1>6, <1>7 DEF HydratorInv

\* A request.
LEMMA FetchType ==
  ASSUME Deployment, HydratorInv, NEW stage, Fetch(stage)
  PROVE  RoundType' /\ UNCHANGED <<chain, changes, entry, single>>
<1> DEFINE chunk == Chunk(round.todo)
<1>1. PICK found \in SUBSET chunk :
        round' = [round EXCEPT !.todo = @ \ chunk, !.answer = Answered(found),
                               !.lost = @ \cup (chunk \ found)]
  BY DEF Fetch
<1>2. UNCHANGED <<chain, changes, entry, single>>
  BY DEF Fetch, others
<1>3. round.at = "accounts" => chunk \subseteq round.todo
  <2> SUFFICES ASSUME round.at = "accounts" PROVE chunk \subseteq round.todo
    OBVIOUS
  <2>1. round.todo \subseteq Pools /\ IsFiniteSet(Pools)
    BY DEF HydratorInv, RoundType, Deployment
  <2> QED BY <2>1, FS_Subset, ChunkIsPart
<1> HIDE DEF chunk
<1>4. Answered(found) \in [found -> Amounts] /\ DOMAIN Answered(found) = found
  BY AnsweredType DEF HydratorInv
<1>5. /\ round'.at = round.at /\ round'.pending = round.pending
      /\ round'.mapped = round.mapped
      /\ round'.todo = round.todo \ chunk /\ round'.answer = Answered(found)
  BY <1>1 DEF HydratorInv, IInv, Shape
<1>6. round'.at = "accounts" => round'.todo \cup DOMAIN round'.answer \subseteq round'.mapped
  BY <1>3, <1>4, <1>5 DEF HydratorInv, RoundType
<1> QED BY <1>2, <1>4, <1>5, <1>6 DEF HydratorInv, RoundType

\* An answer without one of its keys.
LEMMA WithoutType ==
  ASSUME NEW f, f \in [DOMAIN f -> Amounts], NEW k
  PROVE  /\ DOMAIN Without(f, k) = DOMAIN f \ {k}
         /\ Without(f, k) \in [DOMAIN f \ {k} -> Amounts]
  BY DEF Without

\* The steps that only write the record of the round.
LEMMA RoundRecordType ==
  ASSUME Deployment, HydratorInv,
         StartRound(FALSE) \/ StartRound(TRUE) \/ EnterExtras \/ KeepExtras
           \/ EnterVaults \/ EndRound
  PROVE  RoundType' /\ UNCHANGED <<chain, changes, entry, single>>
<1>1. UNCHANGED <<chain, changes, entry, single>>
  BY DEF StartRound, EnterExtras, Enter, KeepExtras, EnterVaults, EndRound, others
<1>2. None \in [DOMAIN None -> Amounts] /\ DOMAIN None = {}
  BY DEF None
<1>3. CASE StartRound(FALSE) \/ StartRound(TRUE)
  <2>1. PICK active \in SUBSET Pools :
          /\ round'.mapped = Mapped(active) /\ round'.todo = Mapped(active)
          /\ round'.answer = None /\ round'.pending = {}
    BY <1>3 DEF StartRound, Asleep
  <2>2. Mapped(active) \subseteq Pools
    BY DEF Mapped
  <2> QED BY <1>1, <1>2, <2>1, <2>2 DEF RoundType
<1>4. CASE EnterExtras
  <2>1. PICK from, venue :
          /\ Enter(from, venue) /\ venue # "accounts"
    BY <1>4 DEF EnterExtras
  <2>2. /\ round'.at = venue /\ round.answer = None /\ round'.answer = None
        /\ round'.pending = round.pending /\ round'.mapped = round.mapped
    BY <2>1 DEF Enter, Done, HydratorInv, IInv, Shape
  <2> QED BY <1>1, <1>2, <2>1, <2>2 DEF HydratorInv, RoundType
<1>5. CASE KeepExtras
  <2>1. /\ round'.at = round.at /\ round.at # "accounts" /\ round'.answer = None
        /\ round'.pending = round.pending /\ round'.mapped = round.mapped
    BY <1>5 DEF KeepExtras, ExtraVenues, HydratorInv, IInv, Shape
  <2> QED BY <1>1, <1>2, <2>1 DEF HydratorInv, RoundType
<1>6. CASE EnterVaults
  <2>1. /\ round'.at = "vaults" /\ round.answer = None /\ round'.answer = None
        /\ round'.pending = round.pending /\ round'.mapped = round.mapped
    BY <1>6 DEF EnterVaults, Done, HydratorInv, IInv, Shape
  <2> QED BY <1>1, <1>2, <2>1 DEF HydratorInv, RoundType
<1>7. CASE EndRound
  <2>1. /\ round'.at = "asleep" /\ round'.answer = None
        /\ round'.pending = {} /\ round'.mapped = {} /\ round'.todo = {}
    BY <1>7 DEF EndRound, Asleep
  <2> QED BY <1>1, <1>2, <2>1 DEF RoundType
<1> QED BY <1>3, <1>4, <1>5, <1>6, <1>7

\* A balance written is one of the amounts.
LEMMA BalanceType ==
  ASSUME NEW e, DOMAIN e = {"meta", "vault", "reserve"}, NEW kind, NEW amount \in Amounts,
         \A k \in DOMAIN e.vault : e.vault[k] \in Amounts
  PROVE  \A k \in DOMAIN WithBalance(e, kind, amount).vault :
           WithBalance(e, kind, amount).vault[k] \in Amounts
<1>1. WithBalance(e, kind, amount).vault = [e.vault EXCEPT ![kind] = amount]
  BY DEF WithBalance
<1> QED BY <1>1

\* The write of one entry whose balances are amounts.
LEMMA EntryWrite ==
  ASSUME HydratorInv, NEW q, NEW f, entry' = [entry EXCEPT ![q] = f],
         q \in Pools => \A k \in DOMAIN f.vault : f.vault[k] \in Amounts
  PROVE  EntryType'
<1>1. \A p \in Pools : entry'[p] = IF p = q THEN f ELSE entry[p]
  BY DEF HydratorInv, IInv, Shape
<1> QED BY <1>1 DEF HydratorInv, EntryType

\* The stores of a round.
LEMMA StoreAccountType ==
  ASSUME HydratorInv, StoreAccount
  PROVE  RoundType' /\ EntryType' /\ UNCHANGED <<chain, changes, single>>
<1>1. PICK p \in DOMAIN round.answer :
        /\ round' = [round EXCEPT !.answer = Without(@, p),
                         !.pending = IF Decodes(p) THEN @ \cup {p} ELSE @,
                         !.states[p] = round.answer[p]]
        /\ entry' = IF Decodes(p) /\ dex[p] # "RaydiumAmmV4"
                    THEN [entry EXCEPT ![p].meta = Meta(OnChain[p], round.answer[p], {})]
                    ELSE entry
  BY DEF StoreAccount
<1>2. UNCHANGED <<chain, changes, single>> /\ round.at = "accounts"
  BY DEF StoreAccount, others
<1>3. /\ round'.at = "accounts" /\ round'.todo = round.todo /\ round'.mapped = round.mapped
      /\ round'.answer = Without(round.answer, p)
      /\ round'.pending \subseteq round.pending \cup {p}
  BY <1>1, <1>2 DEF HydratorInv, IInv, Shape
<1>4. /\ DOMAIN round'.answer = DOMAIN round.answer \ {p}
      /\ round'.answer \in [DOMAIN round'.answer -> Amounts]
  <2>1. round.answer \in [DOMAIN round.answer -> Amounts]
    BY DEF HydratorInv, RoundType
  <2>2. /\ DOMAIN Without(round.answer, p) = DOMAIN round.answer \ {p}
        /\ Without(round.answer, p) \in [DOMAIN round.answer \ {p} -> Amounts]
    BY <2>1, WithoutType
  <2> QED BY <1>3, <2>2
<1>5. RoundType'
  BY <1>2, <1>3, <1>4 DEF HydratorInv, RoundType
<1>6. \A q \in Pools : entry'[q].vault = entry[q].vault
  BY <1>1 DEF HydratorInv, IInv, Shape
<1>7. EntryType'
  BY <1>6 DEF HydratorInv, EntryType
<1> QED BY <1>2, <1>5, <1>7

LEMMA StoreExtrasType ==
  ASSUME HydratorInv, StoreExtras
  PROVE  RoundType' /\ EntryType' /\ UNCHANGED <<chain, changes, single>>
<1>1. PICK p \in round.pending :
        LET got == {x \in Extras(dex[p]) : <<p, x>> \in round.got}
        IN /\ round' = [round EXCEPT !.pending = @ \ {p}]
           /\ entry' = IF dex[p] = "RaydiumAmmV4"
                       THEN [entry EXCEPT ![p].meta = Meta(OnChain[p], round.states[p], got)]
                       ELSE IF got # {} THEN [entry EXCEPT ![p].meta.extras = got] ELSE entry
           /\ UNCHANGED others
  BY DEF StoreExtras
<1>2. /\ round'.at = round.at /\ round'.todo = round.todo /\ round'.mapped = round.mapped
      /\ round'.answer = round.answer /\ round'.pending = round.pending \ {p}
  BY <1>1 DEF HydratorInv, IInv, Shape
<1>3. RoundType'
  BY <1>2 DEF HydratorInv, RoundType
<1>4. \A q \in Pools : entry'[q].vault = entry[q].vault
  BY <1>1 DEF HydratorInv, IInv, Shape
<1> QED BY <1>1, <1>3, <1>4 DEF others, HydratorInv, EntryType

LEMMA StoreBalanceType ==
  ASSUME HydratorInv, StoreBalance
  PROVE  RoundType' /\ EntryType' /\ UNCHANGED <<chain, changes, single>>
<1> DEFINE k == First(round.answer)
           v == round.targets[k]
           f == WithBalance(entry[v.pool], v.kind, round.answer[k])
<1>1. /\ entry' = [entry EXCEPT ![v.pool] = f]
      /\ round' = [round EXCEPT !.answer = Without(@, k)]
      /\ UNCHANGED <<chain, changes, single>>
      /\ round.at = "vaults" /\ round.answer # None
  BY DEF StoreBalance, others
<1>2. DOMAIN round.answer # {}
  <2>1. round.answer \in [DOMAIN round.answer -> Amounts]
    BY DEF HydratorInv, RoundType
  <2> QED BY <1>1, <2>1 DEF None
<1>3. k \in DOMAIN round.answer /\ round.answer[k] \in Amounts
  BY <1>2 DEF First, HydratorInv, RoundType
<1>4. v.pool \in Pools => \A x \in DOMAIN f.vault : f.vault[x] \in Amounts
  BY <1>3, BalanceType DEF HydratorInv, IInv, Shape, EntryType
<1> HIDE DEF k, v, f
<1>5. EntryType'
  BY <1>1, <1>4, EntryWrite
<1>6. /\ round'.at = "vaults" /\ round'.todo = round.todo /\ round'.mapped = round.mapped
      /\ round'.pending = round.pending /\ round'.answer = Without(round.answer, k)
  BY <1>1 DEF HydratorInv, IInv, Shape
<1>7. RoundType'
  <2>1. round.answer \in [DOMAIN round.answer -> Amounts]
    BY DEF HydratorInv, RoundType
  <2>2. /\ DOMAIN Without(round.answer, k) = DOMAIN round.answer \ {k}
        /\ Without(round.answer, k) \in [DOMAIN round.answer \ {k} -> Amounts]
    BY <2>1, WithoutType
  <2> QED BY <1>6, <2>2 DEF HydratorInv, RoundType
<1> QED BY <1>1, <1>5, <1>7

\* The thread of the single refreshes asks, or stores what was answered.
LEMMA SingleAsks ==
  ASSUME Deployment, HydratorInv, StartSingle \/ SingleAccount \/ SingleAnswered
  PROVE  SingleType' /\ UNCHANGED <<chain, changes, entry, round>>
<1>1. UNCHANGED <<chain, changes, entry, round>>
  BY DEF StartSingle, SingleAccount, SingleAnswered, rest
<1>2. None \in [DOMAIN None -> Amounts] /\ DOMAIN None = {}
  BY DEF None
<1>3. single' = Waiting => SingleType'
  BY <1>2 DEF SingleType, Waiting
<1>4. \A vaults : vaults # {} => DOMAIN ByKey(vaults) # {}
  BY DEF ByKey
<1>5. CASE StartSingle
  <2>0. PICK p \in Pools : \E asked :
          /\ asked # {} \/ dex[p] = "PumpSwap"
          /\ single' = [at |-> IF dex[p] = "PumpSwap" THEN "account" ELSE "vaults",
                        pool |-> p, targets |-> ByKey(asked), answer |-> None]
    BY <1>5 DEF StartSingle
  <2>1. PICK asked :
          /\ asked # {} \/ dex[p] = "PumpSwap"
          /\ single' = [at |-> IF dex[p] = "PumpSwap" THEN "account" ELSE "vaults",
                        pool |-> p, targets |-> ByKey(asked), answer |-> None]
    BY <2>0
  <2>2. single'.at = "vaults" => DOMAIN single'.targets # {}
    BY <1>4, <2>1
  <2> QED BY <1>1, <1>2, <2>1, <2>2 DEF SingleType
<1>6. CASE SingleAccount
  <2> DEFINE vaults == VaultsOf(OnChain[single.pool], single.pool)
  <2>1. \/ single' = Waiting
        \/ single' = [single EXCEPT !.at = "vaults", !.targets = ByKey(vaults)]
    BY <1>6 DEF SingleAccount
  <2>2. DOMAIN ByKey(vaults) # {}
    <3>1. vaults # {}
      BY DEF VaultsOf
    <3> HIDE DEF vaults
    <3> QED BY <1>4, <3>1
  <2> HIDE DEF vaults
  <2>3. CASE single' = [single EXCEPT !.at = "vaults", !.targets = ByKey(vaults)]
    <3>1. /\ DOMAIN single' = DOMAIN single /\ single'.at = "vaults"
          /\ single'.targets = ByKey(vaults) /\ single'.answer = single.answer
      BY <2>3 DEF HydratorInv, SingleType
    <3> QED BY <1>1, <2>2, <3>1 DEF HydratorInv, SingleType
  <2> QED BY <1>1, <1>3, <2>1, <2>3
<1>7. CASE SingleAnswered
  <2> DEFINE asked == DOMAIN single.targets
  <2>1. /\ single.at = "vaults"
        /\ \/ single' = Waiting
           \/ single' = [single EXCEPT !.at = "storing", !.answer = Answered(asked)]
    BY <1>7 DEF SingleAnswered
  <2>2. Answered(asked) \in [asked -> Amounts] /\ asked # {}
    BY <2>1, AnsweredType DEF HydratorInv, SingleType
  <2> HIDE DEF asked
  <2>3. CASE single' = [single EXCEPT !.at = "storing", !.answer = Answered(asked)]
    <3>1. /\ DOMAIN single' = DOMAIN single /\ single'.at = "storing"
          /\ single'.answer = Answered(asked)
      BY <2>3 DEF HydratorInv, SingleType
    <3> QED BY <1>1, <2>2, <3>1 DEF HydratorInv, SingleType
  <2> QED BY <1>1, <1>3, <2>1, <2>3
<1> QED BY <1>5, <1>6, <1>7

LEMMA SingleStoresType ==
  ASSUME HydratorInv, SingleStores
  PROVE  SingleType' /\ EntryType' /\ UNCHANGED <<chain, changes, round>>
<1> DEFINE k == First(single.answer)
           q == single.pool
           e == entry[q]
           kind == single.targets[k].kind
           value == single.answer[k]
           f == Refreshed(e, kind, value)
<1>1. /\ entry' = [entry EXCEPT ![q] = f] /\ UNCHANGED <<chain, changes, round>>
      /\ single.at = "storing"
      /\ single' = IF DOMAIN single.answer = {k} THEN Waiting
                   ELSE [single EXCEPT !.answer = Without(@, k)]
  BY DEF SingleStores, rest
<1>2. k \in DOMAIN single.answer /\ value \in Amounts
  BY <1>1 DEF First, HydratorInv, SingleType
<1>3. q \in Pools => \A x \in DOMAIN f.vault : f.vault[x] \in Amounts
  <2> SUFFICES ASSUME q \in Pools PROVE \A x \in DOMAIN f.vault : f.vault[x] \in Amounts
    OBVIOUS
  <2>1. /\ DOMAIN e = {"meta", "vault", "reserve"}
        /\ \A x \in DOMAIN e.vault : e.vault[x] \in Amounts
    BY DEF HydratorInv, IInv, Shape, EntryType
  <2>2. /\ [e EXCEPT !.meta.state = value].vault = e.vault
        /\ [e EXCEPT !.reserve.a = value].vault = e.vault
        /\ [e EXCEPT !.reserve.b = value].vault = e.vault
    BY <2>1
  <2>3. \A x \in DOMAIN WithBalance(e, kind, value).vault :
          WithBalance(e, kind, value).vault[x] \in Amounts
    BY <1>2, <2>1, BalanceType
  <2> HIDE DEF e, kind, value, q
  <2>4. \/ f = [e EXCEPT !.meta.state = value]
        \/ f = [e EXCEPT !.reserve.a = value]
        \/ f = [e EXCEPT !.reserve.b = value]
        \/ f = WithBalance(e, kind, value)
    BY DEF Refreshed
  <2> HIDE DEF f
  <2> QED BY <2>1, <2>2, <2>3, <2>4
<1>4. single.answer \in [DOMAIN single.answer -> Amounts]
  BY DEF HydratorInv, SingleType
<1> HIDE DEF f, e, q, k
<1>5. EntryType'
  BY <1>1, <1>3, EntryWrite
<1>6. CASE single' = Waiting
  <2>1. None \in [DOMAIN None -> Amounts]
    BY DEF None
  <2> QED BY <1>1, <1>5, <1>6, <2>1 DEF SingleType, Waiting
<1>7. CASE single' = [single EXCEPT !.answer = Without(@, k)] /\ DOMAIN single.answer # {k}
  <2>1. /\ DOMAIN Without(single.answer, k) = DOMAIN single.answer \ {k}
        /\ Without(single.answer, k) \in [DOMAIN single.answer \ {k} -> Amounts]
    BY <1>4, WithoutType
  <2>2. /\ DOMAIN single' = DOMAIN single /\ single'.at = "storing"
        /\ single'.answer = Without(single.answer, k)
    BY <1>1, <1>7 DEF HydratorInv, SingleType
  <2>3. DOMAIN single.answer \ {k} # {}
    BY <1>2, <1>7
  <2>4. SingleType'
    BY <2>1, <2>2, <2>3 DEF HydratorInv, SingleType
  <2> QED BY <1>1, <1>5, <2>4
<1> QED BY <1>1, <1>6, <1>7

LEMMA NextHydratorInv == ASSUME Deployment PROVE HydratorInv /\ [Next]_vars => HydratorInv'
<1> SUFFICES ASSUME HydratorInv, [Next]_vars PROVE HydratorInv'
  OBVIOUS
<1>1. IInv'
  BY NextIInv DEF HydratorInv
<1>2. UNCHANGED <<chain, changes>> => ChainType'
  BY DEF HydratorInv, ChainType
<1>3. UNCHANGED entry => EntryType'
  BY DEF HydratorInv, EntryType
<1>4. UNCHANGED round => RoundType'
  BY DEF HydratorInv, RoundType
<1>5. UNCHANGED single => SingleType'
  BY DEF HydratorInv, SingleType
<1>6. CASE Round \/ StartRound(TRUE)
  <2>1. CASE FetchAccounts \/ FetchExtras \/ FetchVaults
    BY <1>1, <1>2, <1>3, <1>5, <2>1, FetchType
       DEF FetchAccounts, FetchExtras, FetchVaults, HydratorInv
  <2>2. CASE StoreAccount \/ StoreExtras \/ StoreBalance
    BY <1>1, <1>2, <1>5, <2>2, StoreAccountType, StoreExtrasType, StoreBalanceType
       DEF HydratorInv
  <2>3. CASE StartRound(FALSE) \/ StartRound(TRUE) \/ EnterExtras \/ KeepExtras \/ EnterVaults
             \/ EndRound
    BY <1>1, <1>2, <1>3, <1>5, <2>3, RoundRecordType DEF HydratorInv
  <2> QED BY <1>6, <2>1, <2>2, <2>3 DEF Round
<1>7. CASE StartSingle \/ SingleAccount \/ SingleAnswered
  BY <1>1, <1>2, <1>3, <1>4, <1>7, SingleAsks DEF HydratorInv
<1>8. CASE SingleStores
  BY <1>1, <1>2, <1>4, <1>8, SingleStoresType DEF HydratorInv
<1>9. CASE Produce
  <2>1. PICK k \in DOMAIN chain : /\ changes < MaxChanges /\ changes' = changes + 1
                                  /\ chain' = [chain EXCEPT ![k] = @ + 1]
    BY <1>9 DEF Produce
  <2>2. UNCHANGED <<entry, round, single>>
    BY <1>9 DEF Produce
  <2>3. changes \in Nat /\ MaxChanges \in Nat
    BY AmountsHold DEF HydratorInv, ChainType
  <2>4. ChainType'
    BY <2>1, <2>3 DEF HydratorInv, ChainType
  <2> QED BY <1>1, <1>3, <1>4, <1>5, <2>2, <2>4 DEF HydratorInv
<1>10. CASE UNCHANGED vars
  BY <1>1, <1>2, <1>3, <1>4, <1>5, <1>10 DEF vars, HydratorInv
<1> QED BY <1>6, <1>7, <1>8, <1>9, <1>10 DEF Next

LEMMA HydratorTypes == ASSUME HydratorInv PROVE TypeOK
  BY DEF HydratorInv, EntryType, RoundType, Amounts, TypeOK

\* A cached Raydium pool has its market, unless the market was asked for in
\* vain in the round that stored it: for any pools, requests that fail, part
\* answers and single refreshes in between (refresh_all).
THEOREM MarketsAreAskedFor ==
  ASSUME NEW venues
  PROVE  HydratorInit(venues) /\ [][Next]_vars => []UnresolvedOnlyOnFailure
<1>1. HydratorInit(venues) => IInv
  BY InitIInv
<1>2. IInv => UnresolvedOnlyOnFailure
  BY DEF IInv
<1> QED BY <1>1, <1>2, NextIInv, PTL

-----------------------------------------------------------------------------
(* AgaveLite                                                               *)

\* What the writers carry is of a slot the chain has reached: an update on the
\* stream, the stamp of the poller, the slot the subscriber is to report.
Updates == [key : Lite!Keys \cup {"slot"}, slot : 0 .. alTip, data : Lite!Missing .. alTip]
Answers == [key : Lite!Keys, slot : Lite!Missing .. alTip, data : Lite!Missing .. alTip]

ChainInv == /\ alTip \in 0 .. LiteSlots
            /\ alVersion \in [Lite!Keys -> Lite!Missing .. alTip]
            /\ node \in [view : [Lite!Keys -> Lite!Missing .. alTip], slot : 0 .. alTip]
            /\ alStream \in Seq(Updates)

CacheInv == /\ cache \in [Lite!Keys -> [slot : -1 .. alTip, data : Lite!Missing .. alTip]]
            /\ slot \in 0 .. alTip
            /\ poll \in [at : {"asleep", "answered", "storing"},
                         batch : 0 .. (Lite!Batches - 1),
                         answer : Seq(Answers), stamp : 0 .. alTip]
            /\ sub \in [connected : BOOLEAN, backoff : Nat, seen : 0 .. alTip]

LiteInv == ChainInv /\ CacheInv

-----------------------------------------------------------------------------
\* Max and Min of two numbers.
LEMMA TwoNumbers ==
  ASSUME NEW a \in Int, NEW b \in Int
  PROVE  /\ Lite!Max({a, b}) \in {a, b} /\ Lite!Max({a, b}) >= a /\ Lite!Max({a, b}) >= b
         /\ Lite!Min({a, b}) \in {a, b} /\ Lite!Min({a, b}) <= a /\ Lite!Min({a, b}) <= b
<1>1. \E x \in {a, b} : \A y \in {a, b} : x >= y
  BY SMT
<1>2. \E x \in {a, b} : \A y \in {a, b} : x =< y
  BY SMT
<1>3. Lite!Max({a, b}) \in {a, b} /\ \A y \in {a, b} : Lite!Max({a, b}) >= y
  BY <1>1, Zenon DEF Lite!Max
<1>4. Lite!Min({a, b}) \in {a, b} /\ \A y \in {a, b} : Lite!Min({a, b}) =< y
  BY <1>2, Zenon DEF Lite!Min
<1> QED BY <1>3, <1>4

\* A sequence of elements of a set is one of any larger set.
LEMMA SeqOfSubset ==
  ASSUME NEW A, NEW B, A \subseteq B, NEW s \in Seq(A)
  PROVE  s \in Seq(B)
<1>1. s \in [1 .. Len(s) -> A] /\ Len(s) \in Nat
  OBVIOUS
<1>2. s \in [1 .. Len(s) -> B]
  BY <1>1
<1> QED BY <1>1, <1>2

\* A stream extended by the updates of a slot and the slot itself.
LEMMA Extended ==
  ASSUME NEW T, NEW s \in Seq(T), NEW t \in Seq(T), NEW e \in T
  PROVE  s \o t \o <<e>> \in Seq(T)
<1>1. s \o t \in Seq(T) /\ <<e>> \in Seq(T)
  OBVIOUS
<1> QED BY <1>1

\* A finite set can be put in a sequence of its elements.
LEMMA SetToSeqType ==
  ASSUME NEW S, IsFiniteSet(S)
  PROVE  Lite!SetToSeq(S) \in Seq(S) /\ Len(Lite!SetToSeq(S)) = Cardinality(S)
<1>1. Cardinality(S) \in Nat /\ ExistsBijection(1 .. Cardinality(S), S)
  BY FS_CardinalityType
<1>2. \E f \in [1 .. Cardinality(S) -> S] : Lite!IsInjective(f)
  BY <1>1 DEF ExistsBijection, Bijection, Injection, IsInjective, Lite!IsInjective
<1>3. Lite!Cardinality(S) = Cardinality(S)
  BY Zenon DEF Cardinality, Lite!Cardinality
<1>4. Lite!SetToSeq(S) \in [1 .. Cardinality(S) -> S]
  BY <1>2, <1>3, Zenon DEF Lite!SetToSeq
<1> QED BY <1>1, <1>4

\* The accounts are finitely many, and so is any set of updates of them.
LEMMA UpdatesOf ==
  ASSUME Deployment, NEW S \in SUBSET Lite!Keys, NEW f \in [Lite!Keys -> Int]
  PROVE  LET U == {Lite!Update(k, f[k]) : k \in S} IN
         /\ IsFiniteSet(U)
         /\ Lite!SetToSeq(U) \in Seq(U)
<1> DEFINE U == {Lite!Update(k, f[k]) : k \in S}
<1>1. IsFiniteSet(Lite!Keys)
  <2>1. KeySeq \in [1 .. Len(KeySeq) -> Lite!Keys] /\ Len(KeySeq) \in Nat
    BY DEF Deployment
  <2>2. \A k \in Lite!Keys : \E i \in 1 .. Len(KeySeq) : KeySeq[i] = k
    BY <2>1 DEF Lite!Keys, Lite!ToSet
  <2>3. KeySeq \in Surjection(1 .. Len(KeySeq), Lite!Keys)
    BY <2>1, <2>2 DEF Surjection
  <2> QED BY <2>1, <2>3, FS_Interval, FS_Surjection
<1>2. IsFiniteSet(S)
  BY <1>1, FS_Subset
<1> DEFINE g == [k \in S |-> Lite!Update(k, f[k])]
<1>3. g \in Surjection(S, U)
  BY DEF Surjection
<1>4. IsFiniteSet(U)
  BY <1>2, <1>3, FS_Surjection
<1> HIDE DEF U
<1>5. Lite!SetToSeq(U) \in Seq(U)
  BY <1>4, SetToSeqType
<1> QED BY <1>4, <1>5 DEF U

\* A batch is a part of the accounts, in their order.
LEMMA BatchOfKeys ==
  ASSUME Deployment, NEW i \in Nat
  PROVE  Lite!Batch(i) \in Seq(Lite!Keys)
<1>1. KeySeq \in Seq(Lite!Keys) /\ Len(KeySeq) \in Nat
  BY DEF Deployment
<1>2. i * PollBatch \in Nat /\ (i + 1) * PollBatch \in Nat
  BY DEF Deployment
<1> DEFINE m == i * PollBatch + 1
           n == Lite!Min({(i + 1) * PollBatch, Len(KeySeq)})
<1>3. m \in Nat /\ m >= 1 /\ n \in Nat /\ n <= Len(KeySeq)
  <2> DEFINE a == (i + 1) * PollBatch
             l == Len(KeySeq)
  <2>1. a \in Int /\ l \in Int
    BY <1>1, <1>2
  <2> HIDE DEF a, l
  <2>2. Lite!Min({a, l}) \in {a, l} /\ Lite!Min({a, l}) <= l
    BY <2>1, TwoNumbers
  <2>3. n \in Nat /\ n <= Len(KeySeq)
    BY <1>1, <1>2, <2>2 DEF a, l
  <2> QED BY <1>2, <2>3
<1> HIDE DEF m, n
<1>4. SubSeq(KeySeq, m, n) \in Seq(Lite!Keys)
  BY <1>1, <1>3
<1> QED BY <1>4 DEF Lite!Batch, m, n

\* There is at least one batch, and the next one is one of them.
LEMMA BatchesCount ==
  ASSUME Deployment
  PROVE  /\ Lite!Batches \in Nat \ {0}
         /\ \A i \in Nat : (i + 1) % Lite!Batches \in 0 .. (Lite!Batches - 1)
<1>1. Len(KeySeq) \in Nat \ {0} /\ PollBatch \in Nat \ {0}
  BY DEF Deployment
<1>2. \A l, b \in Nat \ {0} : (l + b - 1) \div b \in Nat \ {0}
  BY Z3
<1>3. Lite!Batches \in Nat \ {0}
  BY <1>1, <1>2 DEF Lite!Batches
<1> QED BY <1>3

-----------------------------------------------------------------------------
\* Every slot in sight is reached at the start: there is only slot 0.
LEMMA InitLiteInv == ASSUME Deployment PROVE Lite!Init => LiteInv
<1> SUFFICES ASSUME Lite!Init PROVE LiteInv
  OBVIOUS
<1>1. alTip = 0 /\ LiteSlots \in Nat
  BY DEF Lite!Init, Deployment
<1>2. ChainInv
  BY <1>1 DEF Lite!Init, ChainInv, Lite!Missing
<1>3. CacheInv
  <2>1. cache \in [Lite!Keys -> [slot : -1 .. alTip, data : Lite!Missing .. alTip]]
    BY <1>1 DEF Lite!Init, Lite!LoadedFrom, Lite!Absent, Lite!Missing
  <2>2. poll = Lite!Idle /\ <<>> \in Seq(Answers) /\ 0 \in 0 .. (Lite!Batches - 1)
    BY BatchesCount DEF Lite!Init
  <2> QED BY <1>1, <2>1, <2>2 DEF Lite!Init, CacheInv, Lite!Idle
<1> QED BY <1>2, <1>3 DEF LiteInv

\* The next slot of the chain: what was reached stays reached.
LEMMA LiteProduce == ASSUME Deployment, LiteInv, Lite!Produce PROVE LiteInv'
<1> PICK changed \in SUBSET Lite!Keys :
      LET updates == Lite!SetToSeq({Lite!Update(k, alTip + 1) : k \in changed})
      IN /\ alTip < LiteSlots
         /\ alTip' = alTip + 1
         /\ alVersion' = [k \in Lite!Keys |-> IF k \in changed THEN alTip + 1 ELSE alVersion[k]]
         /\ alStream' = IF sub.connected THEN alStream \o updates \o <<Lite!SlotUpdate(alTip + 1)>>
                      ELSE alStream
         /\ UNCHANGED <<node, cache, slot, poll, sub>>
  BY DEF Lite!Produce
<1>1. alTip \in Nat /\ alTip' = alTip + 1 /\ alTip' \in 0 .. LiteSlots
  BY DEF LiteInv, ChainInv, Deployment
<1>2. alVersion' \in [Lite!Keys -> Lite!Missing .. alTip']
  BY <1>1 DEF LiteInv, ChainInv, Lite!Missing
<1>3. node' \in [view : [Lite!Keys -> Lite!Missing .. alTip'], slot : 0 .. alTip']
  BY <1>1 DEF LiteInv, ChainInv, Lite!Missing
<1>4. alStream \in Seq(Updates')
  <2>1. Updates \subseteq Updates'
    BY <1>1 DEF Updates, Lite!Missing
  <2> QED BY <2>1 DEF LiteInv, ChainInv
<1>5. alStream' \in Seq(Updates')
  <2> DEFINE f == [k \in Lite!Keys |-> alTip + 1]
             U == {Lite!Update(k, f[k]) : k \in changed}
             V == {Lite!Update(k, alTip + 1) : k \in changed}
  <2>1. f \in [Lite!Keys -> Int]
    BY <1>1
  <2>2. Lite!SetToSeq(U) \in Seq(U)
    BY <2>1, UpdatesOf
  <2>3. U = V
    OBVIOUS
  <2>4. V \subseteq Updates'
    BY <1>1 DEF Lite!Update, Updates, Lite!Missing
  <2>6. Lite!SlotUpdate(alTip + 1) \in Updates'
    BY <1>1 DEF Lite!SlotUpdate, Updates, Lite!Missing
  <2> HIDE DEF V, U
  <2>5. Lite!SetToSeq(V) \in Seq(Updates')
    BY <2>2, <2>3, <2>4, SeqOfSubset
  <2>7. alStream' = IF sub.connected THEN alStream \o Lite!SetToSeq(V) \o <<Lite!SlotUpdate(alTip + 1)>>
                  ELSE alStream
    BY DEF V
  <2> QED BY <1>4, <2>5, <2>6, <2>7, Extended
<1>6. CacheInv'
  <2>1. Answers \subseteq Answers'
    BY <1>1 DEF Answers, Lite!Missing
  <2>2. cache' \in [Lite!Keys -> [slot : -1 .. alTip', data : Lite!Missing .. alTip']]
    BY <1>1 DEF LiteInv, CacheInv, Lite!Missing
  <2>3. slot' \in 0 .. alTip'
    BY <1>1 DEF LiteInv, CacheInv
  <2>4. poll' \in [at : {"asleep", "answered", "storing"}, batch : 0 .. (Lite!Batches - 1),
                   answer : Seq(Answers'), stamp : 0 .. alTip']
    BY <1>1, <2>1 DEF LiteInv, CacheInv
  <2>5. sub' \in [connected : BOOLEAN, backoff : Nat, seen : 0 .. alTip']
    BY <1>1 DEF LiteInv, CacheInv
  <2>6. Lite!Batches' = Lite!Batches
    BY DEF Lite!Batches
  <2> QED BY <2>2, <2>3, <2>4, <2>5 DEF CacheInv, Lite!Batches, Lite!Missing
<1> QED BY <1>1, <1>2, <1>3, <1>5, <1>6 DEF LiteInv, ChainInv

\* The node serves what the chain has.
LEMMA LiteNode == ASSUME Deployment, LiteInv, Lite!NodeCatchesUp PROVE LiteInv'
<1>1. node' \in [view : [Lite!Keys -> Lite!Missing .. alTip], slot : 0 .. alTip]
  BY DEF Lite!NodeCatchesUp, LiteInv, ChainInv
<1> QED BY <1>1 DEF Lite!NodeCatchesUp, LiteInv, ChainInv, CacheInv, Updates, Answers

\* The poller carries answers of the node and stamps of the cache's slot.
LEMMA LitePollAnswered == ASSUME Deployment, LiteInv, Lite!PollAnswered PROVE LiteInv'
<1> DEFINE B == Lite!Batch(poll.batch)
           ans == [i \in 1 .. Len(B) |-> Lite!Update(B[i], node.view[B[i]])]
<1>1. poll.batch \in Nat /\ poll.batch \in 0 .. (Lite!Batches - 1)
  BY BatchesCount DEF LiteInv, CacheInv
<1>2. B \in Seq(Lite!Keys)
  BY <1>1, BatchOfKeys
<1> HIDE DEF B
<1>3. \A i \in 1 .. Len(B) : Lite!Update(B[i], node.view[B[i]]) \in Answers
  <2>1. \A k \in Lite!Keys : node.view[k] \in Lite!Missing .. alTip
    BY DEF LiteInv, ChainInv
  <2> QED BY <1>2, <2>1 DEF Lite!Update, Answers
<1>4. ans \in Seq(Answers)
  BY <1>2, <1>3
<1> HIDE DEF ans
<1>5. poll' = [poll EXCEPT !.at = "answered", !.answer = ans]
  BY DEF Lite!PollAnswered, ans, B
<1>6. CacheInv'
  BY <1>4, <1>5 DEF Lite!PollAnswered, LiteInv, CacheInv, Answers, Lite!Batches
<1> QED BY <1>6 DEF Lite!PollAnswered, LiteInv, ChainInv, Updates

\* The steps of the poller between answers.
LEMMA LitePollerRest ==
  ASSUME Deployment, LiteInv, Lite!PollFailed \/ Lite!PollStamps \/ Lite!PollSleeps
  PROVE  LiteInv'
<1>1. poll.batch \in Nat /\ (poll.batch + 1) % Lite!Batches \in 0 .. (Lite!Batches - 1)
  BY BatchesCount DEF LiteInv, CacheInv
<1>2. poll' \in [at : {"asleep", "answered", "storing"}, batch : 0 .. (Lite!Batches - 1),
                 answer : Seq(Answers), stamp : 0 .. alTip]
  <2>0. slot \in 0 .. alTip /\ 0 \in 0 .. alTip /\ <<>> \in Seq(Answers)
    BY DEF LiteInv, CacheInv, ChainInv
  <2>1. CASE Lite!PollFailed
    BY <1>1, <2>1 DEF Lite!PollFailed, LiteInv, CacheInv
  <2>2. CASE Lite!PollStamps
    BY <2>0, <2>2 DEF Lite!PollStamps, LiteInv, CacheInv
  <2>3. CASE Lite!PollSleeps
    BY <1>1, <2>0, <2>3 DEF Lite!PollSleeps, Lite!Idle, LiteInv, CacheInv
  <2> QED BY <2>1, <2>2, <2>3
<1>3. UNCHANGED <<alTip, alVersion, node, cache, slot, sub, alStream>>
  BY DEF Lite!PollFailed, Lite!PollStamps, Lite!PollSleeps
<1> QED BY <1>2, <1>3 DEF LiteInv, ChainInv, CacheInv, Updates, Answers, Lite!Batches

\* upsert stores an account of a slot reached, or leaves the cache.
LEMMA UpsertedType ==
  ASSUME CacheInv, alTip \in Nat, NEW k \in Lite!Keys,
         NEW acc \in [slot : 0 .. alTip, data : Lite!Missing .. alTip]
  PROVE  Lite!Upserted(cache, k, acc)
           \in [Lite!Keys -> [slot : -1 .. alTip, data : Lite!Missing .. alTip]]
<1>1. acc \in [slot : -1 .. alTip, data : Lite!Missing .. alTip]
  OBVIOUS
<1>2. cache \in [Lite!Keys -> [slot : -1 .. alTip, data : Lite!Missing .. alTip]]
  BY DEF CacheInv
<1> QED BY <1>1, <1>2 DEF Lite!Upserted

\* The poller stores an answer, for the slot it read.
LEMMA LitePollStores == ASSUME Deployment, LiteInv, Lite!PollStores PROVE LiteInv'
<1> DEFINE a == Head(poll.answer)
           acc == [slot |-> poll.stamp, data |-> a.data]
<1>1. a \in Answers /\ Tail(poll.answer) \in Seq(Answers)
  <2>1. poll.answer \in Seq(Answers) /\ poll.answer # <<>>
    BY DEF Lite!PollStores, LiteInv, CacheInv
  <2> QED BY <2>1
<1>2. a.key \in Lite!Keys /\ acc \in [slot : 0 .. alTip, data : Lite!Missing .. alTip]
  BY <1>1 DEF Answers, LiteInv, CacheInv
<1>3. cache' = IF a.data = Lite!Missing THEN cache ELSE Lite!Upserted(cache, a.key, acc)
  BY DEF Lite!PollStores
<1> HIDE DEF a, acc
<1>4. cache' \in [Lite!Keys -> [slot : -1 .. alTip, data : Lite!Missing .. alTip]]
  BY <1>2, <1>3, UpsertedType DEF LiteInv, CacheInv, ChainInv
<1>5. poll' \in [at : {"asleep", "answered", "storing"}, batch : 0 .. (Lite!Batches - 1),
                 answer : Seq(Answers), stamp : 0 .. alTip]
  BY <1>1 DEF Lite!PollStores, LiteInv, CacheInv
<1> QED BY <1>4, <1>5
        DEF Lite!PollStores, LiteInv, ChainInv, CacheInv, Updates, Answers, Lite!Batches

\* A subscription starts with accounts of slots reached, or with nothing; it
\* ends with nothing on its stream.
LEMMA LiteSubscription ==
  ASSUME Deployment, LiteInv, Lite!Connect \/ Lite!Disconnect \/ Lite!ConnectFails
  PROVE  LiteInv'
<1>1. \A b \in {sub.backoff, 1} : Lite!Min({2 * b, MaxBackoff}) \in Nat
  <2> SUFFICES ASSUME NEW b \in Nat PROVE Lite!Min({2 * b, MaxBackoff}) \in Nat
    BY DEF LiteInv, CacheInv
  <2> DEFINE x == 2 * b
  <2>1. x \in Int /\ MaxBackoff \in Int /\ x \in Nat /\ MaxBackoff \in Nat
    BY DEF Deployment
  <2> HIDE DEF x
  <2>2. Lite!Min({x, MaxBackoff}) \in {x, MaxBackoff}
    BY <2>1, TwoNumbers
  <2> QED BY <2>1, <2>2 DEF x
<1>2. alStream' \in Seq(Updates)
  <2>1. CASE Lite!Connect
    <3> PICK startup \in {{}, {k \in Lite!Keys : alVersion[k] # Lite!Missing}} :
          alStream' = Lite!SetToSeq({Lite!Update(k, alVersion[k]) : k \in startup})
      BY <2>1 DEF Lite!Connect
    <3> DEFINE U == {Lite!Update(k, alVersion[k]) : k \in startup}
    <3>1. alVersion \in [Lite!Keys -> Int] /\ startup \in SUBSET Lite!Keys
      BY DEF LiteInv, ChainInv, Lite!Missing
    <3>2. Lite!SetToSeq(U) \in Seq(U)
      BY <3>1, UpdatesOf
    <3>3. U \subseteq Updates
      BY DEF LiteInv, ChainInv, Lite!Update, Updates, Lite!Missing
    <3> HIDE DEF U
    <3>4. Lite!SetToSeq(U) \in Seq(Updates)
      BY <3>2, <3>3, SeqOfSubset
    <3> QED BY <3>4 DEF U
  <2>2. CASE Lite!Disconnect
    BY <2>2 DEF Lite!Disconnect
  <2>3. CASE Lite!ConnectFails
    BY <2>3 DEF Lite!ConnectFails, LiteInv, ChainInv
  <2> QED BY <2>1, <2>2, <2>3
<1>3. sub' \in [connected : BOOLEAN, backoff : Nat, seen : 0 .. alTip]
  <2>0. sub \in [connected : BOOLEAN, backoff : Nat, seen : 0 .. alTip]
    BY DEF LiteInv, CacheInv
  <2>1. CASE Lite!Connect
    BY <2>0, <2>1 DEF Lite!Connect
  <2>2. CASE Lite!Disconnect
    <3>1. PICK before \in {sub.backoff, 1} :
            sub' = [sub EXCEPT !.connected = FALSE, !.backoff = Lite!Min({2 * before, MaxBackoff})]
      BY <2>2 DEF Lite!Disconnect
    <3>2. Lite!Min({2 * before, MaxBackoff}) \in Nat
      BY <1>1
    <3> QED BY <2>0, <3>1, <3>2
  <2>3. CASE Lite!ConnectFails
    <3>1. sub' = [sub EXCEPT !.backoff = Lite!Min({2 * sub.backoff, MaxBackoff})]
      BY <2>3 DEF Lite!ConnectFails
    <3>2. Lite!Min({2 * sub.backoff, MaxBackoff}) \in Nat
      BY <1>1
    <3> QED BY <2>0, <3>1, <3>2
  <2> QED BY <2>1, <2>2, <2>3
<1>4. UNCHANGED <<alTip, alVersion, node, cache, slot, poll>>
  BY DEF Lite!Connect, Lite!Disconnect, Lite!ConnectFails
<1> QED BY <1>2, <1>3, <1>4 DEF LiteInv, ChainInv, CacheInv, Updates, Answers, Lite!Batches

\* The subscriber takes an update off its stream, or raises the cache's slot.
LEMMA LiteSubscriber == ASSUME Deployment, LiteInv, Lite!Receive \/ Lite!RaiseSlot PROVE LiteInv'
<1>1. alTip \in Nat /\ slot \in 0 .. alTip /\ sub.seen \in 0 .. alTip
  BY DEF LiteInv, ChainInv, CacheInv, Deployment
<1>2. \A x \in 0 .. alTip : Lite!Max({slot, x}) \in 0 .. alTip
  <2> SUFFICES ASSUME NEW x \in 0 .. alTip PROVE Lite!Max({slot, x}) \in 0 .. alTip
    OBVIOUS
  <2>1. slot \in Int /\ x \in Int
    BY <1>1
  <2>2. Lite!Max({slot, x}) \in {slot, x}
    BY <2>1, TwoNumbers
  <2> QED BY <1>1, <2>2
<1>3. CASE Lite!Receive
  <2> DEFINE u == Head(alStream)
             acc == [slot |-> u.slot, data |-> u.data]
  <2>1. u \in Updates /\ Tail(alStream) \in Seq(Updates)
    <3>1. alStream \in Seq(Updates) /\ alStream # <<>>
      BY <1>3 DEF Lite!Receive, LiteInv, ChainInv
    <3> QED BY <3>1
  <2>2. u.slot \in 0 .. alTip /\ acc \in [slot : 0 .. alTip, data : Lite!Missing .. alTip]
        /\ (u.key # "slot" => u.key \in Lite!Keys)
    BY <2>1 DEF Updates
  <2>3. cache' = IF u.key = "slot" THEN cache ELSE Lite!Upserted(cache, u.key, acc)
    BY <1>3 DEF Lite!Receive
  <2>4. slot' = IF u.key = "slot" THEN Lite!Max({slot, u.slot}) ELSE slot
    BY <1>3 DEF Lite!Receive
  <2>5. sub' = [sub EXCEPT !.seen = IF u.key = "slot" THEN 0 ELSE u.slot]
    BY <1>3 DEF Lite!Receive
  <2> HIDE DEF u, acc
  <2>6. cache' \in [Lite!Keys -> [slot : -1 .. alTip, data : Lite!Missing .. alTip]]
    BY <1>1, <2>2, <2>3, UpsertedType DEF LiteInv, CacheInv
  <2>7. slot' \in 0 .. alTip
    BY <1>1, <1>2, <2>2, <2>4
  <2>8. sub' \in [connected : BOOLEAN, backoff : Nat, seen : 0 .. alTip]
    <3>1. sub \in [connected : BOOLEAN, backoff : Nat, seen : 0 .. alTip]
      BY DEF LiteInv, CacheInv
    <3>2. (IF u.key = "slot" THEN 0 ELSE u.slot) \in 0 .. alTip
      BY <1>1, <2>2
    <3> QED BY <2>5, <3>1, <3>2
  <2>9. alStream' = Tail(alStream) /\ UNCHANGED <<alTip, alVersion, node, poll>>
    BY <1>3 DEF Lite!Receive
  <2> QED BY <2>1, <2>6, <2>7, <2>8, <2>9
          DEF LiteInv, ChainInv, CacheInv, Updates, Answers, Lite!Batches
<1>4. CASE Lite!RaiseSlot
  <2>1. slot' \in 0 .. alTip
    BY <1>1, <1>2, <1>4 DEF Lite!RaiseSlot
  <2>2. sub' \in [connected : BOOLEAN, backoff : Nat, seen : 0 .. alTip]
    <3>1. sub \in [connected : BOOLEAN, backoff : Nat, seen : 0 .. alTip]
      BY DEF LiteInv, CacheInv
    <3>2. sub' = [sub EXCEPT !.seen = 0]
      BY <1>4 DEF Lite!RaiseSlot
    <3> QED BY <1>1, <3>1, <3>2
  <2>3. UNCHANGED <<alTip, alVersion, node, alStream, cache, poll>>
    BY <1>4 DEF Lite!RaiseSlot
  <2> QED BY <2>1, <2>2, <2>3 DEF LiteInv, ChainInv, CacheInv, Updates, Answers, Lite!Batches
<1> QED BY <1>3, <1>4

\* Every step keeps what the writers carry within what the chain has reached.
LEMMA NextLiteInv == ASSUME Deployment PROVE LiteInv /\ [Lite!Next]_(Lite!vars) => LiteInv'
<1> SUFFICES ASSUME LiteInv, [Lite!Next]_(Lite!vars) PROVE LiteInv'
  OBVIOUS
<1>1. CASE Lite!Next
  BY <1>1, LiteProduce, LiteNode, LitePollAnswered, LitePollerRest, LitePollStores,
     LiteSubscription, LiteSubscriber DEF Lite!Next
<1>2. CASE UNCHANGED Lite!vars
  BY <1>2 DEF Lite!vars, LiteInv, ChainInv, CacheInv, Updates, Answers, Lite!Batches
<1> QED BY <1>1, <1>2

-----------------------------------------------------------------------------
(* The refinement of LatestSlot                                              *)

\* The slots accounts are held for, as LatestSlot sees them.
Held == [k \in Lite!Keys |-> cache[k].slot]

\* An upsert of a slot reached is a Store of the abstract cache, or no step:
\* the test of upsert is the guard of Store.
LEMMA UpsertIsStore ==
  ASSUME Deployment, LiteInv, NEW k \in Lite!Keys,
         NEW acc \in [slot : 0 .. alTip, data : Lite!Missing .. alTip],
         cache' = Lite!Upserted(cache, k, acc)
  PROVE  Lite!Latest!Next \/ Held' = Held
<1>1. cache \in [Lite!Keys -> [slot : -1 .. alTip, data : Lite!Missing .. alTip]]
  BY DEF LiteInv, CacheInv
<1>2. acc.slot \in 0 .. LiteSlots
  BY DEF LiteInv, ChainInv, Deployment
<1>3. CASE acc.slot >= cache[k].slot
  <2>1. cache' = [cache EXCEPT ![k] = acc]
    BY <1>3 DEF Lite!Upserted
  <2>2. Held' = [Held EXCEPT ![k] = acc.slot]
    BY <1>1, <2>1 DEF Held
  <2>3. Held[k] <= acc.slot
    BY <1>1, <1>2, <1>3 DEF Held
  <2>4. Lite!Latest!Store(k, acc.slot)
    BY <2>2, <2>3 DEF Lite!Latest!Store, Held
  <2> QED BY <1>2, <2>4 DEF Lite!Latest!Next
<1>4. CASE ~(acc.slot >= cache[k].slot)
  BY <1>4 DEF Lite!Upserted, Held
<1> QED BY <1>3, <1>4

\* The other steps leave the slots accounts are held for.
LEMMA StepIsStore ==
  ASSUME Deployment, LiteInv, [Lite!Next]_(Lite!vars)
  PROVE  Lite!Latest!Next \/ Held' = Held
<1>1. CASE Lite!PollStores
  <2> DEFINE a == Head(poll.answer)
             acc == [slot |-> poll.stamp, data |-> a.data]
  <2>1. poll.answer \in Seq(Answers) /\ poll.answer # <<>> /\ poll.stamp \in 0 .. alTip
    BY <1>1 DEF Lite!PollStores, LiteInv, CacheInv
  <2>2. a \in Answers
    BY <2>1
  <2>3. a.key \in Lite!Keys /\ acc \in [slot : 0 .. alTip, data : Lite!Missing .. alTip]
    BY <2>1, <2>2 DEF Answers
  <2>4. cache' = IF a.data = Lite!Missing THEN cache ELSE Lite!Upserted(cache, a.key, acc)
    BY <1>1 DEF Lite!PollStores
  <2> HIDE DEF a, acc
  <2> QED BY <2>3, <2>4, UpsertIsStore DEF Held
<1>2. CASE Lite!Receive
  <2> DEFINE u == Head(alStream)
             acc == [slot |-> u.slot, data |-> u.data]
  <2>1. alStream \in Seq(Updates) /\ alStream # <<>>
    BY <1>2 DEF Lite!Receive, LiteInv, ChainInv
  <2>2. u \in Updates
    BY <2>1
  <2>3. /\ u.key # "slot" => u.key \in Lite!Keys
        /\ acc \in [slot : 0 .. alTip, data : Lite!Missing .. alTip]
    BY <2>2 DEF Updates
  <2>4. cache' = IF u.key = "slot" THEN cache ELSE Lite!Upserted(cache, u.key, acc)
    BY <1>2 DEF Lite!Receive
  <2> HIDE DEF u, acc
  <2> QED BY <2>3, <2>4, UpsertIsStore DEF Held
<1>3. CASE cache' = cache
  BY <1>3 DEF Held
<1> QED BY <1>1, <1>2, <1>3
        DEF Lite!Next, Lite!vars, Lite!Produce, Lite!NodeCatchesUp, Lite!PollAnswered,
            Lite!PollFailed, Lite!PollStamps, Lite!PollSleeps, Lite!Connect,
            Lite!Disconnect, Lite!ConnectFails, Lite!RaiseSlot

\* The invariant gives the types.
LEMMA LiteTypes == ASSUME LiteInv PROVE Lite!TypeOK
<1>1. -1 .. alTip \subseteq -1 .. LiteSlots
  BY DeploymentAssumption DEF LiteInv, ChainInv, Deployment
<1>2. cache \in [Lite!Keys -> [slot : -1 .. LiteSlots, data : -1 .. LiteSlots]]
  BY <1>1 DEF LiteInv, CacheInv, Lite!Missing
<1> QED BY <1>2 DEF LiteInv, CacheInv, Lite!TypeOK

-----------------------------------------------------------------------------
(* MiniAgave                                                               *)

MiniTypes ==
  /\ maTip \in Nat
  /\ maChanges \in [Asked -> SUBSET (1 .. maTip)] /\ keys \subseteq Asked
  /\ hash \in 0 .. maTip /\ hashSlot \in 0 .. maTip /\ current \in 0 .. maTip
  /\ height \in 0 .. maTip /\ epochInfo \in -1 .. maTip
  /\ \A k \in DOMAIN maAccounts : /\ maAccounts[k].slot \in 0 .. maTip
                                  /\ maAccounts[k].data \in 0 .. maTip
  /\ bhPoll \in [at : {"asleep", "writing", "stamping"}, slot : 0 .. maTip]
  /\ feed \in [explicit : BOOLEAN,
               at : {"probing", "connecting", "streaming", "stamping", "ended"},
               slot : 0 .. maTip, next : 0 .. maTip, failures : 0 .. MaxFailures,
               streamed : BOOLEAN]
  /\ reader \in -1 .. maTip
  /\ served \in [slot : 0 .. maTip, hash : 0 .. maTip]

\* The feed works as long as it has not failed MaxFailures times.
FailuresLeft == feed.at \in {"connecting", "streaming", "stamping"} =>
                  feed.failures < MaxFailures

\* Without a stream the poller alone writes: the hash runs ahead of its slot,
\* by what the poller is about to stamp, and the slot of no reader is newer
\* than the one it was read from.
HashAhead ==
  ~feed.streamed =>
    /\ hashSlot <= hash
    /\ bhPoll.at = "writing" => bhPoll.slot > hashSlot
    /\ bhPoll.at = "stamping" => bhPoll.slot = hash
    /\ reader <= hashSlot
    /\ feed.at # "stamping"

MiniInv == MiniTypes /\ FailuresLeft /\ HashAhead /\ Mini!PolledPairsInOrder

\* A bounded set of numbers has a greatest one.
LEMMA GreatestNumber ==
  ASSUME NEW n \in Nat, NEW S \in SUBSET (0 .. n), S # {}
  PROVE  \E i \in S : \A j \in S : i >= j
<1> DEFINE T == {n - i : i \in S}
<1>1. T \subseteq Nat
  <2> SUFFICES ASSUME NEW i \in S PROVE n - i \in Nat
    OBVIOUS
  <2> QED OBVIOUS
<1>2. PICK k \in S : TRUE
  OBVIOUS
<1>3. n - k \in T
  BY <1>2
<1>4. PICK x \in T : \A y \in T : ~(<<y, x>> \in OpToRel(<, Nat))
  <2> HIDE DEF T
  <2> QED BY <1>1, <1>3, NatLessThanWellFounded, WFMin
<1>5. \A y \in T : ~(y < x)
  <2> HIDE DEF T
  <2> QED BY <1>1, <1>4 DEF OpToRel
<1>6. PICK i \in S : x = n - i
  BY <1>4
<1>7. ASSUME NEW j \in S PROVE i >= j
  <2>1. ~(n - j < n - i)
    BY <1>5, <1>6
  <2>2. i \in 0 .. n /\ j \in 0 .. n
    OBVIOUS
  <2> HIDE DEF T
  <2> QED BY <2>1, <2>2
<1> QED BY <1>7

\* The newest slot of a set is one of it, or 0, and none is newer.
LEMMA NewestOf ==
  ASSUME NEW n \in Nat, NEW S \in SUBSET (0 .. n)
  PROVE  Mini!Newest(S) \in 0 .. n /\ \A i \in S : Mini!Newest(S) >= i
<1> DEFINE U == S \cup {0}
<1>1. U \in SUBSET (0 .. n) /\ U # {}
  OBVIOUS
<1> HIDE DEF U
<1>2. \E i \in U : \A j \in U : i >= j
  BY <1>1, GreatestNumber
<1>3. Mini!Max(U) \in U /\ \A j \in U : Mini!Max(U) >= j
  BY <1>2, Zenon DEF Mini!Max
<1> QED BY <1>1, <1>3 DEF Mini!Newest, U

LEMMA VersionType ==
  ASSUME MiniTypes, NEW k \in keys, NEW s
  PROVE  Mini!VersionAt(k, s) \in 0 .. maTip
<1> DEFINE S == {x \in maChanges[k] : x <= s}
<1>1. S \in SUBSET (0 .. maTip) /\ maTip \in Nat
  BY DEF MiniTypes
<1> HIDE DEF S
<1>2. Mini!Newest(S) \in 0 .. maTip
  BY <1>1, NewestOf
<1> QED BY <1>2 DEF Mini!VersionAt, S

LEMMA InitMiniInv == ASSUME Deployment, Mini!Init PROVE MiniInv
<1>1. MaxFailures \in Nat \ {0}
  BY DEF Deployment
<1>2. maTip = 1 /\ maChanges = [k \in Asked |-> {}] /\ keys \subseteq Asked
  BY DEF Mini!Init
<1>3. MiniTypes
  BY <1>1, <1>2 DEF Mini!Init, MiniTypes, Mini!None
<1> QED BY <1>1, <1>3 DEF Mini!Init, MiniInv, FailuresLeft, HashAhead,
                          Mini!PolledPairsInOrder, Mini!None

\* A new slot of the chain leaves the node as it is.
LEMMA MiniProduce == ASSUME MiniInv, Mini!Produce PROVE MiniInv'
<1>1. /\ maTip' = maTip + 1 /\ maTip \in Nat
      /\ UNCHANGED <<Mini!feedState, bhPoll, feed, reader, served>>
  BY DEF Mini!Produce, MiniInv, MiniTypes
<1>2. maChanges' \in [Asked -> SUBSET (1 .. maTip')]
  <2>1. PICK changed \in SUBSET Asked :
          maChanges' = [k \in Asked |-> IF k \in changed THEN maChanges[k] \cup {maTip + 1}
                                        ELSE maChanges[k]]
    BY DEF Mini!Produce
  <2> QED BY <1>1, <2>1 DEF MiniInv, MiniTypes
<1>3. \A i : i \in 0 .. maTip => i \in 0 .. maTip'
  BY <1>1
<1>4. \A i : i \in -1 .. maTip => i \in -1 .. maTip'
  BY <1>1
<1>5. MiniTypes'
  BY <1>1, <1>2, <1>3, <1>4 DEF MiniInv, MiniTypes, Mini!feedState
<1> QED BY <1>1, <1>5 DEF MiniInv, FailuresLeft, HashAhead, Mini!PolledPairsInOrder,
                          Mini!feedState

\* The poller of the blockhash writes a newer hash, then its slot.
LEMMA MiniHashPoller ==
  ASSUME MiniInv, Mini!HashPolled \/ Mini!HashWritten \/ Mini!HashStamped PROVE MiniInv'
<1>1. CASE Mini!HashPolled
  <2>1. PICK s \in Mini!NodeSlots : s > hashSlot /\ bhPoll' = [at |-> "writing", slot |-> s]
    BY <1>1 DEF Mini!HashPolled
  <2>2. UNCHANGED <<maTip, maChanges, Mini!feedState, feed, reader, served>>
    BY <1>1 DEF Mini!HashPolled
  <2>3. s \in 0 .. maTip
    BY DEF Mini!NodeSlots
  <2> QED BY <2>1, <2>2, <2>3 DEF MiniInv, MiniTypes, FailuresLeft, HashAhead,
                                  Mini!PolledPairsInOrder, Mini!feedState
<1>2. CASE Mini!HashWritten
  <2>1. /\ hash' = bhPoll.slot
        /\ bhPoll.at = "writing" /\ bhPoll' = [bhPoll EXCEPT !.at = "stamping"]
        /\ UNCHANGED <<maTip, maChanges, keys, hashSlot, current, height, maAccounts,
                       epochInfo, feed, reader, served>>
    BY <1>2 DEF Mini!HashWritten
  <2> QED BY <2>1 DEF MiniInv, MiniTypes, FailuresLeft, HashAhead,
                      Mini!PolledPairsInOrder
<1>3. CASE Mini!HashStamped
  <2>1. /\ hashSlot' = bhPoll.slot /\ current' = Mini!Raised(bhPoll.slot)
        /\ bhPoll.at = "stamping" /\ bhPoll' = [bhPoll EXCEPT !.at = "asleep"]
        /\ UNCHANGED <<maTip, maChanges, keys, hash, height, maAccounts, epochInfo, feed,
                       reader, served>>
    BY <1>3 DEF Mini!HashStamped
  <2> QED BY <2>1 DEF MiniInv, MiniTypes, FailuresLeft, HashAhead,
                      Mini!PolledPairsInOrder, Mini!Raised
<1> QED BY <1>1, <1>2, <1>3

\* The accounts and the metadata of an answer are of slots the chain has had.
LEMMA MiniPollers ==
  ASSUME MiniInv, Mini!AccountPolled \/ Mini!AccountStreamed \/ Mini!MetadataPolled \/ Mini!SlotSeen
  PROVE  MiniInv'
<1>1. UNCHANGED <<maTip, maChanges, keys, hash, hashSlot, bhPoll, feed, reader, served>>
  BY DEF Mini!AccountPolled, Mini!AccountStreamed, Mini!MetadataPolled, Mini!SlotSeen
<1>2. ASSUME NEW k \in keys, NEW acc \in [slot : 0 .. maTip, data : 0 .. maTip],
             maAccounts' = Mini!Inserted(k, acc)
      PROVE  \A x \in DOMAIN maAccounts' : /\ maAccounts'[x].slot \in 0 .. maTip
                                           /\ maAccounts'[x].data \in 0 .. maTip
  BY <1>2 DEF MiniInv, MiniTypes, Mini!Inserted
<1>3. CASE Mini!AccountPolled
  <2>1. PICK k \in keys, s \in Mini!NodeSlots :
          /\ maAccounts' = Mini!Inserted(k, [data |-> Mini!VersionAt(k, s), slot |-> hashSlot])
          /\ UNCHANGED <<current, height, epochInfo>>
    BY <1>3 DEF Mini!AccountPolled
  <2>2. Mini!VersionAt(k, s) \in 0 .. maTip /\ hashSlot \in 0 .. maTip
    BY VersionType DEF MiniInv, MiniTypes
  <2>3. [data |-> Mini!VersionAt(k, s), slot |-> hashSlot]
          \in [slot : 0 .. maTip, data : 0 .. maTip]
    BY <2>2
  <2>4. \A x \in DOMAIN maAccounts' : /\ maAccounts'[x].slot \in 0 .. maTip
                                      /\ maAccounts'[x].data \in 0 .. maTip
    BY <1>2, <2>1, <2>3
  <2> QED BY <1>1, <2>1, <2>4 DEF MiniInv, MiniTypes, FailuresLeft, HashAhead,
                                  Mini!PolledPairsInOrder
<1>4. CASE Mini!AccountStreamed
  <2>1. PICK k \in keys, s \in (feed.slot + 1) .. maTip :
          /\ maAccounts' = Mini!Inserted(k, [data |-> s, slot |-> s])
          /\ UNCHANGED <<current, height, epochInfo>>
    BY <1>4 DEF Mini!AccountStreamed
  <2>2. [data |-> s, slot |-> s] \in [slot : 0 .. maTip, data : 0 .. maTip]
    BY DEF MiniInv, MiniTypes
  <2>3. \A x \in DOMAIN maAccounts' : /\ maAccounts'[x].slot \in 0 .. maTip
                                      /\ maAccounts'[x].data \in 0 .. maTip
    BY <1>2, <2>1, <2>2
  <2> QED BY <1>1, <2>1, <2>3 DEF MiniInv, MiniTypes, FailuresLeft, HashAhead,
                                  Mini!PolledPairsInOrder
<1>5. CASE Mini!MetadataPolled \/ Mini!SlotSeen
  <2>1. /\ current' \in 0 .. maTip /\ height' \in 0 .. maTip /\ epochInfo' \in -1 .. maTip
        /\ UNCHANGED maAccounts
    BY <1>5 DEF Mini!MetadataPolled, Mini!SlotSeen, Mini!NodeSlots, Mini!Raised,
                MiniInv, MiniTypes
  <2> QED BY <1>1, <2>1 DEF MiniInv, MiniTypes, FailuresLeft, HashAhead,
                            Mini!PolledPairsInOrder
<1> QED BY <1>3, <1>4, <1>5

\* The feed connects, fails, and is given up after MaxFailures failures.
LEMMA MiniFeed ==
  ASSUME Deployment, MiniInv, Mini!Probe \/ Mini!Subscribe \/ Mini!FeedFails
  PROVE  MiniInv'
<1> DEFINE Feeds == [explicit : BOOLEAN,
                     at : {"probing", "connecting", "streaming", "stamping", "ended"},
                     slot : 0 .. maTip, next : 0 .. maTip, failures : 0 .. MaxFailures,
                     streamed : BOOLEAN]
<1>1. /\ UNCHANGED <<maTip, maChanges, keys, hash, hashSlot, current, height, maAccounts,
                     epochInfo, bhPoll, reader, served>>
      /\ feed \in Feeds /\ maTip \in Nat /\ MaxFailures \in Nat \ {0}
  BY DEF Mini!Probe, Mini!Subscribe, Mini!FeedFails, MiniInv, MiniTypes, Deployment
<1>2. /\ feed' \in Feeds /\ FailuresLeft' /\ feed'.streamed = feed.streamed
      /\ feed'.at # "stamping"
  <2>1. CASE Mini!Probe
    <3>1. feed.at = "probing" /\ (feed' = feed \/ feed' = [feed EXCEPT !.at = "connecting",
                                                                     !.failures = 0])
      BY <2>1 DEF Mini!Probe
    <3>2. CASE feed' = feed
      BY <1>1, <3>1, <3>2 DEF FailuresLeft
    <3>3. CASE feed' = [feed EXCEPT !.at = "connecting", !.failures = 0]
      <4>1. feed' \in Feeds
        <5>1. feed \in Feeds /\ 0 \in 0 .. MaxFailures
          BY <1>1
        <5> QED BY <3>3, <5>1
      <4>2. /\ feed'.at = "connecting" /\ feed'.failures = 0
            /\ feed'.streamed = feed.streamed
        BY <1>1, <3>3
      <4> QED BY <1>1, <4>1, <4>2 DEF FailuresLeft
    <3> QED BY <3>1, <3>2, <3>3
  <2>2. CASE Mini!Subscribe
    <3>1. feed.at = "connecting" /\ feed' = [feed EXCEPT !.at = "streaming", !.slot = maTip]
      BY <2>2 DEF Mini!Subscribe
    <3>2. feed.failures < MaxFailures
      BY <3>1 DEF MiniInv, FailuresLeft
    <3>3. feed' \in Feeds
      <4>1. feed \in Feeds /\ maTip \in 0 .. maTip
        BY <1>1
      <4> QED BY <3>1, <4>1
    <3>4. /\ feed'.at = "streaming" /\ feed'.failures = feed.failures
          /\ feed'.streamed = feed.streamed
      BY <1>1, <3>1
    <3> QED BY <1>1, <3>2, <3>3, <3>4 DEF FailuresLeft
  <2>3. CASE Mini!FeedFails
    <3>1. PICK denied \in BOOLEAN :
            /\ feed.at \in {"connecting", "streaming"}
            /\ feed' = [feed EXCEPT
                  !.failures = feed.failures + 1,
                  !.at = IF ~(denied \/ feed.failures + 1 >= MaxFailures) THEN "connecting"
                         ELSE IF feed.explicit THEN "ended" ELSE "probing"]
      BY <2>3 DEF Mini!FeedFails
    <3>2. feed.failures < MaxFailures
      BY <3>1 DEF MiniInv, FailuresLeft
    <3> DEFINE at == IF ~(denied \/ feed.failures + 1 >= MaxFailures) THEN "connecting"
                     ELSE IF feed.explicit THEN "ended" ELSE "probing"
    <3>3. /\ feed.failures + 1 \in 0 .. MaxFailures
          /\ at \in {"connecting", "ended", "probing"}
          /\ at = "connecting" => feed.failures + 1 < MaxFailures
      BY <1>1, <3>2
    <3>4. feed' = [feed EXCEPT !.failures = feed.failures + 1, !.at = at]
      BY <3>1
    <3> HIDE DEF at
    <3>5. feed' \in Feeds
      BY <1>1, <3>3, <3>4
    <3>6. feed'.at = at /\ feed'.failures = feed.failures + 1 /\ feed'.streamed = feed.streamed
      BY <1>1, <3>4
    <3> QED BY <1>1, <3>3, <3>5, <3>6 DEF FailuresLeft
  <2> QED BY <2>1, <2>2, <2>3
<1>3. MiniTypes'
  BY <1>1, <1>2 DEF MiniInv, MiniTypes
<1> QED BY <1>1, <1>2, <1>3 DEF MiniInv, HashAhead, Mini!PolledPairsInOrder

\* A block of the stream: from here on two threads write the pair.
LEMMA MiniBlock == ASSUME MiniInv, Mini!BlockSeen \/ Mini!BlockStamped PROVE MiniInv'
<1>1. CASE Mini!BlockSeen
  <2>1. PICK s \in (feed.slot + 1) .. maTip :
          /\ feed.at = "streaming" /\ hash' = s
          /\ feed' = [feed EXCEPT !.at = "stamping", !.next = s, !.streamed = TRUE]
          /\ UNCHANGED <<maTip, maChanges, keys, hashSlot, current, height, maAccounts,
                         epochInfo, bhPoll, reader, served>>
    BY <1>1 DEF Mini!BlockSeen
  <2>2. s \in 0 .. maTip
    BY DEF MiniInv, MiniTypes
  <2>3. MiniTypes'
    BY <2>1, <2>2 DEF MiniInv, MiniTypes
  <2> QED BY <2>1, <2>3 DEF MiniInv, MiniTypes, FailuresLeft, HashAhead,
                            Mini!PolledPairsInOrder
<1>2. CASE Mini!BlockStamped
  <2>1. /\ feed.at = "stamping" /\ hashSlot' = feed.next /\ height' = feed.next
        /\ current' = Mini!Raised(feed.next)
        /\ feed' = [feed EXCEPT !.at = "streaming", !.slot = feed.next]
        /\ UNCHANGED <<maTip, maChanges, keys, hash, maAccounts, epochInfo, bhPoll,
                       reader, served>>
    BY <1>2 DEF Mini!BlockStamped
  <2>2. MiniTypes'
    BY <2>1 DEF MiniInv, MiniTypes, Mini!Raised
  <2> QED BY <2>1, <2>2 DEF MiniInv, MiniTypes, FailuresLeft, HashAhead,
                            Mini!PolledPairsInOrder
<1> QED BY <1>1, <1>2

\* handle_blockhash reads the slot before the hash.
LEMMA MiniReader == ASSUME MiniInv, Mini!ReadSlot \/ Mini!ReadHash PROVE MiniInv'
<1>1. UNCHANGED <<maTip, maChanges, keys, hash, hashSlot, current, height, maAccounts,
                  epochInfo, bhPoll, feed>>
  BY DEF Mini!ReadSlot, Mini!ReadHash, Mini!feedState
<1>2. CASE Mini!ReadSlot
  BY <1>1, <1>2 DEF Mini!ReadSlot, MiniInv, MiniTypes, FailuresLeft, HashAhead,
                    Mini!PolledPairsInOrder
<1>3. CASE Mini!ReadHash
  <2>1. reader \in 0 .. maTip /\ reader' = -1 /\ served' = [slot |-> reader, hash |-> hash]
    BY <1>3 DEF Mini!ReadHash, Mini!None, MiniInv, MiniTypes
  <2> QED BY <1>1, <2>1 DEF MiniInv, MiniTypes, FailuresLeft, HashAhead,
                            Mini!PolledPairsInOrder
<1> QED BY <1>2, <1>3

LEMMA NextMiniInv == ASSUME Deployment PROVE MiniInv /\ [Mini!Next]_(Mini!vars) => MiniInv'
<1> SUFFICES ASSUME MiniInv, [Mini!Next]_(Mini!vars) PROVE MiniInv'
  OBVIOUS
<1>1. CASE Mini!Next
  BY <1>1, MiniProduce, MiniHashPoller, MiniPollers, MiniFeed, MiniBlock, MiniReader
     DEF Mini!Next
<1>2. CASE UNCHANGED Mini!vars
  BY <1>2 DEF Mini!vars, Mini!feedState, MiniInv, MiniTypes, FailuresLeft, HashAhead,
              Mini!PolledPairsInOrder
<1> QED BY <1>1, <1>2

\* What the methods answer agrees as soon as the fields have their types.
LEMMA MiniAnswersAgree ==
  ASSUME MiniInv PROVE Mini!TypeOK /\ Mini!AnswersAgree
<1>1. Mini!TypeOK
  BY DEF MiniInv, MiniTypes, Mini!TypeOK
<1>2. \A k \in Asked : maConnected /\ Mini!AccountInfo(k).kind = "answer" =>
        Mini!MultipleAccounts({k}) = Mini!Answer([x \in {k} |-> Mini!AccountInfo(k).value.data])
  BY DEF Mini!AccountInfo, Mini!MultipleAccounts, Mini!Answer, Mini!Proxied
<1>3. Mini!EpochAnswer.kind = "answer" => Mini!EpochAnswer.value.slot >= epochInfo
  <2> SUFFICES ASSUME epochInfo # Mini!None
               PROVE  Mini!EpochAnswer.value.slot >= epochInfo
    BY DEF Mini!EpochAnswer, Mini!Refused
  <2> DEFINE S == {Mini!Slot, epochInfo}
  <2>1. S \in SUBSET (0 .. maTip) /\ maTip \in Nat /\ epochInfo \in S
    BY DEF Mini!Slot, Mini!None, MiniInv, MiniTypes
  <2>2. Mini!Newest(S) >= epochInfo
    <3> HIDE DEF S
    <3> QED BY <2>1, NewestOf
  <2> QED BY <2>2 DEF Mini!EpochAnswer, Mini!Answer
<1>4. Mini!Health.kind = "answer" =>
        Mini!HeightAnswer.kind = "error" \/ Mini!SlotAnswer.kind = "answer"
  BY DEF Mini!Health, Mini!SlotAnswer, Mini!Slot, Mini!Answer, Mini!Refused, MiniInv, MiniTypes
<1> QED BY <1>1, <1>2, <1>3, <1>4 DEF Mini!AnswersAgree

-----------------------------------------------------------------------------
(* SimServer                                                               *)

\* What the stream carries is of slots the chain has reached.
SimInv ==
  /\ ssTip \in Nat
  /\ ssVersion \in [GeyserAccounts -> 0 .. ssTip]
  /\ \A m \in sent : /\ m.slot \in 0 .. ssTip
                     /\ m.kind # "block" => /\ m.key \in GeyserAccounts
                                            /\ m.slot <= ssVersion[m.key]
  /\ cell \in 0 .. ssTip /\ polled \in (0 .. ssTip) \cup {-1}
  /\ DOMAIN accounts \subseteq GeyserAccounts
  /\ \A k \in DOMAIN accounts : accounts[k] \in 0 .. ssTip /\ accounts[k] <= ssVersion[k]
  /\ connected => geyser

LEMMA InitSimInv == Sim!Init => SimInv
  BY DEF Sim!Init, SimInv, Sim!None

\* A slot of the chain reaches the stream whole, or not at all.
LEMMA SimProduce == ASSUME SimInv, Sim!Produce PROVE SimInv'
<1> PICK changed \in SUBSET GeyserAccounts, carried \in BOOLEAN :
      /\ ssVersion' = [k \in GeyserAccounts |-> IF k \in changed THEN ssTip + 1
                                                ELSE ssVersion[k]]
      /\ sent' = IF carried /\ link = "streaming"
                 THEN sent \cup {Sim!Block(ssTip + 1)}
                           \cup {Sim!Changed(k, ssTip + 1) : k \in changed}
                 ELSE sent
  BY DEF Sim!Produce
<1>1. /\ ssTip' = ssTip + 1 /\ ssTip \in Nat
      /\ UNCHANGED <<cell, polled, accounts, connected, geyser>>
  BY DEF Sim!Produce, SimInv
<1>2. /\ ssVersion' \in [GeyserAccounts -> 0 .. ssTip']
      /\ \A k \in GeyserAccounts : ssVersion[k] <= ssVersion'[k]
      /\ \A k \in changed : ssVersion'[k] = ssTip'
  BY <1>1 DEF SimInv
<1>3. ASSUME NEW m \in sent'
      PROVE  /\ m.slot \in 0 .. ssTip'
             /\ m.kind # "block" => m.key \in GeyserAccounts /\ m.slot <= ssVersion'[m.key]
  <2>1. CASE m \in sent
    BY <1>1, <1>2, <2>1 DEF SimInv
  <2>2. CASE m = Sim!Block(ssTip + 1)
    BY <1>1, <2>2 DEF Sim!Block
  <2>3. CASE \E k \in changed : m = Sim!Changed(k, ssTip + 1)
    BY <1>1, <1>2, <2>3 DEF Sim!Changed
  <2> QED BY <2>1, <2>2, <2>3
<1> QED BY <1>1, <1>2, <1>3 DEF SimInv

\* Both writers of the cell and the stream stay within what the chain has.
LEMMA SimSteps ==
  ASSUME SimInv, Sim!HashFetched \/ Sim!HashWritten \/ Sim!Connect \/ Sim!Broken \/ Sim!NextRound
  PROVE  SimInv'
<1>1. UNCHANGED <<ssTip, ssVersion, accounts, geyser>> /\ sent' \subseteq sent
  BY DEF Sim!HashFetched, Sim!HashWritten, Sim!Connect, Sim!Broken, Sim!NextRound
<1>2. /\ cell' \in 0 .. ssTip /\ polled' \in (0 .. ssTip) \cup {-1}
      /\ connected' => geyser
  BY DEF Sim!HashFetched, Sim!HashWritten, Sim!Connect, Sim!Broken, Sim!NextRound, SimInv,
         Sim!None
<1> QED BY <1>1, <1>2 DEF SimInv

LEMMA SimReceived == ASSUME SimInv, Sim!Received PROVE SimInv'
<1> PICK m \in sent :
      /\ sent' = sent \ {m}
      /\ cell' = IF m.kind = "block" THEN m.slot ELSE cell
      /\ accounts' = IF m.kind = "block" THEN accounts
                     ELSE [k \in DOMAIN accounts \cup {m.key} |->
                             IF k = m.key THEN m.slot ELSE accounts[k]]
      /\ UNCHANGED <<ssTip, ssVersion, polled, geyser, connected>>
  BY DEF Sim!Received
<1>1. /\ m.slot \in 0 .. ssTip
      /\ m.kind # "block" => m.key \in GeyserAccounts /\ m.slot <= ssVersion[m.key]
  BY DEF SimInv
<1>2. /\ DOMAIN accounts' \subseteq GeyserAccounts
      /\ \A k \in DOMAIN accounts' : accounts'[k] \in 0 .. ssTip /\ accounts'[k] <= ssVersion[k]
  BY <1>1 DEF SimInv
<1>3. cell' \in 0 .. ssTip
  BY <1>1 DEF SimInv
<1> QED BY <1>2, <1>3 DEF SimInv

LEMMA NextSimInv == SimInv /\ [Sim!Next]_(Sim!vars) => SimInv'
<1> SUFFICES ASSUME SimInv, [Sim!Next]_(Sim!vars) PROVE SimInv'
  OBVIOUS
<1>1. CASE Sim!Next
  BY <1>1, SimProduce, SimSteps, SimReceived DEF Sim!Next
<1>2. CASE UNCHANGED Sim!vars
  BY <1>2 DEF Sim!vars, SimInv
<1> QED BY <1>1, <1>2

LEMMA SimAnswers == ASSUME SimInv PROVE Sim!TypeOK /\ Sim!ListsFromOneSource
<1>1. Sim!TypeOK
  BY DEF SimInv, Sim!TypeOK, Sim!None
<1>2. Sim!ListsFromOneSource
  BY DEF Sim!ListsFromOneSource, Sim!MultipleAccounts, Sim!AccountInfo, Sim!Local, Sim!Upstream
<1> QED BY <1>1, <1>2

-----------------------------------------------------------------------------
(* The services together                                                   *)

FeedsInv == HydratorInv /\ LiteInv /\ MiniInv /\ SimInv

\* A part at rest keeps its variables, and so its invariant.
LEMMA PartsAtRest ==
  /\ HydratorInv /\ UNCHANGED vars => HydratorInv'
  /\ LiteInv /\ UNCHANGED alVars => LiteInv'
  /\ MiniInv /\ UNCHANGED maVars => MiniInv'
  /\ SimInv /\ UNCHANGED ssVars => SimInv'
<1>1. HydratorInv /\ UNCHANGED vars => HydratorInv'
  BY DeploymentAssumption, NextHydratorInv
<1>2. LiteInv /\ UNCHANGED alVars => LiteInv'
  BY DeploymentAssumption, NextLiteInv DEF alVars, Lite!vars
<1>3. MiniInv /\ UNCHANGED maVars => MiniInv'
  BY DeploymentAssumption, NextMiniInv DEF maVars, Mini!vars, Mini!feedState
<1>4. SimInv /\ UNCHANGED ssVars => SimInv'
  BY NextSimInv DEF ssVars, Sim!vars
<1> QED BY <1>1, <1>2, <1>3, <1>4

LEMMA InitFeedsInv == MCInit => FeedsInv
  BY DeploymentAssumption, InitHydratorInv, InitLiteInv, InitMiniInv, InitSimInv
     DEF MCInit, FeedsInv

LEMMA NextFeedsInv == FeedsInv /\ [MCNext]_allVars => FeedsInv'
<1> SUFFICES ASSUME FeedsInv, [MCNext]_allVars PROVE FeedsInv'
  OBVIOUS
<1>1. CASE Next /\ UNCHANGED <<alVars, maVars, ssVars>>
  BY <1>1, DeploymentAssumption, NextHydratorInv, PartsAtRest DEF FeedsInv
<1>2. CASE Lite!Next /\ UNCHANGED <<vars, maVars, ssVars>>
  BY <1>2, DeploymentAssumption, NextLiteInv, PartsAtRest DEF FeedsInv
<1>3. CASE Mini!Next /\ UNCHANGED <<vars, alVars, ssVars>>
  BY <1>3, DeploymentAssumption, NextMiniInv, PartsAtRest DEF FeedsInv
<1>4. CASE Sim!Next /\ UNCHANGED <<vars, alVars, maVars>>
  BY <1>4, NextSimInv, PartsAtRest DEF FeedsInv
<1>5. CASE UNCHANGED allVars
  BY <1>5, PartsAtRest DEF allVars, FeedsInv
<1> QED BY <1>1, <1>2, <1>3, <1>4, <1>5 DEF MCNext

\* What a client may rely on: a pair that mini-agave serves while no stream is
\* connected is in order, its methods agree, the hub's lists come from one
\* source, and the four services keep their types; for any pools, accounts,
\* batches, streams and numbers of failures (handle_blockhash,
\* handle_get_multiple_accounts, get_multiple_accounts_handler).
THEOREM AnswersStaySound == MCSpec => []AnswersAreSound
<1>1. FeedsInv => AnswersAreSound
  BY HydratorTypes, LiteTypes, MiniAnswersAgree, SimAnswers DEF FeedsInv, MiniInv, AnswersAreSound
<1> QED BY <1>1, InitFeedsInv, NextFeedsInv, PTL DEF MCSpec

\* With both writers at work, latest slot wins: the account cache implements
\* the abstract one, whose accounts are held for slots that never go back (upsert).
THEOREM CacheImplementsLatest == MCSpec => AccountCacheImplementsLatest
<1>1. MCInit => Lite!Latest!Init
  <2>1. Lite!Init => Lite!Latest!Init
    BY DEF Lite!Init, Lite!Latest!Init, Lite!Latest!Absent, Lite!LoadedFrom, Lite!Absent
  <2> QED BY <2>1 DEF MCInit
<1>2. FeedsInv /\ [MCNext]_allVars => [Lite!Latest!Next]_Held
  <2> SUFFICES ASSUME FeedsInv, [MCNext]_allVars PROVE Lite!Latest!Next \/ Held' = Held
    OBVIOUS
  <2>1. CASE Lite!Next
    BY <2>1, DeploymentAssumption, StepIsStore DEF FeedsInv
  <2>2. CASE UNCHANGED alVars
    BY <2>2 DEF alVars, Held
  <2> QED BY <2>1, <2>2 DEF MCNext, allVars
<1> QED BY <1>1, <1>2, InitFeedsInv, NextFeedsInv, PTL
        DEF MCSpec, AccountCacheImplementsLatest, Lite!ImplementsLatest, Lite!Latest!Spec, Held
=============================================================================
