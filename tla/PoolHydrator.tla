---------------------------- MODULE PoolHydrator ----------------------------
(***************************************************************************)
(* The pool hydrator fills the pool cache from an RPC node.  A thread      *)
(* refreshes every pool of mapped_pools.json in rounds (refresh_all): the  *)
(* pools' accounts, the arrays or the market each of them refers to, and   *)
(* the vaults' balances.  A swap seen meanwhile has one pool refreshed     *)
(* at once by another thread (refresh_single_pool).  Answers are fetched   *)
(* first and stored one entry at a time, so the two interleave.            *)
(*                                                                         *)
(* A balance counts the changes of its vault, and the state of a pool's    *)
(* account the changes of the account.                                     *)
(***************************************************************************)
EXTENDS Integers, FiniteSets

CONSTANTS
    Pools,          \* the pools of the file
    Listing,        \* pool -> the record of its vault_a and vault_b there
    OnChain,        \* pool -> the record of the vaults its account names
    Arrays,         \* the tick or bin arrays a pool's account leads to
    BatchSize,      \* accounts of one request (100)
    MaxChanges      \* bound: changes of the chain

VARIABLES
    dex,            \* pool -> its venue, by the name in the file (to_dex_type)
    noAgave,        \* NO_AGAVE_MODE
    chain, changes, \* external: key -> changes of the account; all of them so far
    entry,          \* pool -> [meta, vault, reserve] of the cache
    round,          \* the refresh thread
    single,         \* the thread that refreshes single pools
    unanswered      \* pool -> whether its cached market was asked for in vain

vars == <<dex, noAgave, chain, changes, entry, round, single, unanswered>>

Default == "11111111111111111111111111111111"
Base(p) == <<p, "market_base_vault">>
Quote(p) == <<p, "market_quote_vault">>
Vaults == UNION {{OnChain[p].a, OnChain[p].b, Base(p), Quote(p)} : p \in Pools}
NoMeta == [known |-> FALSE]
Unset == 0

\* to_dex_type: what the name contains, in this order.
DexTypeOf(name) ==
    CASE {"raydium", "clmm"} \subseteq name -> "RaydiumClmm"
      [] "cpmm" \in name \/ "cpswap" \in name -> "RaydiumCpmm"
      [] "raydium" \in name -> "RaydiumAmmV4"
      [] "orca" \in name \/ "whirlpool" \in name -> "OrcaWhirlpool"
      [] "meteora" \in name \/ "dlmm" \in name -> "MeteoraDlmm"
      [] "pump" \in name -> "PumpSwap"
      [] "flux" \in name -> "Fluxbeam"
      [] "saber" \in name \/ "stable" \in name -> "Saber"
      [] OTHER -> "Unknown"

\* What a venue's account leads to besides the vaults.
Extras(venue) ==
    CASE venue = "RaydiumAmmV4" -> {"market"}
      [] venue \in {"OrcaWhirlpool", "MeteoraDlmm"} -> Arrays
      [] OTHER -> {}

Meta(vaults, state, extras) ==
    [known |-> TRUE, a |-> vaults.a, b |-> vaults.b, state |-> state, extras |-> extras]

\* decode_raydium_amm: an account whose vaults are not the listed ones, in
\* either order, is refused unless the listing has a placeholder.
DecodesRaydium(p) ==
    LET listed == {Listing[p].a, Listing[p].b}
    IN Default \in listed \/ listed = {OnChain[p].a, OnChain[p].b}

Decodes(p) ==
    CASE dex[p] = "RaydiumAmmV4" -> DecodesRaydium(p)
      [] dex[p] \in {"OrcaWhirlpool", "MeteoraDlmm"} -> TRUE
      [] OTHER -> FALSE

\* load_from_file: a Whirlpool has its vaults from the start.
Loaded(p) ==
    [meta |-> IF dex[p] = "OrcaWhirlpool" THEN Meta(Listing[p], Unset, {}) ELSE NoMeta,
     vault |-> [kind \in {"poolA", "poolB", "marketA", "marketB"} |-> 0],
     reserve |-> [a |-> 0, b |-> 0]]

None == [k \in {} |-> 0]
Asleep == [at |-> "asleep", steady |-> FALSE, mapped |-> {}, todo |-> {}, answer |-> None,
           pending |-> {}, states |-> [p \in Pools |-> Unset], got |-> {}, lost |-> {},
           targets |-> None]
Waiting == [at |-> "waiting", pool |-> CHOOSE p \in Pools : TRUE, targets |-> None,
            answer |-> None]

HydratorInit(venues) ==
    /\ dex \in [Pools -> {DexTypeOf(name) : name \in venues}]
    /\ noAgave \in BOOLEAN
    /\ chain = [k \in Vaults \cup Pools |-> 1]
    /\ changes = 0
    /\ entry = [p \in Pools |-> Loaded(p)]
    /\ round = Asleep
    /\ single = Waiting
    /\ unanswered = [p \in Pools |-> FALSE]

-----------------------------------------------------------------------------
(* Requests                                                                 *)

\* get_multiple_accounts_retry: the node, again unless it could not be
\* reached, then the fallback twice.
Succeeds(o) ==
    \/ o.primary = "answers"
    \/ o.primary = "busy" /\ o.again
    \/ o.configured /\ (o.fallback \/ o.fallbackAgain)

Outcomes ==
    {Succeeds(o) : o \in [primary : {"answers", "busy", "refused"}, again : BOOLEAN,
                          configured : BOOLEAN, fallback : BOOLEAN, fallbackAgain : BOOLEAN]}

\* A chunk of what is to be fetched, in some fixed order (that of a map).
Chunk(todo) ==
    CHOOSE c \in SUBSET todo : Cardinality(c) = IF Cardinality(todo) < BatchSize
                                               THEN Cardinality(todo) ELSE BatchSize
First(answer) == CHOOSE k \in DOMAIN answer : TRUE

\* Of a market or an array all that matters is that it is there.
Answered(keys) == [k \in keys |-> IF k \in DOMAIN chain THEN chain[k] ELSE 1]

-----------------------------------------------------------------------------
(* Vaults and their balances                                                *)

\* The vaults of a record, and what each is to the pool.
VaultsOf(vaults, p) ==
    {[key |-> vaults.a, pool |-> p, kind |-> "poolA"],
     [key |-> vaults.b, pool |-> p, kind |-> "poolB"]}

Real(vaults) == {v \in vaults : v.key # Default}

MetaVaults(p, meta) ==
    IF ~meta.known THEN {}
    ELSE Real(VaultsOf(meta, p))
         \cup IF "market" \in meta.extras
              THEN {[key |-> Base(p), pool |-> p, kind |-> "marketA"],
                    [key |-> Quote(p), pool |-> p, kind |-> "marketB"]}
              ELSE {}

ByKey(vaults) == [k \in {v.key : v \in vaults} |-> CHOOSE v \in vaults : v.key = k]

\* all_vaults: the listed ones, overridden by those of every cached metadata.
AllVaults(mapped) ==
    LET decoded == UNION {MetaVaults(p, entry[p].meta) : p \in Pools}
        listed == Real(UNION {VaultsOf(Listing[p], p) : p \in mapped})
    IN ByKey(decoded \cup {v \in listed : v.key \notin {w.key : w \in decoded}})

\* A balance is stored, and the reserve of its side is the pool's vault and
\* the market's together.
WithBalance(e, kind, amount) ==
    LET vault == [e.vault EXCEPT ![kind] = amount]
    IN [e EXCEPT !.vault = vault,
                 !.reserve = IF kind \in {"poolA", "marketA"}
                             THEN [@ EXCEPT !.a = vault["poolA"] + vault["marketA"]]
                             ELSE [@ EXCEPT !.b = vault["poolB"] + vault["marketB"]]]

HasReserves(e) == e.reserve.a > 0 /\ e.reserve.b > 0

-----------------------------------------------------------------------------
(* refresh_all, in rounds.  A stage fetches what is to do in chunks, and    *)
(* deals with an answer before it asks for the next.                        *)

\* Mutant: a pool is refreshed only once it has reserves.
HydratedOnly(active) == {p \in Pools : HasReserves(entry[p])}

\* spawn_refresh_loop: all pools, or without a node of its own those that
\* have reserves or that shreds have touched lately.
Mapped(active) ==
    IF noAgave THEN {p \in Pools : HasReserves(entry[p]) \/ p \in active} ELSE Pools

others == <<dex, noAgave, chain, changes, single>>

StartRound(steady) ==
    \E active \in SUBSET Pools :
        /\ round.at = "asleep"
        /\ round' = [Asleep EXCEPT !.at = "accounts", !.steady = steady,
                         !.mapped = Mapped(active), !.todo = Mapped(active)]
        /\ UNCHANGED <<others, entry, unanswered>>

\* The accounts of a chunk that exist and are well formed are answered; a
\* vault is a token account and always is.
Fetch(stage) ==
    \E ok \in Outcomes :
        \E found \in SUBSET Chunk(round.todo) : LET chunk == Chunk(round.todo) IN
            /\ round.at = stage
            /\ round.todo # {} /\ round.answer = None
            /\ round.steady => ok /\ found = chunk
            /\ ~ok => found = {}
            /\ ok /\ stage = "vaults" => found = chunk
            /\ round' = [round EXCEPT !.todo = @ \ chunk, !.answer = Answered(found),
                             !.lost = @ \cup (chunk \ found)]
            /\ UNCHANGED <<others, entry, unanswered>>

Done(stage) == round.at = stage /\ round.todo = {} /\ round.answer = None
Without(f, k) == [x \in DOMAIN f \ {k} |-> f[x]]

FetchAccounts == Fetch("accounts")

\* Mutant: every metadata is stored as soon as it is decoded.
StoreAtOnce ==
    \E p \in DOMAIN round.answer :
        /\ round.at = "accounts"
        /\ round' = [round EXCEPT !.answer = Without(@, p),
                         !.pending = IF Decodes(p) THEN @ \cup {p} ELSE @,
                         !.states[p] = round.answer[p]]
        /\ entry' = IF Decodes(p)
                    THEN [entry EXCEPT ![p].meta = Meta(OnChain[p], round.answer[p], {})]
                    ELSE entry
        /\ UNCHANGED <<others, unanswered>>

\* A Raydium pool waits for its market; the others are stored without arrays.
StoreAccount ==
    \E p \in DOMAIN round.answer :
        /\ round.at = "accounts"
        /\ round' = [round EXCEPT !.answer = Without(@, p),
                         !.pending = IF Decodes(p) THEN @ \cup {p} ELSE @,
                         !.states[p] = round.answer[p]]
        /\ entry' = IF Decodes(p) /\ dex[p] # "RaydiumAmmV4"
                    THEN [entry EXCEPT ![p].meta = Meta(OnChain[p], round.answer[p], {})]
                    ELSE entry
        /\ UNCHANGED <<others, unanswered>>

\* The arrays of Meteora's pools, then of Orca's, then the markets.
Requests(venue) == UNION {{<<p, x>> : x \in Extras(venue)} :
                            p \in {q \in round.pending : dex[q] = venue}}

Enter(from, venue) ==
    /\ Done(from)
    /\ ~\E p \in round.pending : dex[p] = from
    /\ round' = [round EXCEPT !.at = venue, !.todo = Requests(venue)]
    /\ UNCHANGED <<others, entry, unanswered>>

EnterExtras ==
    \/ Enter("accounts", "MeteoraDlmm")
    \/ Enter("MeteoraDlmm", "OrcaWhirlpool")
    \/ Enter("OrcaWhirlpool", "RaydiumAmmV4")

ExtraVenues == {"MeteoraDlmm", "OrcaWhirlpool", "RaydiumAmmV4"}

FetchExtras == \E venue \in ExtraVenues : Fetch(venue)

KeepExtras ==
    /\ round.at \in ExtraVenues
    /\ round.answer # None
    /\ round' = [round EXCEPT !.answer = None, !.got = @ \cup DOMAIN round.answer]
    /\ UNCHANGED <<others, entry, unanswered>>

\* Once a stage has all it gets: the arrays, if there are any, replace those
\* of the metadata, and a Raydium metadata goes in with or without its market.
StoreExtras ==
    \E p \in round.pending :
        LET got == {x \in Extras(dex[p]) : <<p, x>> \in round.got}
        IN /\ Done(dex[p])
           /\ round' = [round EXCEPT !.pending = @ \ {p}]
           /\ entry' = IF dex[p] = "RaydiumAmmV4"
                       THEN [entry EXCEPT ![p].meta = Meta(OnChain[p], round.states[p], got)]
                       ELSE IF got # {} THEN [entry EXCEPT ![p].meta.extras = got] ELSE entry
           /\ unanswered' = [unanswered EXCEPT ![p] = <<p, "market">> \in round.lost]
           /\ UNCHANGED others

EnterVaults ==
    /\ Done("RaydiumAmmV4")
    /\ round.pending = {}
    /\ round' = [round EXCEPT !.at = "vaults", !.targets = AllVaults(round.mapped),
                     !.todo = DOMAIN AllVaults(round.mapped)]
    /\ UNCHANGED <<others, entry, unanswered>>

FetchVaults == Fetch("vaults")

StoreBalance ==
    /\ round.at = "vaults"
    /\ round.answer # None
    /\ LET k == First(round.answer)
           v == round.targets[k]
       IN /\ entry' = [entry EXCEPT ![v.pool] = WithBalance(@, v.kind, round.answer[k])]
          /\ round' = [round EXCEPT !.answer = Without(@, k)]
    /\ UNCHANGED <<others, unanswered>>

EndRound ==
    /\ Done("vaults")
    /\ round' = Asleep
    /\ UNCHANGED <<others, entry, unanswered>>

Round ==
    \/ StartRound(FALSE) \/ FetchAccounts \/ StoreAccount
    \/ EnterExtras \/ FetchExtras \/ KeepExtras \/ StoreExtras
    \/ EnterVaults \/ FetchVaults \/ StoreBalance \/ EndRound

-----------------------------------------------------------------------------
(* refresh_single_pool                                                      *)

rest == <<dex, noAgave, chain, changes, round, unanswered>>

\* The vaults of the cached metadata, and a Whirlpool's own account with
\* them; a PumpSwap pool's account is asked for first.
StartSingle ==
    \E p \in Pools :
        LET meta == entry[p].meta
            own == IF dex[p] = "OrcaWhirlpool" /\ meta.known
                   THEN {[key |-> p, pool |-> p, kind |-> "account"]} ELSE {}
            asked == own \cup MetaVaults(p, meta)
        IN /\ single.at = "waiting"
           /\ asked # {} \/ dex[p] = "PumpSwap"
           /\ single' = [at |-> IF dex[p] = "PumpSwap" THEN "account" ELSE "vaults",
                         pool |-> p, targets |-> ByKey(asked), answer |-> None]
           /\ UNCHANGED <<rest, entry>>

SingleAccount ==
    \E ok \in Outcomes :
        LET vaults == VaultsOf(OnChain[single.pool], single.pool)
        IN /\ single.at = "account"
           /\ single' = IF ok /\ Default \notin {v.key : v \in vaults}
                        THEN [single EXCEPT !.at = "vaults", !.targets = ByKey(vaults)]
                        ELSE Waiting
           /\ UNCHANGED <<rest, entry>>

SingleAnswered ==
    \E ok \in Outcomes :
        /\ single.at = "vaults"
        /\ single' = IF ok THEN [single EXCEPT !.at = "storing", !.answer = Answered(DOMAIN single.targets)]
                     ELSE Waiting
        /\ UNCHANGED <<rest, entry>>

\* What an answered account changes in its pool's entry; a PumpSwap pool's
\* reserves are set directly.
Refreshed(e, kind, value) ==
    CASE kind = "account" -> [e EXCEPT !.meta.state = value]
      [] kind = "poolA" /\ dex[single.pool] = "PumpSwap" -> [e EXCEPT !.reserve.a = value]
      [] kind = "poolB" /\ dex[single.pool] = "PumpSwap" -> [e EXCEPT !.reserve.b = value]
      [] OTHER -> WithBalance(e, kind, value)

SingleStores ==
    /\ single.at = "storing"
    /\ LET k == First(single.answer)
       IN /\ entry' = [entry EXCEPT ![single.pool] =
                           Refreshed(@, single.targets[k].kind, single.answer[k])]
          /\ single' = IF DOMAIN single.answer = {k} THEN Waiting
                       ELSE [single EXCEPT !.answer = Without(@, k)]
    /\ UNCHANGED rest

\* external: a change of a pool's account or of one of its vaults.
Produce ==
    \E k \in DOMAIN chain :
        /\ changes < MaxChanges
        /\ changes' = changes + 1
        /\ chain' = [chain EXCEPT ![k] = @ + 1]
        /\ UNCHANGED <<dex, noAgave, entry, round, single, unanswered>>

Next ==
    \/ Produce \/ Round \/ StartRound(TRUE)
    \/ StartSingle \/ SingleAccount \/ SingleAnswered \/ SingleStores

\* The thread runs for ever, and a round comes in which the node answers.
Fairness == WF_vars(Round) /\ SF_vars(StartRound(TRUE))

-----------------------------------------------------------------------------
TypeOK ==
    /\ \A p \in Pools : \A k \in DOMAIN entry[p].vault : entry[p].vault[k] \in 0..(MaxChanges + 1)
    /\ round.pending \subseteq round.mapped
    /\ DOMAIN round.answer \cap round.todo = {}

\* "either absent or fully resolved" (refresh_all, on flushing the Raydium
\* metadata) holds but for one case: a cached Raydium metadata is without its
\* market only if the market was asked for in vain in the round that stored it.
UnresolvedOnlyOnFailure ==
    \A p \in Pools : dex[p] = "RaydiumAmmV4" /\ entry[p].meta.known
        => entry[p].meta.extras # {} \/ unanswered[p]

\* The reserves the chain's balances make.
Due(p) ==
    LET market(k) == IF dex[p] = "RaydiumAmmV4" THEN chain[k] ELSE 0
    IN [a |-> chain[OnChain[p].a] + market(Base(p)), b |-> chain[OnChain[p].b] + market(Quote(p))]

AtRest == changes = MaxChanges
UpToDate ==
    \A p \in Pools : entry[p].reserve = Due(p) \/ (noAgave /\ ~HasReserves(entry[p]))

\* Once the chain changes no more, every pool comes to have its reserves for
\* good, however late an answer is stored; but without a node of its own the
\* refresh may leave out for ever a pool that has none (spawn_refresh_loop).
ReservesCatchUp == <>AtRest => <>[]UpToDate
=============================================================================
