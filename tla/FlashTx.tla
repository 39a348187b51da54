------------------------------- MODULE FlashTx -------------------------------
(***************************************************************************)
(* A flash-loan arbitrage transaction, from the route to the chain:        *)
(* executor/src/tx_builder.rs and flash_loans.rs build it for the provider *)
(* that market-engine's FlashSelector prefers, and for the fallbacks; the  *)
(* providers' programs (external) and the project's own on-chain programs  *)
(* helios-arb and port-flash-receiver execute it, instruction by           *)
(* instruction, and all of it is undone when one of them fails.            *)
(*                                                                         *)
(* An account is a tuple whose first component is its role; instruction    *)
(* data are the fields a program reads.  Amounts are small numbers.        *)
(***************************************************************************)
EXTENDS Integers, FiniteSets, SequencesExt

CONSTANTS
    Pools,       \* pool -> [dex, a, b, meta, bins, active]
    Routes,      \* routes the executor is given: [hops, borrow, gross, net, risk]
    KnownOps,    \* external: the instructions the venues' programs know
    MinProfit,   \* min_profit of the executor
    Wsol, Usdc,  \* the two mints the providers lend
    OwnerOf,     \* mint -> the token program that owns it on chain
    Env,         \* where lookup_config_value looks, in order: key -> value
    ActiveBanks, \* MARGINFI_ACTIVE_BANKS
    Fee,         \* provider -> fee of a loan
    Collateral,  \* what the MarginFi account can owe and stay healthy
    Outputs,     \* what a hop may yield on chain
    OwnFunds,    \* what the payer's token account of a mint may hold
    MaxAccounts, \* MAX_ACCOUNTS_PER_TX, 64
    Forgets      \* bound: how often the mint cache expires

Spl == "Tokenkeg"

\* TOKEN_2022_PROGRAM_ID of tx_builder.rs.  The program that owns Token-2022
\* mints is TokenzQdBNbLqP5..., which sniper.rs and the tracker name.
T22 == "TokenzQdBNbEqui"

Mints == DOMAIN OwnerOf
Providers == {"marginfi", "port", "solend", "kamino"}

VARIABLES
    route,     \* the route being executed
    programs,  \* mint_program_cache
    forgot,    \* how many entries have expired
    lenders,   \* FlashSelector: provider -> [healthy, available]
    tx,        \* the built transaction
    own,       \* the payer's token balances before the transaction
    run,       \* the state of the execution
    status

vars == <<route, programs, forgot, lenders, tx, own, run, status>>

-----------------------------------------------------------------------------
(* Accounts and instructions.                                              *)

Ata(mint, prog) == <<"ata", mint, prog>>
Payer == <<"payer">>
Config == <<"config">>
Sysvar == <<"sysvar">>
Program(name) == <<"program", name>>
PoolAcc(p) == <<"pool", p>>
Accounts(p, n) == [i \in 1 .. n |-> <<"acct", p, i>>]
As(role, account) == <<role, account>>

Ix(op, ref, accounts, data) ==
    [op |-> op, ref |-> ref, accounts |-> accounts, data |-> data]

NoRoute == [hops |-> <<>>, borrow |-> 0, gross |-> 0, net |-> 0, risk |-> 0]
NoTx == [ixs |-> <<>>, provider |-> "none", mode |-> "none"]
NoRun == [ix |-> 0, hop |-> 0, bal |-> <<>>, atas |-> {}, debt |-> 0,
          before |-> 0]

-----------------------------------------------------------------------------
(* Token programs of the route's mints.                                    *)

MintsOf(r) == UNION {{r.hops[i].in, r.hops[i].out} : i \in DOMAIN r.hops}

\* Where a route names a mint first: a hop names its input before its output.
FirstNamed(r, m) ==
    Min({2 * i : i \in {j \in DOMAIN r.hops : r.hops[j].in = m}}
          \cup {2 * i + 1 : i \in {j \in DOMAIN r.hops : r.hops[j].out = m}})

\* The mint before which k - 1 others are named.
NthMint(r, k) ==
    CHOOSE m \in MintsOf(r) :
       Cardinality({n \in MintsOf(r) : FirstNamed(r, n) < FirstNamed(r, m)}) = k - 1

\* The mints in the order the hops name them, each once.
MintSeq(r) == [k \in 1 .. Cardinality(MintsOf(r)) |-> NthMint(r, k)]

\* Mints recognised by their address, without a request.
WellKnown == {Wsol, Usdc}

Uncached(r) == {m \in MintsOf(r) : m \notin WellKnown /\ programs[m] = "none"}

\* What one get_multiple_accounts answer says of a mint.
Classify(m) == IF OwnerOf[m] = T22 THEN T22 ELSE Spl

\* token_programs_for_route: cached, fetched, or the default without caching.
ProgramsFor(r, answered) ==
    [m \in Mints |->
       IF m \in WellKnown THEN Spl
       ELSE IF m \in Uncached(r) THEN (IF answered THEN Classify(m) ELSE Spl)
       ELSE IF programs[m] # "none" THEN programs[m] ELSE Spl]

CacheAfter(r, answered) ==
    [m \in Mints |->
       IF m \in MintsOf(r) /\ (m \in WellKnown \/ answered)
       THEN ProgramsFor(r, answered)[m] ELSE programs[m]]

-----------------------------------------------------------------------------
(* The hops of a route.                                                    *)

AtoB(h) == h.in = Pools[h.pool].a

\* The two tokens of the hop are the two tokens of its pool.
HopValid(h) ==
    LET p == Pools[h.pool] IN
    /\ h.in # h.out
    /\ h.in \in {p.a, p.b}
    /\ h.out \in {p.a, p.b}

Source(h, progs) == As("src", Ata(h.in, progs[h.in]))
Dest(h, progs) == As("dst", Ata(h.out, progs[h.out]))

RaydiumAccounts(h, progs) ==
    <<Program("raydium")>> \o Accounts(h.pool, 14)
      \o <<Source(h, progs), Dest(h, progs), Payer>>

\* Orca's owner accounts are derived for the SPL token program.
OrcaAccounts(h, progs) ==
    <<Program("orca")>> \o Accounts("shared", 3) \o <<Payer, PoolAcc(h.pool)>>
      \o <<<<"mint", Pools[h.pool].a>>, <<"mint", Pools[h.pool].b>>>>
      \o <<As("A", Ata(Pools[h.pool].a, Spl)), <<"acct", h.pool, 1>>,
           As("B", Ata(Pools[h.pool].b, Spl)), <<"acct", h.pool, 2>>>>
      \o [i \in 1 .. 6 |-> <<"tick", h.pool, i>>]

\* derive_meteora_bin_arrays: the cached arrays on the side the price moves
\* to, nearest first; three consecutive ones when none is cached there.
BinArrays(p, aToB) ==
    LET dir(i) == IF aToB THEN Pools[p].active - i ELSE Pools[p].active + i
        side == {b \in Pools[p].bins : IF aToB THEN b <= Pools[p].active
                                               ELSE b >= Pools[p].active}
    IN  IF side = {} THEN <<dir(0), dir(1), dir(2)>>
        ELSE SetToSortSeq(side, LAMBDA x, y : IF aToB THEN x > y ELSE x < y)

MeteoraAccounts(h, progs) ==
    <<Program("meteora"), PoolAcc(h.pool)>> \o Accounts(h.pool, 2)
      \o <<Source(h, progs), Dest(h, progs)>>
      \o <<<<"mint", Pools[h.pool].a>>, <<"mint", Pools[h.pool].b>>>>
      \o <<<<"acct", h.pool, 3>>, Payer, Program("token"), <<"acct", "shared", 1>>,
           Program("meteora")>>
      \o [i \in DOMAIN BinArrays(h.pool, AtoB(h)) |->
            <<"bin", h.pool, BinArrays(h.pool, AtoB(h))[i]>>]

\* The WSOL side of a PumpSwap pool is its quote.
BaseOf(p) == IF Pools[p].a = Wsol THEN Pools[p].b ELSE Pools[p].a
QuoteOf(p) == IF Pools[p].a = Wsol THEN Pools[p].a ELSE Pools[p].b

\* Pubkeys are ordered by their bytes, and Tokenkeg... is the lower one: the
\* base account gets the lower program of the two, the quote the higher.
PumpSwapAccounts(h, progs) ==
    LET two == {progs[h.in], progs[h.out]}
        lower == IF Spl \in two THEN Spl ELSE T22
        higher == IF T22 \in two THEN T22 ELSE Spl
    IN  <<Program("pumpswap"), PoolAcc(h.pool)>> \o Accounts(h.pool, 8)
          \o <<Payer, As("base", Ata(BaseOf(h.pool), lower)),
               As("quote", Ata(QuoteOf(h.pool), higher))>>
          \o Accounts("shared", 4) \o <<Program("pumpswap")>>

HopAccounts(h, progs) ==
    CASE Pools[h.pool].dex = "raydium"  -> RaydiumAccounts(h, progs)
      [] Pools[h.pool].dex = "orca"     -> OrcaAccounts(h, progs)
      [] Pools[h.pool].dex = "meteora"  -> MeteoraAccounts(h, progs)
      [] Pools[h.pool].dex = "pumpswap" -> PumpSwapAccounts(h, progs)

\* Which hops build_helios_instruction can encode; a pool without its
\* metadata, or with a part of it only, and every other DEX is an error.
Encodable(h) ==
    /\ HopValid(h)
    /\ \/ Pools[h.pool].dex \in {"raydium", "orca"} /\ Pools[h.pool].meta = "whole"
       \/ Pools[h.pool].dex = "meteora" /\ Pools[h.pool].meta # "none"
       \/ Pools[h.pool].dex = "pumpswap"

\* build_swap_data: the discriminator in front of the amounts; that of PumpSwap
\* follows a_to_b.
HeliosOp(h) ==
    CASE Pools[h.pool].dex = "raydium" -> "9"
      [] Pools[h.pool].dex = "meteora" -> "f8c6f491"
      [] Pools[h.pool].dex = "pumpswap" -> IF AtoB(h) THEN "sell" ELSE "buy"
      [] OTHER -> "swap_v2"

\* build_direct_swap_tx has discriminators of its own but for Orca: Raydium's is
\* eight bytes long, PumpSwap's always the one of a sell.
DirectOp(h) ==
    CASE Pools[h.pool].dex = "raydium" -> "9, 0, 0, 0, 0, 0, 0, 0"
      [] Pools[h.pool].dex = "meteora" -> "f8c69e91"
      [] Pools[h.pool].dex = "pumpswap" -> "sell"
      [] OTHER -> HeliosOp(h)

SwapData(h, amount, op) ==
    [dex |-> Pools[h.pool].dex, pool |-> h.pool, amount |-> amount, op |-> op,
     aToB |-> AtoB(h)]

\* What the next hop spends: 95 % of the estimate through helios-arb, all of
\* it in a direct swap.
SafeOut(h) == (h.est * 95) \div 100

AmountIn(r, i, mode) ==
    IF i = 1 THEN r.borrow
    ELSE IF mode = "direct" THEN r.hops[i - 1].est ELSE SafeOut(r.hops[i - 1])

BorrowMint(r) == r.hops[1].in
UserAta(r, progs) == Ata(BorrowMint(r), progs[BorrowMint(r)])

\* build_helios_instruction: four accounts, then those of the hops; the plan
\* says how many each hop takes.  min_profit is 0.
HeliosIx(r, progs) ==
    Ix("helios", 0,
       <<Payer, UserAta(r, progs), Config, Program("token")>>
         \o FlattenSeq([i \in DOMAIN r.hops |-> HopAccounts(r.hops[i], progs)]),
       [min_profit |-> 0,
        counts |-> [i \in DOMAIN r.hops |-> Len(HopAccounts(r.hops[i], progs))],
        hops |-> [i \in DOMAIN r.hops |->
                    SwapData(r.hops[i], AmountIn(r, i, "helios"), HeliosOp(r.hops[i]))]])

\* The accounts of a direct swap instruction: no program in front, and
\* another layout for some venues.
DirectAccounts(h, progs) ==
    LET p == Pools[h.pool] IN
    CASE p.dex = "raydium" ->
           Accounts(h.pool, 15) \o <<Source(h, progs), Dest(h, progs), Payer>>
      [] p.dex = "pumpswap" ->
           <<PoolAcc(h.pool), Payer, <<"acct", "shared", 1>>,
             <<"mint", p.a>>, <<"mint", p.b>>,
             As("base", Ata(h.in, progs[h.in])), As("quote", Ata(h.out, progs[h.out]))>>
             \o Accounts(h.pool, 4) \o Accounts("shared", 5) \o <<Program("pumpswap")>>
      [] p.dex = "meteora" ->
           <<PoolAcc(h.pool), Program("meteora"), Payer>> \o Accounts(h.pool, 2)
             \o <<Source(h, progs), Dest(h, progs)>> \o Accounts("shared", 3)
             \o <<Program("meteora")>>
             \o SetToSeq({<<"bin", h.pool, b>> : b \in p.bins})
      [] p.dex = "orca" ->
           Accounts("shared", 3) \o <<Payer, PoolAcc(h.pool)>>
             \o <<<<"mint", p.a>>, <<"mint", p.b>>>>
             \o <<As("A", Ata(p.a, progs[h.in])), <<"acct", h.pool, 1>>,
                  As("B", Ata(p.b, progs[h.out])), <<"acct", h.pool, 2>>>>
             \o [i \in 1 .. 4 |-> <<"tick", h.pool, i>>]

\* build_direct_swap_tx checks neither the tokens of a hop nor that the metadata
\* of a Raydium pool is complete.
DirectEncodable(h) ==
    \/ Pools[h.pool].dex = "orca" /\ Pools[h.pool].meta = "whole"
    \/ Pools[h.pool].dex \in {"raydium", "meteora"} /\ Pools[h.pool].meta # "none"
    \/ Pools[h.pool].dex = "pumpswap"

DirectIxs(r, progs) ==
    [i \in DOMAIN r.hops |->
       Ix("swap", 0, DirectAccounts(r.hops[i], progs),
          SwapData(r.hops[i], AmountIn(r, i, "direct"), DirectOp(r.hops[i])))]

-----------------------------------------------------------------------------
(* Configuration of the lenders.                                           *)

\* lookup_config_value: the first source with a value for the key.
Lookup(key) ==
    LET found == {i \in DOMAIN Env : key \in DOMAIN Env[i]}
    IN  IF found = {} THEN "missing"
        ELSE Env[CHOOSE i \in found : \A j \in found : i <= j][key]

\* parse_env_pubkey_aliases: the first alias with a value decides, also when
\* that value is not an address.
FirstAlias(keys) ==
    LET found == {i \in DOMAIN keys : Lookup(keys[i]) # "missing"}
    IN  IF found = {} THEN "missing"
        ELSE Lookup(keys[CHOOSE i \in found : \A j \in found : i <= j])

Suffix(mint) == IF mint = Wsol THEN "SOL" ELSE "USDC"

\* The alias lists whose values resolve_*_config needs: keys of the mint, or
\* common to both.
Required(provider, mint) ==
    LET of(name) == <<name, Suffix(mint)>>
        all(name) == <<name, "">>
    IN  CASE provider = "marginfi" ->
               {<<all("MARGINFI_GROUP"), all("MARGINFI_MAIN_GROUP")>>,
                <<all("MARGINFI_ACCOUNT")>>, <<of("MARGINFI_BANK")>>}
          [] provider = "kamino" ->
               {<<of("KAMINO_LIQUIDITY_SUPPLY"), of("KAMINO_LIQUIDITY_VAULT")>>,
                <<of("KAMINO_LENDING_MARKET"), all("KAMINO_MAIN_MARKET")>>}
          [] provider = "port" ->
               {<<of("PORT_RESERVE")>>,
                <<of("PORT_LENDING_MARKET"), all("PORT_MAIN_MARKET")>>}
          [] provider = "solend" -> {<<of("SOLEND_RESERVE")>>}

Configured(provider, mint) ==
    /\ mint \in {Wsol, Usdc}
    /\ \A keys \in Required(provider, mint) :
          FirstAlias(keys) \notin {"missing", "bad"}

\* The bank of a mint, as a number: addresses are compared by their bytes.
BankOf(mint) == IF mint = Wsol THEN 2 ELSE 1

\* resolve_marginfi_oracle knows the two banks of the configuration.
OraclesKnown == \A i \in DOMAIN ActiveBanks : ActiveBanks[i] \in {1, 2}

\* compose_marginfi_health_accounts of the active banks and the borrowed one.
HealthAccounts(mint) ==
    LET banks == IF Contains(ActiveBanks, BankOf(mint)) THEN ActiveBanks
                 ELSE Append(ActiveBanks, BankOf(mint))
        down == SortSeq(banks, LAMBDA x, y : x > y)
    IN  [i \in DOMAIN down |-> <<"bank", down[i]>>]

-----------------------------------------------------------------------------
(* The instructions of a transaction.                                      *)

BudgetIxs == <<Ix("budget", 0, <<>>, <<>>), Ix("budget", 0, <<>>, <<>>)>>

\* build_ata_setup_instructions: one idempotent creation for every mint.
AtaIxs(r, progs) ==
    [i \in DOMAIN MintSeq(r) |->
       Ix("ata", 0, <<>>, <<MintSeq(r)[i], progs[MintSeq(r)[i]]>>)]

\* ata_count: what stands before the loan, the compute budget included.
Preceding(r) == Len(BudgetIxs) + Len(MintSeq(r))

Borrow(r) == Ix("borrow", 0, <<>>, r.borrow)
Repay(pre) == Ix("repay", pre, <<>>, <<>>)

\* Mutant: one of the four accounts of helios-arb is passed on as well.
OneAccountTooMany(helios) ==
    <<Payer, Program("helios"), helios.accounts[3], Sysvar>>
      \o SubSeq(helios.accounts, 4, Len(helios.accounts))

\* The callback accounts of Port: the receiver finds payer, program, config
\* and sysvar in front of what helios-arb takes after its first four.
PortCallback(helios) ==
    <<Payer, Program("helios"), helios.accounts[3], Sysvar>>
      \o SubSeq(helios.accounts, 5, Len(helios.accounts))

\* Indices into the transaction count from 0.
MarginfiWrapped(r, helios, pre) ==
    <<Ix("begin", pre + 3, <<>>, <<>>), Borrow(r), helios,
      Ix("end", 0, HealthAccounts(BorrowMint(r)), <<>>)>>

SolendWrapped(r, helios, pre) == <<Borrow(r), helios, Repay(pre)>>

KaminoWrapped(r, helios, pre) == <<Borrow(r), helios, Repay(pre)>>

PortWrapped(r, helios) ==
    <<Ix("flash", 0, PortCallback(helios), r.borrow),
      Ix("carrier", 0, <<>>, helios.data)>>

\* build_wrapped_instructions.
Wrapped(provider, r, progs, pre) ==
    LET helios == HeliosIx(r, progs) IN
    CASE provider = "marginfi" -> MarginfiWrapped(r, helios, pre)
      [] provider = "solend"   -> SolendWrapped(r, helios, pre)
      [] provider = "kamino"   -> KaminoWrapped(r, helios, pre)
      [] provider = "port"     -> PortWrapped(r, helios)

\* build_wrapped_instructions_direct: the end of a MarginFi loan is given no
\* health accounts here.
WrappedDirect(provider, r, swaps, pre) ==
    CASE provider = "marginfi" ->
           <<Ix("begin", pre + 2 + Len(swaps), <<>>, <<>>), Borrow(r)>> \o swaps
             \o <<Ix("end", 0, <<>>, <<>>)>>
      [] provider = "kamino" -> <<Borrow(r)>> \o swaps \o <<Repay(pre)>>

TipIx == <<Ix("tip", 0, <<>>, <<>>)>>

CanBuildHelios(r, provider) ==
    /\ Len(r.hops) > 0 /\ \A i \in DOMAIN r.hops : Encodable(r.hops[i])
    /\ Configured(provider, BorrowMint(r))
    /\ provider = "marginfi" => OraclesKnown
    /\ provider = "port" => r.borrow > 0

\* build_inner_cached.
BuildHelios(r, provider, progs, tip) ==
    [ixs |-> BudgetIxs \o AtaIxs(r, progs) \o Wrapped(provider, r, progs, Preceding(r))
               \o (IF tip THEN TipIx ELSE <<>>),
     provider |-> provider, mode |-> "helios"]

CanBuildDirect(r, provider) ==
    /\ Len(r.hops) > 0 /\ \A i \in DOMAIN r.hops : DirectEncodable(r.hops[i])
    /\ provider \in {"marginfi", "kamino"}
    /\ Configured(provider, BorrowMint(r))

\* build_direct_swap_tx.
BuildDirect(r, provider, progs) ==
    [ixs |-> BudgetIxs \o AtaIxs(r, progs)
               \o WrappedDirect(provider, r, DirectIxs(r, progs), Preceding(r)) \o TipIx,
     provider |-> provider, mode |-> "direct"]

\* build_jupiter_flash_tx: no token account is created, and no tip follows
\* a Kamino loan.
BuildJupiter(r, provider) ==
    LET progs == [m \in Mints |-> Spl]
        swaps == [i \in DOMAIN r.hops |->
                    Ix("swap", 0, <<Source(r.hops[i], progs), Dest(r.hops[i], progs)>>,
                       [SwapData(r.hops[i], AmountIn(r, i, "direct"), "jupiter")
                          EXCEPT !.dex = "jupiter"])]
    IN  [ixs |-> BudgetIxs \o WrappedDirect(provider, r, swaps, Len(BudgetIxs))
                   \o (IF provider = "kamino" THEN <<>> ELSE TipIx),
         provider |-> provider, mode |-> "jupiter"]

\* preflight::check of a built transaction; sizes are left out, and the risk is
\* in per cent.
PreflightOk(r, t) ==
    /\ Cardinality(UNION {ToSet(t.ixs[i].accounts) : i \in DOMAIN t.ixs}) <= MaxAccounts
    /\ r.net >= MinProfit
    /\ r.borrow > 0 /\ r.gross > 0 /\ Len(r.hops) > 0
    /\ \A i \in DOMAIN r.hops : r.hops[i].est > 0
    /\ r.risk < 100

\* fallback_candidates: the preferred provider, then the others in a fixed
\* order, which is left open as any of them may be the one that is sent.
FallbackCandidates(preferred) == {preferred} \cup Providers

Priority(p) == CHOOSE i \in 1 .. 4 : <<"marginfi", "port", "solend", "kamino">>[i] = p

\* FlashSelector::select: the cheapest healthy provider with the liquidity.
Select(borrow) ==
    LET able == {p \in Providers : lenders[p].healthy /\ lenders[p].available >= borrow}
        better(p, q) == \/ Fee[p] < Fee[q]
                        \/ Fee[p] = Fee[q] /\ Priority(p) < Priority(q)
    IN  IF able = {} THEN "none"
        ELSE CHOOSE p \in able : \A q \in able \ {p} : better(p, q)

-----------------------------------------------------------------------------
(* Building.                                                               *)

Init ==
    /\ route = NoRoute
    /\ programs = [m \in Mints |-> "none"]
    /\ forgot = 0
    /\ lenders = [p \in Providers |->
                    [healthy |-> p # "port",
                     available |-> CASE p = "marginfi" -> 10 [] p = "port" -> 5
                                     [] p = "solend" -> 8 [] p = "kamino" -> 15]]
    /\ tx = NoTx
    /\ own = [m \in Mints |-> 0]
    /\ run = NoRun
    /\ status = "idle"

\* An entry of mint_program_cache is older than its 300 s.
Expire(m) ==
    /\ forgot < Forgets
    /\ status = "idle" /\ programs[m] # "none"
    /\ programs' = [programs EXCEPT ![m] = "none"]
    /\ forgot' = forgot + 1
    /\ UNCHANGED <<route, lenders, tx, own, run, status>>

\* A route arrives; the payer holds whatever it holds.
Arrive(r, funds) ==
    /\ status = "idle"
    /\ route' = r
    /\ own' = funds
    /\ tx' = NoTx /\ run' = NoRun
    /\ status' = "routed"
    /\ UNCHANGED <<programs, forgot, lenders>>

Fail == /\ tx' = NoTx /\ status' = "idle"

Built(t) == /\ tx' = t
            /\ status' = "built"

\* The fast path: a direct swap, or else helios-arb, always with MarginFi and a
\* tip.  (Which routes it takes, and those its re-quote drops: Executor.)
FastBuild(answered) ==
    LET provider == "marginfi"
        progs == ProgramsFor(route, answered)
    IN  /\ status = "routed"
        /\ programs' = CacheAfter(route, answered)
        /\ IF CanBuildDirect(route, provider)
           THEN Built(BuildDirect(route, provider, progs))
           ELSE IF CanBuildHelios(route, provider)
           THEN Built(BuildHelios(route, provider, progs, TRUE))
           ELSE Fail
        /\ UNCHANGED <<route, forgot, lenders, own, run>>

\* The slow path: every candidate is built and simulated, and one that is
\* left after preflight and simulation is built again with its tip.
SlowBuild(answered) ==
    LET progs == ProgramsFor(route, answered)
        usable == {p \in FallbackCandidates(Select(route.borrow)) :
                     /\ p # "none" /\ CanBuildHelios(route, p)
                     /\ PreflightOk(route, BuildHelios(route, p, progs, FALSE))}
    IN  /\ status = "routed"
        /\ programs' = CacheAfter(route, answered)
        /\ IF usable = {} THEN Fail
           ELSE \E p \in usable : Built(BuildHelios(route, p, progs, TRUE))
        /\ UNCHANGED <<route, forgot, lenders, own, run>>

\* The Jupiter scanner wraps WSOL round trips of two swaps.
JupiterBuild(provider) ==
    /\ status = "routed"
    /\ BorrowMint(route) = Wsol
    /\ provider \in {"marginfi", "kamino"} /\ Configured(provider, Wsol)
    /\ Built(BuildJupiter(route, provider))
    /\ UNCHANGED <<route, programs, forgot, lenders, own, run>>

-----------------------------------------------------------------------------
(* Execution on chain.  An instruction that fails undoes the transaction.  *)

Land ==
    /\ status = "built"
    /\ run' = [ix |-> 1, hop |-> 0, bal |-> own, debt |-> 0, before |-> 0,
               atas |-> {Ata(m, OwnerOf[m]) : m \in {n \in Mints : own[n] > 0}}]
    /\ status' = "running"
    /\ UNCHANGED <<route, programs, forgot, lenders, tx, own>>

Current == tx.ixs[run.ix]
At(index) == IF index + 1 \in DOMAIN tx.ixs THEN tx.ixs[index + 1].op ELSE "none"

Revert ==
    /\ run' = NoRun
    /\ status' = "reverted"

Advance(r) ==
    /\ run' = [r EXCEPT !.ix = run.ix + 1, !.hop = 0]
    /\ status' = IF run.ix = Len(tx.ixs) THEN "landed" ELSE "running"

Running(ops) == /\ status = "running" /\ Current.op \in ops
                /\ UNCHANGED <<route, programs, forgot, lenders, tx, own>>

\* Compute budget, tip and the carrier change no token account.
RunPlain == Running({"budget", "tip", "carrier"}) /\ Advance(run)

\* CreateIdempotent: the address is derived for the SPL token program and
\* has to be the one of the program that is passed and owns the mint.
RunAta ==
    /\ Running({"ata"})
    /\ IF Current.data[2] = Spl /\ OwnerOf[Current.data[1]] = Spl
       THEN Advance([run EXCEPT !.atas = @ \cup {Ata(Current.data[1], Spl)}])
       ELSE Revert

\* The start of a MarginFi loan names the instruction that ends it.
RunBegin ==
    /\ Running({"begin"})
    /\ IF At(Current.ref) = "end" THEN Advance(run) ELSE Revert

\* A balance that grows, and one that shrinks.
Credit(bal, m, amount) == [bal EXCEPT ![m] = @ + amount]
Debit(bal, m, amount) == [bal EXCEPT ![m] = @ - amount]

Lent(r) ==
    [r EXCEPT !.bal = Credit(r.bal, BorrowMint(route), route.borrow),
              !.debt = route.borrow + Fee[tx.provider]]

RunBorrow ==
    /\ Running({"borrow"})
    /\ IF Ata(BorrowMint(route), OwnerOf[BorrowMint(route)]) \in run.atas
       THEN Advance(Lent(run)) ELSE Revert

\* The token accounts a DEX takes the input from and pays the output to.
RoleOf(accounts, role) ==
    LET i == CHOOSE i \in DOMAIN accounts : accounts[i][1] = role
    IN  accounts[i][2]

SwapSource(d, accounts) ==
    CASE d.dex = "orca"     -> RoleOf(accounts, IF d.aToB THEN "A" ELSE "B")
      [] d.dex = "pumpswap" -> RoleOf(accounts, IF d.op = "sell" THEN "base" ELSE "quote")
      [] OTHER              -> RoleOf(accounts, "src")

SwapDest(d, accounts) ==
    CASE d.dex = "orca"     -> RoleOf(accounts, IF d.aToB THEN "B" ELSE "A")
      [] d.dex = "pumpswap" -> RoleOf(accounts, IF d.op = "sell" THEN "quote" ELSE "base")
      [] OTHER              -> RoleOf(accounts, "dst")

\* The program knows the instruction and, of Raydium, finds its market; both
\* accounts exist, they hold the tokens the DEX expects there, and the input is
\* covered.
SwapRuns(d, accounts) ==
    LET src == SwapSource(d, accounts) dst == SwapDest(d, accounts) p == Pools[d.pool]
    IN  /\ d.op \in KnownOps
        /\ d.dex = "raydium" => p.meta = "whole"
        /\ {src, dst} \subseteq run.atas
        /\ {src[2], dst[2]} = {p.a, p.b}
        /\ d.dex = "pumpswap" => RoleOf(accounts, "base")[2] = BaseOf(d.pool)
        /\ run.bal[src[2]] >= d.amount

Swapped(d, accounts, out) ==
    [run EXCEPT !.bal = Credit(Debit(run.bal, SwapSource(d, accounts)[2], d.amount),
                               SwapDest(d, accounts)[2], out)]

RunSwap(out) ==
    /\ Running({"swap"})
    /\ IF SwapRuns(Current.data, Current.accounts)
       THEN Advance(Swapped(Current.data, Current.accounts, out)) ELSE Revert

\* helios-arb: the accounts after the first four, cut into the hops' shares.
Slice(remaining, counts, i) ==
    LET from == FoldLeft(+, 0, SubSeq(counts, 1, i - 1))
    IN  SubSeq(remaining, from + 1, from + counts[i])

\* execute_hops accepts the plan up to hop i.
PlanHolds(remaining, plan, i) ==
    /\ Len(plan.counts) = Len(plan.hops)
    /\ plan.counts[i] > 0
    /\ FoldLeft(+, 0, SubSeq(plan.counts, 1, i)) <= Len(remaining)
    /\ Slice(remaining, plan.counts, i)[1] = Program(plan.hops[i].dex)
    /\ plan.hops[i].dex \in {"raydium", "orca", "meteora", "pumpswap"}
    /\ i = Len(plan.counts) => FoldLeft(+, 0, plan.counts) = Len(remaining)

\* What helios-arb passes on to the hops: what follows its own four accounts,
\* which is also what follows the four that the Port receiver keeps.
HeliosAccounts(ix) == SubSeq(ix.accounts, 5, Len(ix.accounts))

\* The plan is helios-arb's own data, or what the carrier holds for Port.
Plan == IF Current.op = "helios" THEN Current.data ELSE tx.ixs[run.ix + 1].data

\* process_receive_flash_loan: sysvar in its place, the payer signs, and the
\* next instruction is the carrier.
ReceiverAccepts == /\ Current.accounts[4] = Sysvar /\ Current.accounts[1] = Payer
                   /\ At(run.ix) = "carrier"

\* The balance is read before the hops; a Port loan has been paid out.
EnterHelios ==
    /\ Running({"helios", "flash"}) /\ run.hop = 0
    /\ LET r == IF Current.op = "flash" THEN Lent(run) ELSE run
       IN  IF /\ Current.op = "flash" => ReceiverAccepts
              /\ Ata(BorrowMint(route), OwnerOf[BorrowMint(route)]) \in run.atas
           THEN /\ run' = [r EXCEPT !.hop = 1, !.before = r.bal[BorrowMint(route)]]
                /\ status' = status
           ELSE Revert

RunHop(out) ==
    /\ Running({"helios", "flash"}) /\ run.hop \in DOMAIN Plan.hops
    /\ LET remaining == HeliosAccounts(Current)
           d == Plan.hops[run.hop]
       IN  IF /\ PlanHolds(remaining, Plan, run.hop)
              /\ SwapRuns(d, Slice(remaining, Plan.counts, run.hop))
           THEN /\ run' = [Swapped(d, Slice(remaining, Plan.counts, run.hop), out)
                              EXCEPT !.hop = @ + 1]
                /\ status' = status
           ELSE Revert

\* Mutant: no profit check.
WithoutProfitCheck(before, after, min_profit) == TRUE

\* The profit check of execute_flash_arb and execute_route_only.
ProfitHolds(before, after, min_profit) == after >= before + min_profit

\* The repayment of a loan out of the payer's token account.
Repaid(r) == [r EXCEPT !.bal = Debit(r.bal, BorrowMint(route), r.debt), !.debt = 0]

\* The end of helios-arb; for Port the receiver then transfers repay_amount.
LeaveHelios ==
    /\ Running({"helios", "flash"}) /\ run.hop = Len(Plan.hops) + 1
    /\ IF /\ ProfitHolds(run.before, run.bal[BorrowMint(route)], Plan.min_profit)
          /\ Current.op = "flash" => run.bal[BorrowMint(route)] >= run.debt
       THEN Advance(IF Current.op = "flash" THEN Repaid(run) ELSE run)
       ELSE Revert

\* Solend and Kamino look at the borrow instruction the repayment names.
RunRepay ==
    /\ Running({"repay"})
    /\ IF At(Current.ref) = "borrow" /\ run.bal[BorrowMint(route)] >= run.debt
       THEN Advance(Repaid(run)) ELSE Revert

\* MarginFi takes no repayment: it checks the account's health against all
\* its banks, in descending order.
RunEnd ==
    /\ Running({"end"})
    /\ IF \/ run.debt = 0
          \/ /\ run.debt <= Collateral
             /\ Current.accounts = HealthAccounts(BorrowMint(route))
       THEN Advance(run) ELSE Revert

Settle ==
    /\ status \in {"landed", "reverted"}
    /\ status' = "idle"
    /\ route' = NoRoute /\ tx' = NoTx
    /\ run' = NoRun /\ own' = [m \in Mints |-> 0]
    /\ UNCHANGED <<programs, forgot, lenders>>

Next ==
    \/ \E m \in Mints : Expire(m)
    \/ \E r \in Routes, funds \in [Mints -> OwnFunds] : Arrive(r, funds)
    \/ \E answered \in BOOLEAN : FastBuild(answered) \/ SlowBuild(answered)
    \/ \E p \in Providers : JupiterBuild(p)
    \/ Land \/ RunPlain \/ RunAta \/ RunBegin \/ RunBorrow
    \/ \E out \in Outputs : RunSwap(out) \/ RunHop(out)
    \/ EnterHelios \/ LeaveHelios \/ RunRepay \/ RunEnd \/ Settle

Spec == Init /\ [][Next]_vars

-----------------------------------------------------------------------------
(* Properties.                                                             *)

\* The variables keep their types.
TypeOK ==
    /\ programs \in [Mints -> {"none", Spl, T22}]
    /\ forgot \in 0 .. Forgets
    /\ tx.provider \in Providers \cup {"none"}
    /\ own \in [Mints -> Nat]
    /\ status \in {"idle", "routed", "built", "running", "landed", "reverted"}
    /\ status = "running" => run.ix \in DOMAIN tx.ixs /\ run.debt \in Nat

\* The indices the loan instructions carry point at their partners whatever
\* stands before them (compute budget, token accounts) and however many
\* swaps stand between, and every swap is inside the bracket.
BracketsClose ==
    LET Pos(op) == {i \in DOMAIN tx.ixs : tx.ixs[i].op = op}
    IN  \A i \in DOMAIN tx.ixs :
          /\ tx.ixs[i].op = "begin" => At(tx.ixs[i].ref) = "end"
          /\ tx.ixs[i].op = "repay" => At(tx.ixs[i].ref) = "borrow"
          /\ tx.ixs[i].op = "flash" => At(i) = "carrier"
          /\ tx.ixs[i].op \in {"swap", "helios"} =>
                /\ \E b \in Pos("borrow") : b < i
                /\ \E e \in Pos("repay") \cup Pos("end") : i < e

\* Cutting the accounts helios-arb is given, directly or through the Port
\* receiver, by the plan's counts gives back the accounts of each hop, and
\* uses all of them.
PlanIsTheRoute ==
    \A i \in DOMAIN tx.ixs :
        tx.ixs[i].op \in {"helios", "flash"} =>
            LET plan == IF tx.ixs[i].op = "helios" THEN tx.ixs[i].data
                        ELSE tx.ixs[i + 1].data
                rest == HeliosAccounts(tx.ixs[i])
            IN  /\ Len(plan.counts) = Len(route.hops)
                /\ \A h \in DOMAIN route.hops : PlanHolds(rest, plan, h)

\* A transaction that lands through helios-arb costs the payer at most the
\* lender's fee in the token it borrowed, the debt that is left included.
HeliosCostsAtMostTheFee ==
    status = "landed" /\ tx.mode = "helios" =>
        run.bal[BorrowMint(route)] + Fee[tx.provider]
            >= own[BorrowMint(route)] + run.debt

\* Whatever the mode, a lender that takes a repayment has been repaid.
RepaidWhenLanded ==
    status = "landed" /\ tx.provider # "marginfi" => run.debt = 0

\* "The flash loan repay IS the slippage check": a transaction that lands
\* leaves the payer no poorer in the token it borrowed.
RepayIsTheSafetyNet ==
    status = "landed" =>
        run.bal[BorrowMint(route)] >= own[BorrowMint(route)] + run.debt
=============================================================================
