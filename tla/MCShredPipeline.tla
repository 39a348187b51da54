-------------------------- MODULE MCShredPipeline --------------------------
(***************************************************************************)
(* The pipeline from shreds to signals: the assembler, the signal          *)
(* processor with its threads, and the wallet tracker it feeds.  The       *)
(* processor takes the transactions of any block, and the tracker writes   *)
(* nothing the processor reads, so a behaviour runs one of them (part).    *)
(***************************************************************************)
EXTENDS FecAssembler, FiniteSetsExt, TLC

\* The constants of Signals and of WalletTracker.
CONSTANTS
    Pools, Mints, MintOf, Txs, Listed, Bootstrapped, MaxThreads, MaxTxs, Wsol, Loaded,
    Wallets, Tokens, SwapSlots, HistorySize, MinForPatterns, MinForCategory, BotSwaps,
    FlipSlots, MinBuys, MinRotation, MaxWallets, Minute, FiveMinutes, Hour, MaxTime, MaxSwaps

VARIABLES
    part, cache, watching, cooling, threads, pending, dropping, engine, taken, pc, tx, at,
    sent, stale, reported, wallets, emitted, now

processorVars == <<cache, watching, cooling, threads, pending, dropping, engine, taken, pc, tx, at,
                   sent, stale, reported>>
trackerVars == <<wallets, emitted, now>>

Processor == INSTANCE Signals

Tracker == INSTANCE WalletTracker WITH Slots <- SwapSlots

-----------------------------------------------------------------------------
(* What arrives.                                                            *)

Dexes == {"raydium", "orca", "meteora", "cpmm", "pumpswap"}

\* A pool has one token besides wrapped SOL, and is either what a token
\* graduated to or was created by an instruction of its venue: an address is
\* created once.
TxsName ==
    /\ MintOf \in [Pools -> Mints]
    /\ \A made \in {Listed, Bootstrapped} :
         DOMAIN made \subseteq Pools /\ \A p \in DOMAIN made : made[p] \in Dexes
    /\ \A t \in Txs :
         LET g == Processor!Graduation(t)
             creations == Processor!Creations(t)
         IN IF Processor!Graduates(t) THEN g.pool \in Pools /\ g.mint = MintOf[g.pool]
            ELSE /\ Len(creations) \in Nat
                 /\ \A i \in 1..Len(creations) :
                      LET c == creations[i]
                      IN /\ c.pool \in Pools /\ c.dex \in Dexes
                         /\ {c.a, c.b} \cap Mints \subseteq {MintOf[c.pool]}
                         /\ \A u \in Txs : Processor!Graduates(u) =>
                              Processor!Graduation(u).pool # c.pool

ASSUME SignalAssumption == TxsName

-----------------------------------------------------------------------------
MCInit ==
    /\ Init /\ Processor!Init /\ Tracker!TrackerInit
    /\ part \in {"assembler", "processor", "wallets"}
    /\ part # "processor" => \A p \in Pools : cache[p] = Processor!Missing

MCNext ==
    /\ UNCHANGED part
    /\ \/ part = "assembler" /\ Next /\ UNCHANGED <<processorVars, trackerVars>>
       \/ part = "processor" /\ Processor!Next /\ UNCHANGED <<vars, trackerVars>>
       \/ part = "wallets" /\ Tracker!TrackerNext /\ UNCHANGED <<vars, processorVars>>

\* As in Signals: the route engine's loop is all that is fair.
MCSpec ==
    /\ MCInit
    /\ [][MCNext]_<<part, vars, processorVars, trackerVars>>
    /\ WF_processorVars(part = "processor" /\ Processor!Engine)

-----------------------------------------------------------------------------
(* find_complete_data_block and the loop of emit_ready_blocks, line by line, *)
(* against the set Ready.                                                    *)

\* The scan at one index: past a boundary that does not close a block in the
\* buffer the next block starts.
PastIndex(s, e, D, E) ==
  IF s.found # {} \/ e \notin E THEN s
  ELSE IF s.start >= Min(D) /\ Cardinality(D \cap (s.start .. e)) = e - s.start + 1
  THEN [s EXCEPT !.found = {<<s.start, e>>}]
  ELSE [s EXCEPT !.start = e + 1]

\* The scan over the boundaries in ascending order: start_index, and the
\* block found ({} as long as there is none).
Scan(D, E) ==
  LET after[i \in 0 .. NumData] ==
        IF i = 0 THEN [start |-> 0, found |-> {}] ELSE PastIndex(after[i - 1], i - 1, D, E)
  IN after[NumData]

FindCompleteDataBlock(D, E) == IF D = {} THEN {} ELSE Scan(D, E).found

\* One turn of the loop; nothing changes once no block is found.
TakeBlock(s, E) ==
  LET b == FindCompleteDataBlock(s.left, E)
  IN [left |-> s.left \ UNION {r[1] .. r[2] : r \in b}, blocks |-> s.blocks \cup b]

EmitLoop(D, E) ==
  LET after[i \in 0 .. NumData] ==
        IF i = 0 THEN [left |-> D, blocks |-> {}] ELSE TakeBlock(after[i - 1], E)
  IN after[NumData]

LoopTakesReady ==
  \A E \in SUBSET Index : \A D \in SUBSET Index :
    /\ EmitLoop(D, E).blocks = Ready(D, E)
    /\ FindCompleteDataBlock(EmitLoop(D, E).left, E) = {}

\* For every buffer and every set of observed boundaries, the loop of
\* emit_ready_blocks takes exactly the blocks of Ready and ends: removing a
\* block never hides or makes another one, and the scan never stops short of
\* one.  (It is a statement about operators, to be evaluated once: before the
\* first shred.)
ReadyIsTheLoop == part = "assembler" /\ seen = <<>> => LoopTakesReady

\* The processor's signals: types, a transaction's signal goes out once, every
\* write is followed by one unless a whale swap went before it, and an
\* opportunity names two pools of one token (handle_new_tx,
\* on_new_pool_detected).
SignalsAreComplete ==
    /\ Processor!TypeOK
    /\ Processor!ForwardedOnce
    /\ Processor!ChangesAreAnnounced
    /\ Processor!SecondPoolIsAnother

\* "Forward all DEX transactions to route engine" (signal_processor.rs).
AllSwapsForwarded == Processor!AllSwapsForwarded

\* New pools are followed up.  Fetched reserves give way to an estimate only
\* when the pool graduates again, or when a search that found it missing
\* inserts it late (upsert in handle_new_tx and discover_pools_from_dexscreener);
\* and a watched token with a second pool leaves the watch list as long as the
\* route engine scans again and again, whatever the processor does meanwhile
\* (check_watched_tokens).
NewPoolsFollowed == Processor!EstimatesYield /\ Processor!SecondPoolFound

\* A win rate counts each sell once against a buy, so it is at most one half
\* and no wallet is ever found to be smart money (win_rate, classify).
SmartMoneyIsNeverFound == Tracker!SmartMoneyIsNeverFound

-----------------------------------------------------------------------------
(* Values of the constants.                                                 *)

\* The second FEC set of slot 1 has a header with another geometry, and
\* the header of slot 2 has a position beyond its index.
MCHeaders == [s \in CodeShreds |->
                CASE s.slot = 1 /\ s.fec = 2 -> "alien"
                  [] s.slot = 2 -> "invalid"
                  [] OTHER -> "ok"]

\* Two sources deliver the first FEC set of slot 1; of slot 2 only the first
\* batch and one coding shred are on the wire.
MCCopies == [s \in Shreds |->
               CASE s.slot = 1 /\ s.fec = 0 -> 2
                 [] s.slot = 1 /\ s.fec # 0 -> 1
                 [] s.slot = 2 /\ s.fec = 0 /\ s.n = 0 -> 1
                 [] OTHER -> 0]

\* What the signal processor is given: one token graduates to "pump" or
\* "launch", of two launchpads; "manual" is made by hand, known to the listing
\* service; "pump" and "launch" may be loaded at the start.
MCMintOf == [p \in {"pump", "manual", "launch"} |-> "coin"]
MCListed == "manual" :> "raydium"
MCBootstrapped == ("launch" :> "raydium") @@ ("pump" :> "pumpswap")

Instr(prog, op, size, amount, accs) ==
    [prog |-> prog, op |-> op, size |-> size, turn |-> 0, amount |-> amount, accs |-> accs]

MCTxs == {
    <<Instr("pumpswap", "create_pool", 24, "none", <<"pump", "config", "creator", "coin", Wsol>>),
      Instr("pumpswap", "buy", 24, "whale", <<"pump">>)>>,
    <<Instr("launchlab", "migrate_to_amm", 8, "none", <<"authority", "launch", "coin">>)>>,
    <<Instr("raydium", "initialize2", 26, "none",
         <<"token", "rent", "system", "authority", "manual", "orders", "lp", "x", "coin", Wsol>>)>>,
    <<Instr("raydium", "swap_base_in", 17, "small", <<"token", "launch">>),
      Instr("pumpswap", "sell", 24, "huge", <<"pump">>)>>,
    <<Instr("raydium", "swap_base_in", 17, "whale", <<"token", "launch">>),
      Instr("pumpswap", "sell", 24, "small", <<"pump">>)>>,
    <<Instr("raydium", "swap_base_in", 17, "whale", <<"token", Loaded>>),
      Instr("raydium", "remove_liquidity", 9, "whale", <<"token", "manual">>)>>,
    <<Instr("jupiter", "route", 40, "whale", <<"payer">>)>>,
    <<Instr("system", "transfer", 12, "none", <<"payer", "other">>)>>
}
=============================================================================
