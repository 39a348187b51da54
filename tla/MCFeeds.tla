------------------------------ MODULE MCFeeds ------------------------------
(***************************************************************************)
(* The services that follow the chain for the bot: the account cache of    *)
(* agave-lite-core, the mini-agave node, the simulation server and the     *)
(* pool hydrator.  They share nothing but the chain, so a behaviour is one *)
(* of one of them (part), with the others at rest.                         *)
(***************************************************************************)
EXTENDS PoolHydrator, Sequences, TLC

CONSTANTS
    Venues,                                         \* names of venues, for the hydrator
    KeySeq, Preloaded, PollBatch, MaxBackoff,       \* AgaveLite
    LiteSlots, LiteQueue,
    PoolFile, Asked, MaxFailures, SlotsPerEpoch,     \* MiniAgave
    MiniSlots, Lag,
    GeyserAccounts, SimSlots,                       \* SimServer
    p1, k1, k2, va, pool                            \* model values

VARIABLES
    part,
    alTip, alVersion, node, alStream, cache, slot, poll, sub,
    maTip, maChanges, keys, hash, hashSlot, current, height, maConnected, mode, maAccounts,
    epochInfo, schedule, bhPoll, feed, reader, served,
    ssTip, ssVersion, cell, polled, geyser, connected, link, sent, accounts

alVars == <<alTip, alVersion, node, alStream, cache, slot, poll, sub>>
maVars == <<maTip, maChanges, keys, hash, hashSlot, current, height, maConnected, mode,
            maAccounts, epochInfo, schedule, bhPoll, feed, reader, served>>
ssVars == <<ssTip, ssVersion, cell, polled, geyser, connected, link, sent, accounts>>
allVars == <<part, vars, alVars, maVars, ssVars>>

Lite == INSTANCE AgaveLite WITH
    tip <- alTip, version <- alVersion, stream <- alStream,
    BatchSize <- PollBatch, MaxSlot <- LiteSlots, MaxQueue <- LiteQueue

Mini == INSTANCE MiniAgave WITH
    tip <- maTip, changes <- maChanges, connected <- maConnected, accounts <- maAccounts,
    Pools <- PoolFile, Keys <- Asked, MaxSlot <- MiniSlots

Sim == INSTANCE SimServer WITH
    tip <- ssTip, version <- ssVersion, Keys <- GeyserAccounts, MaxSlot <- SimSlots

\* What a deployment gives: accounts in batches of at least one, at least one
\* failure before the feed gives up, and bounds that are numbers.
Deployment ==
    /\ IsFiniteSet(Pools) /\ BatchSize \in Nat \ {0} /\ MaxChanges \in Nat
    /\ KeySeq \in Seq(Lite!Keys) /\ KeySeq # <<>> /\ PollBatch \in Nat \ {0}
    /\ MaxBackoff \in Nat /\ LiteSlots \in Nat /\ LiteQueue \in Nat
    /\ MaxFailures \in Nat \ {0} /\ SlotsPerEpoch \in Nat \ {0}
    /\ MiniSlots \in Nat \ {0} /\ Lag \in Nat
    /\ SimSlots \in Nat \ {0}
ASSUME DeploymentAssumption == Deployment

\* Of the parts at rest any initial state will do.
MCInit ==
    /\ part \in {"hydrator", "agave-lite", "mini-agave", "sim-server"}
    /\ HydratorInit(Venues)
    /\ part # "hydrator" => noAgave /\ \A p \in Pools : dex[p] = "PumpSwap"
    /\ Lite!Init
    /\ part # "agave-lite" => \A k \in Lite!Keys : alVersion[k] = 0
    /\ Mini!Init
    /\ part # "mini-agave" => feed.explicit /\ keys = Asked
    /\ Sim!Init
    /\ part # "sim-server" => geyser /\ cell = 1

MCNext ==
    /\ UNCHANGED part
    /\ \/ part = "hydrator" /\ Next /\ UNCHANGED <<alVars, maVars, ssVars>>
       \/ part = "agave-lite" /\ Lite!Next /\ UNCHANGED <<vars, maVars, ssVars>>
       \/ part = "mini-agave" /\ Mini!Next /\ UNCHANGED <<vars, alVars, ssVars>>
       \/ part = "sim-server" /\ Sim!Next /\ UNCHANGED <<vars, alVars, maVars>>

\* The fairness of each part, as long as it is the one that runs.
MCFairness ==
    /\ WF_vars(part = "hydrator" /\ Round)
    /\ SF_vars(part = "hydrator" /\ StartRound(TRUE))
    /\ WF_alVars(part = "agave-lite" /\ Lite!NodeCatchesUp)
    /\ WF_alVars(part = "agave-lite" /\ Lite!Poller)
    /\ WF_alVars(part = "agave-lite" /\ Lite!RaiseSlot)
    /\ \A i \in 0..(Lite!Batches - 1) :
          SF_alVars(part = "agave-lite" /\ poll.batch = i /\ Lite!PollAnswered)
    /\ WF_ssVars(part = "sim-server" /\ Sim!HashFetched)
    /\ WF_ssVars(part = "sim-server" /\ Sim!HashWritten)
    /\ WF_ssVars(part = "sim-server" /\ Sim!Received)

MCSpec == MCInit /\ [][MCNext]_allVars /\ MCFairness

-----------------------------------------------------------------------------
\* What a client may rely on in the answers of the two RPC nodes: pairs in
\* order, methods that agree, lists from one source (handle_blockhash,
\* handle_get_multiple_accounts, get_multiple_accounts_handler); and the types
\* of the four services.
AnswersAreSound ==
    /\ TypeOK /\ Lite!TypeOK /\ Mini!TypeOK /\ Sim!TypeOK
    /\ Mini!PolledPairsInOrder
    /\ Mini!AnswersAgree
    /\ Sim!ListsFromOneSource

\* The account cache implements the abstract one, in which the latest slot
\* wins, whichever writer comes last (upsert).
AccountCacheImplementsLatest == Lite!ImplementsLatest

\* The chain rests; the part holds what there is on it.
ChainRests ==
    CASE part = "hydrator" -> AtRest
      [] part = "agave-lite" -> Lite!AtRest
      [] part = "sim-server" -> Sim!AtRest
      [] OTHER -> FALSE
PartUpToDate ==
    CASE part = "hydrator" -> UpToDate
      [] part = "agave-lite" -> Lite!UpToDate
      [] part = "sim-server" -> Sim!UpToDate
      [] OTHER -> TRUE

\* Once the chain rests, so does what the services hold of it: accounts,
\* blockhash and reserves come to be the chain's for good (account_poller,
\* BlockhashCache, spawn_refresh_loop).
FeedsCatchUp == <>ChainRests => <>[]PartUpToDate
-----------------------------------------------------------------------------
(* The instance                                                            *)

\* One pool, of each kind of venue in turn.
MCVaults == [p \in {p1} |-> [a |-> <<p, "vault_a">>, b |-> <<p, "vault_b">>]]
MCVenues == {{"raydium"}, {"orca"}, {"pump"}}

\* Two accounts, polled one by one.
MCKeySeq == <<k1, k2>>

\* A Raydium pool with the vault the file has, and one its account names.
MCMapped == {[id |-> pool, dex |-> "Raydium", vaults |-> {va},
              fields |-> (336 :> va @@ 368 :> va)]}
=============================================================================
