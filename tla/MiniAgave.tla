----------------------------- MODULE MiniAgave -----------------------------
(***************************************************************************)
(* mini-agave: a small RPC node.  Its state (GrpcState) is written by the  *)
(* pollers of the blockhash, of the accounts and of the metadata, and by   *)
(* the geyser feed, each on its own thread, and read by the handlers of    *)
(* the JSON-RPC methods.                                                   *)
(*                                                                         *)
(* A hash is the slot of its block and an account's data the slot of its   *)
(* last change.  Every field is an atomic or has a lock of its own, so a   *)
(* pair of fields is written, and read, in two steps.                      *)
(***************************************************************************)
EXTENDS Integers, Sequences, SequencesExt, FiniteSetsExt

CONSTANTS
    Pools,          \* mapped_pools.json: records [id, dex, vaults, fields]
    Keys,           \* accounts a request may ask for
    MaxFailures,    \* failures after which the feed gives up (10)
    SlotsPerEpoch,
    MaxSlot,        \* bound: the last slot of the chain
    Lag             \* bound: slots an RPC node may be behind

VARIABLES
    tip, changes,   \* external: the chain's slot; account -> slots it changed at
    keys,           \* account_keys, of the pollers and of the subscription
    hash, hashSlot, \* blockhash, blockhash_slot
    current,        \* current_slot
    height,         \* block_height
    connected, mode,
    accounts,       \* account -> [data, slot], for those cached
    epochInfo,      \* the slot of the cached epoch info, or None
    schedule,       \* the epoch of the cached leader schedule
    bhPoll,         \* the blockhash poller: [at, slot]
    feed,           \* the geyser feed; explicit: GRPC_ENDPOINT is set
    reader,         \* a getLatestBlockhash between its two reads
    served          \* the last pair it answered

feedState == <<keys, hash, hashSlot, current, height, connected, mode, accounts,
               epochInfo, schedule>>
vars == <<tip, changes, feedState, bhPoll, feed, reader, served>>

None == -1
Default == "11111111111111111111111111111111"

Newest(S) == Max(S \cup {0})
VersionAt(k, s) == Newest({x \in changes[k] : x <= s})
NodeSlots == {s \in 0..tip : s + Lag >= tip}

-----------------------------------------------------------------------------
(* pool_loader: the accounts to follow.  fields maps an offset of the pool's *)
(* account to the key there; a dex is what its name contains.                *)

\* The keys at the offsets, if the account reaches them all.
At(fields, offsets) ==
    IF ToSet(offsets) \subseteq DOMAIN fields
    THEN {fields[offsets[i]] : i \in DOMAIN offsets} ELSE {}

RaydiumVaults(fields) ==
    LET layouts == <<<<336, 368>>, <<224, 256>>>>
        valid(l) == At(fields, l) # {} /\ Default \notin At(fields, l)
    IN IF valid(layouts[1]) THEN At(fields, layouts[1])
       ELSE IF valid(layouts[2]) THEN At(fields, layouts[2]) ELSE {}

RaydiumOrders(fields) ==
    UNION {IF l[2] \in DOMAIN fields THEN {fields[l[2]], fields[l[1]]} \ {Default} ELSE {}
           : l \in {<<496, 528>>, <<160, 320>>}}

DecodeVaults(dex, fields) ==
    CASE dex = "Raydium" -> RaydiumVaults(fields) \cup RaydiumOrders(fields)
      [] dex = "Orca" -> At(fields, <<133, 213>>)
      [] dex = "Meteora" -> At(fields, <<72, 104>>)
      [] dex = "PumpSwap" -> At(fields, <<139, 171>>)
      [] OTHER -> {}

\* load_pool_vaults: answered are the pools whose batch did not fail.
LoadPoolVaults(answered) ==
    {p.id : p \in Pools}
      \cup UNION {p.vaults \ {Default} : p \in Pools}
      \cup UNION {DecodeVaults(p.dex, p.fields) \ {Default} : p \in answered}

Init ==
    /\ tip = 1
    /\ changes = [k \in Keys |-> {}]
    /\ \E answered \in SUBSET Pools : keys = LoadPoolVaults(answered) \cap Keys
    /\ hash = 0 /\ hashSlot = 0 /\ current = 0 /\ height = 0
    /\ connected = FALSE
    /\ mode = "initializing"
    /\ accounts = [k \in {} |-> None]
    /\ epochInfo = None
    /\ schedule = 0
    /\ bhPoll = [at |-> "asleep", slot |-> 0]
    /\ \E explicit \in BOOLEAN :
          feed = [explicit |-> explicit, at |-> IF explicit THEN "connecting" ELSE "probing",
                  slot |-> 0, next |-> 0, failures |-> 0, streamed |-> FALSE]
    /\ reader = None
    /\ served = [slot |-> 0, hash |-> 0]

\* external: the chain
Produce ==
    /\ tip < MaxSlot
    /\ \E changed \in SUBSET Keys :
          changes' = [k \in Keys |-> IF k \in changed THEN changes[k] \cup {tip + 1}
                                     ELSE changes[k]]
    /\ tip' = tip + 1
    /\ UNCHANGED <<feedState, bhPoll, feed, reader, served>>

Raised(s) == IF s > current THEN s ELSE current

-----------------------------------------------------------------------------
(* The pollers                                                               *)

\* spawn_blockhash_poller: an answer newer than the slot loaded ...
\* Mutant: whatever the slot of the answer.
HashPolledUnchecked ==
    \E s \in NodeSlots :
        /\ bhPoll.at = "asleep"
        /\ bhPoll' = [at |-> "writing", slot |-> s]
        /\ UNCHANGED <<tip, changes, feedState, feed, reader, served>>

HashPolled ==
    \E s \in NodeSlots :
        /\ bhPoll.at = "asleep"
        /\ s > hashSlot
        /\ bhPoll' = [at |-> "writing", slot |-> s]
        /\ UNCHANGED <<tip, changes, feedState, feed, reader, served>>

\* ... has its hash written, then its slot, whatever is there by now.
HashWritten ==
    /\ bhPoll.at = "writing"
    /\ hash' = bhPoll.slot
    /\ bhPoll' = [bhPoll EXCEPT !.at = "stamping"]
    /\ UNCHANGED <<tip, changes, keys, hashSlot, current, height, connected, mode, accounts,
                   epochInfo, schedule, feed, reader, served>>

HashStamped ==
    /\ bhPoll.at = "stamping"
    /\ hashSlot' = bhPoll.slot
    /\ connected' = TRUE
    /\ current' = Raised(bhPoll.slot)
    /\ bhPoll' = [bhPoll EXCEPT !.at = "asleep"]
    /\ UNCHANGED <<tip, changes, keys, hash, height, mode, accounts, epochInfo, schedule, feed,
                   reader, served>>

\* spawn_account_poller: an account of an answer replaces the cached one,
\* for the slot of the latest blockhash.
Inserted(k, acc) == [x \in DOMAIN accounts \cup {k} |-> IF x = k THEN acc ELSE accounts[x]]

AccountPolled ==
    \E k \in keys, s \in NodeSlots :
        /\ accounts' = Inserted(k, [data |-> VersionAt(k, s), slot |-> hashSlot])
        /\ UNCHANGED <<tip, changes, keys, hash, hashSlot, current, height, connected, mode,
                       epochInfo, schedule, bhPoll, feed, reader, served>>

\* spawn_metadata_poller: the epoch info, and with a new epoch its schedule,
\* when the node has it.
Epoch(s) == s \div SlotsPerEpoch

MetadataPolled ==
    \E s \in NodeSlots, got \in BOOLEAN :
        /\ height' = s
        /\ epochInfo' = s
        /\ current' = Raised(s)
        /\ schedule' = IF Epoch(s) # schedule /\ got THEN Epoch(s) ELSE schedule
        /\ UNCHANGED <<tip, changes, keys, hash, hashSlot, connected, mode, accounts, bhPoll, feed,
                       reader, served>>

-----------------------------------------------------------------------------
(* The geyser feed: run_grpc_loop, and for the local node                   *)
(* spawn_richat_auto_detect around it.                                      *)

Probe ==
    \E up \in BOOLEAN :
        /\ feed.at = "probing"
        /\ feed' = IF up THEN [feed EXCEPT !.at = "connecting", !.failures = 0] ELSE feed
        /\ connected' = (connected \/ ~up)
        /\ mode' = IF ~up /\ ~connected THEN "polling (Richat unavailable)" ELSE mode
        /\ UNCHANGED <<tip, changes, keys, hash, hashSlot, current, height, accounts, epochInfo,
                       schedule, bhPoll, reader, served>>

Subscribe ==
    /\ feed.at = "connecting"
    /\ feed' = [feed EXCEPT !.at = "streaming", !.slot = tip]
    /\ connected' = TRUE
    /\ mode' = IF feed.explicit THEN "grpc (push)" ELSE "richat (local geyser)"
    /\ UNCHANGED <<tip, changes, keys, hash, hashSlot, current, height, accounts, epochInfo,
                   schedule, bhPoll, reader, served>>

\* run_grpc_once always ends in an error, and the failures are never reset;
\* a refusal, or one failure too many, ends run_grpc_loop.
FeedFails ==
    \E denied \in BOOLEAN :
        /\ feed.at \in {"connecting", "streaming"}
        /\ LET failures == feed.failures + 1
               over == denied \/ failures >= MaxFailures
           IN /\ feed' = [feed EXCEPT !.failures = failures,
                                      !.at = IF ~over THEN "connecting"
                                             ELSE IF feed.explicit THEN "ended" ELSE "probing"]
              /\ mode' = IF denied THEN "polling (gRPC unavailable)"
                         ELSE IF over THEN "polling (gRPC failed)" ELSE mode
        /\ UNCHANGED <<tip, changes, keys, hash, hashSlot, current, height, connected, accounts,
                       epochInfo, schedule, bhPoll, reader, served>>

\* A slot's messages: the slot, accounts that changed in it, its block.
SlotSeen ==
    \E s \in (feed.slot + 1)..tip :
        /\ feed.at = "streaming"
        /\ current' = Raised(s)
        /\ UNCHANGED <<tip, changes, keys, hash, hashSlot, height, connected, mode, accounts,
                       epochInfo, schedule, bhPoll, feed, reader, served>>

AccountStreamed ==
    \E k \in keys, s \in (feed.slot + 1)..tip :
        /\ feed.at = "streaming"
        /\ s \in changes[k]
        /\ accounts' = Inserted(k, [data |-> s, slot |-> s])
        /\ UNCHANGED <<tip, changes, keys, hash, hashSlot, current, height, connected, mode,
                       epochInfo, schedule, bhPoll, feed, reader, served>>

\* BlockMeta: the hash, then the rest, whatever the slot there.
BlockSeen ==
    \E s \in (feed.slot + 1)..tip :
        /\ feed.at = "streaming"
        /\ hash' = s
        /\ feed' = [feed EXCEPT !.at = "stamping", !.next = s, !.streamed = TRUE]
        /\ UNCHANGED <<tip, changes, keys, hashSlot, current, height, connected, mode, accounts,
                       epochInfo, schedule, bhPoll, reader, served>>

BlockStamped ==
    /\ feed.at = "stamping"
    /\ hashSlot' = feed.next
    /\ height' = feed.next
    /\ current' = Raised(feed.next)
    /\ feed' = [feed EXCEPT !.at = "streaming", !.slot = feed.next]
    /\ UNCHANGED <<tip, changes, keys, hash, connected, mode, accounts, epochInfo, schedule,
                   bhPoll, reader, served>>

-----------------------------------------------------------------------------
(* The handlers.  An answer is an error, a proxied one, or what it holds.   *)

Refused == [kind |-> "error"]
Proxied == [kind |-> "proxied"]
Answer(v) == [kind |-> "answer", value |-> v]

\* handle_blockhash reads the slot, then the hash.
ReadSlot ==
    /\ reader = None
    /\ hashSlot # 0
    /\ reader' = hashSlot
    /\ UNCHANGED <<tip, changes, feedState, bhPoll, feed, served>>

ReadHash ==
    /\ reader # None
    /\ served' = [slot |-> reader, hash |-> hash]
    /\ reader' = None
    /\ UNCHANGED <<tip, changes, feedState, bhPoll, feed>>

\* handle_get_multiple_accounts: what is not cached is null.
MultipleAccounts(asked) ==
    IF ~connected \/ DOMAIN accounts = {} THEN Proxied
    ELSE Answer([k \in asked |-> IF k \in DOMAIN accounts THEN accounts[k].data ELSE None])

\* handle_get_account_info
AccountInfo(k) == IF k \in DOMAIN accounts THEN Answer(accounts[k]) ELSE Proxied

\* handle_send_transaction: through the TPU client, or else the upstream.
SendTransaction(decoded, tpu) ==
    IF ~decoded THEN Refused ELSE IF tpu THEN Answer("signature") ELSE Proxied

Health == IF connected /\ hashSlot > 0 THEN Answer("ok") ELSE Refused

\* get_slot, handle_get_slot, handle_get_block_height
Slot == IF current > 0 THEN current ELSE hashSlot
SlotAnswer == IF Slot = 0 THEN Refused ELSE Answer(Slot)
HeightAnswer == IF height = 0 THEN Refused ELSE Answer(height)

\* handle_get_epoch_info: the epoch is the cached one, the index the live slot's.
EpochAnswer ==
    IF epochInfo = None THEN Refused
    ELSE LET s == Newest({Slot, epochInfo})
         IN Answer([epoch |-> Epoch(epochInfo), index |-> s % SlotsPerEpoch, slot |-> s])

\* handle_get_leader_schedule (getClusterNodes is the same)
ScheduleAnswer == IF schedule = 0 THEN Refused ELSE Answer(schedule)

Next ==
    \/ Produce
    \/ HashPolled \/ HashWritten \/ HashStamped \/ AccountPolled \/ MetadataPolled
    \/ Probe \/ Subscribe \/ FeedFails
    \/ SlotSeen \/ AccountStreamed \/ BlockSeen \/ BlockStamped
    \/ ReadSlot \/ ReadHash

Spec == Init /\ [][Next]_vars

-----------------------------------------------------------------------------
TypeOK ==
    /\ current \in 0..tip /\ hashSlot \in 0..tip /\ hash \in 0..tip
    /\ \A k \in DOMAIN accounts : accounts[k].slot \in 0..tip /\ accounts[k].data \in 0..tip
    /\ feed.failures \in 0..MaxFailures

\* Of a connected node, the two methods that serve accounts agree on one that
\* is cached, and an epoch info is never of a slot before the one it was
\* fetched at (the handlers).
AnswersAgree ==
    /\ \A k \in Keys : connected /\ AccountInfo(k).kind = "answer" =>
           MultipleAccounts({k}) = Answer([x \in {k} |-> AccountInfo(k).value.data])
    /\ EpochAnswer.kind = "answer" => EpochAnswer.value.slot >= epochInfo
    /\ Health.kind = "answer" => HeightAnswer.kind = "error" \/ SlotAnswer.kind = "answer"

\* As long as no stream wrote a block, a client is never given a blockhash
\* older than the slot it is served with: the poller writes the hash before
\* its slot and handle_blockhash reads the slot before the hash.  (With a
\* stream beside the poller this fails: each may write between the other's
\* two writes.)
PolledPairsInOrder == feed.streamed \/ served.hash >= served.slot
=============================================================================
