----------------------------- MODULE AgaveLite -----------------------------
(***************************************************************************)
(* agave-lite-core, as helios embeds it: a shared cache of accounts with   *)
(* two writers, a poller of an RPC node and a subscriber of a geyser       *)
(* stream, each on a thread of its own.  The poller of the blockhash is    *)
(* MiniAgave's.                                                            *)
(*                                                                         *)
(* An account's data is the slot of its last change, so a copy is stale    *)
(* when it is lower than version.  A cached copy also carries the slot its *)
(* writer stored it for.                                                   *)
(***************************************************************************)
EXTENDS Integers, Sequences, SequencesExt, FiniteSetsExt

CONSTANTS
    KeySeq,         \* vault_pubkeys, in the order they are polled
    Preloaded,      \* the accounts of the pool data file
    BatchSize,      \* accounts of one request
    MaxBackoff,     \* longest wait before a reconnection (30 s)
    MaxSlot,        \* bound: the last slot of the chain
    MaxQueue        \* bound: updates on the stream

VARIABLES
    tip, version,   \* external: the chain's slot, and the slot of each account's last change
    node,           \* external: the versions the RPC node serves, and its slot
    stream,         \* external: the updates of a connected stream not yet received
    cache,          \* AccountCache.accounts: account -> [slot, data]
    slot,           \* AccountCache.slot
    poll,           \* the poller: where it is, the batch, the answer and its stamp
    sub             \* the subscriber: [connected, backoff, seen]

vars == <<tip, version, node, stream, cache, slot, poll, sub>>

Keys == ToSet(KeySeq)
Absent == [slot |-> -1, data |-> -1]
Missing == -1
Idle == [at |-> "asleep", batch |-> 0, answer |-> <<>>, stamp |-> 0]

\* upsert: latest slot wins.
\* Mutant: whoever writes last wins.
LastWriterWins(c, k, acc) == [c EXCEPT ![k] = acc]

Upserted(c, k, acc) == IF acc.slot >= c[k].slot THEN [c EXCEPT ![k] = acc] ELSE c

\* load_pool_accounts: every account of the file, for slot 0.
LoadedFrom(file) ==
    [k \in Keys |-> IF k \in file THEN [slot |-> 0, data |-> 0] ELSE Absent]

\* keys.chunks(batch_size)
Batches == (Len(KeySeq) + BatchSize - 1) \div BatchSize
Batch(i) == SubSeq(KeySeq, i * BatchSize + 1, Min({(i + 1) * BatchSize, Len(KeySeq)}))

Init ==
    /\ tip = 0
    /\ version \in [Keys -> {Missing, 0}]
    /\ \A k \in Preloaded : version[k] = 0
    /\ node = [view |-> version, slot |-> 0]
    /\ stream = <<>>
    /\ cache = LoadedFrom(Preloaded)
    /\ slot = 0
    /\ poll = Idle
    /\ sub = [connected |-> FALSE, backoff |-> 1, seen |-> 0]

-----------------------------------------------------------------------------
(* The chain and the node, which the code only observes.                    *)

Update(k, s) == [key |-> k, slot |-> s, data |-> s]
SlotUpdate(s) == [key |-> "slot", slot |-> s, data |-> s]

\* A slot changes some accounts; a connected stream carries them in order.
Produce ==
    \E changed \in SUBSET Keys :
        LET updates == SetToSeq({Update(k, tip + 1) : k \in changed})
        IN /\ tip < MaxSlot
           /\ Len(stream) + Len(updates) < MaxQueue
           /\ tip' = tip + 1
           /\ version' = [k \in Keys |-> IF k \in changed THEN tip + 1 ELSE version[k]]
           /\ stream' = IF sub.connected THEN stream \o updates \o <<SlotUpdate(tip + 1)>>
                        ELSE stream
           /\ UNCHANGED <<node, cache, slot, poll, sub>>

NodeCatchesUp ==
    /\ node.slot # tip
    /\ node' = [view |-> version, slot |-> tip]
    /\ UNCHANGED <<tip, version, stream, cache, slot, poll, sub>>

-----------------------------------------------------------------------------
(* account_poller                                                           *)

\* The answer to a batch; the thread reads the cache's slot after it came.
PollAnswered ==
    /\ poll.at = "asleep"
    /\ poll' = [poll EXCEPT !.at = "answered",
                   !.answer = [i \in 1..Len(Batch(poll.batch)) |->
                                  Update(Batch(poll.batch)[i],
                                         node.view[Batch(poll.batch)[i]])]]
    /\ UNCHANGED <<tip, version, node, stream, cache, slot, sub>>

\* A failed request loses its batch until the next round.
PollFailed ==
    /\ poll.at = "asleep"
    /\ poll' = [poll EXCEPT !.batch = (@ + 1) % Batches]
    /\ UNCHANGED <<tip, version, node, stream, cache, slot, sub>>

PollStamps ==
    /\ poll.at = "answered"
    /\ poll' = [poll EXCEPT !.at = "storing", !.stamp = slot]
    /\ UNCHANGED <<tip, version, node, stream, cache, slot, sub>>

\* upsert and the fetch_max of the stamp, which is a slot already reached.
PollStores ==
    /\ poll.at = "storing"
    /\ poll.answer # <<>>
    /\ LET a == Head(poll.answer)
       IN cache' = IF a.data = Missing THEN cache
                   ELSE Upserted(cache, a.key, [slot |-> poll.stamp, data |-> a.data])
    /\ poll' = [poll EXCEPT !.answer = Tail(@)]
    /\ UNCHANGED <<tip, version, node, stream, slot, sub>>

PollSleeps ==
    /\ poll.at = "storing"
    /\ poll.answer = <<>>
    /\ poll' = [Idle EXCEPT !.batch = (poll.batch + 1) % Batches]
    /\ UNCHANGED <<tip, version, node, stream, cache, slot, sub>>

Poller == PollAnswered \/ PollStamps \/ PollStores \/ PollSleeps

-----------------------------------------------------------------------------
(* grpc_loop and run_subscription                                           *)

\* The stream of a subscription starts with the accounts as they are, or with nothing.
Connect ==
    /\ ~sub.connected
    /\ \E startup \in {{}, {k \in Keys : version[k] # Missing}} :
          /\ Cardinality(startup) < MaxQueue
          /\ stream' = SetToSeq({Update(k, version[k]) : k \in startup})
    /\ sub' = [sub EXCEPT !.connected = TRUE]
    /\ UNCHANGED <<tip, version, node, cache, slot, poll>>

\* An error or a failed ping keeps the doubled wait; a clean end starts at 1 s again.
Disconnect ==
    /\ sub.connected
    /\ sub.seen = 0
    /\ \E before \in {sub.backoff, 1} :
          sub' = [sub EXCEPT !.connected = FALSE, !.backoff = Min({2 * before, MaxBackoff})]
    /\ stream' = <<>>
    /\ UNCHANGED <<tip, version, node, cache, slot, poll>>

ConnectFails ==
    /\ ~sub.connected
    /\ sub' = [sub EXCEPT !.backoff = Min({2 * @, MaxBackoff})]
    /\ UNCHANGED <<tip, version, node, stream, cache, slot, poll>>

\* The upsert of an account, whose fetch_max is a step of its own, or a slot.
Receive ==
    /\ sub.connected
    /\ sub.seen = 0
    /\ stream # <<>>
    /\ LET u == Head(stream)
       IN /\ stream' = Tail(stream)
          /\ cache' = IF u.key = "slot" THEN cache
                      ELSE Upserted(cache, u.key, [slot |-> u.slot, data |-> u.data])
          /\ slot' = IF u.key = "slot" THEN Max({slot, u.slot}) ELSE slot
          /\ sub' = [sub EXCEPT !.seen = IF u.key = "slot" THEN 0 ELSE u.slot]
    /\ UNCHANGED <<tip, version, node, poll>>

RaiseSlot ==
    /\ sub.seen # 0
    /\ slot' = Max({slot, sub.seen})
    /\ sub' = [sub EXCEPT !.seen = 0]
    /\ UNCHANGED <<tip, version, node, stream, cache, poll>>

Next ==
    \/ Produce \/ NodeCatchesUp
    \/ PollAnswered \/ PollFailed \/ PollStamps \/ PollStores \/ PollSleeps
    \/ Connect \/ Disconnect \/ ConnectFails \/ Receive \/ RaiseSlot

\* The RPC node comes to answer with what the chain has, the poller's thread
\* runs for ever and no batch fails every time.  Nothing makes a stream connect.
Fairness ==
    /\ WF_vars(NodeCatchesUp)
    /\ WF_vars(Poller)
    /\ WF_vars(RaiseSlot)
    /\ \A i \in 0..(Batches - 1) : SF_vars(poll.batch = i /\ PollAnswered)

Spec == Init /\ [][Next]_vars /\ Fairness

-----------------------------------------------------------------------------
TypeOK ==
    /\ cache \in [Keys -> [slot : -1..MaxSlot, data : -1..MaxSlot]]
    /\ slot \in 0..tip
    /\ poll.batch \in 0..(Batches - 1)

\* "Latest slot wins" (upsert): with both writers at work the cache
\* implements LatestSlot, so no writer takes an account's stamp back.
Latest == INSTANCE LatestSlot WITH Keys <- Keys, held <- [k \in Keys |-> cache[k].slot]
ImplementsLatest == Latest!Spec

\* The chain changes no more; the cache holds the accounts as they are.
AtRest == tip = MaxSlot
UpToDate == \A k \in Keys : cache[k].data = version[k]

\* Whatever the stream loses, and however often the poller stamps old data
\* with a slot it is not of, the cache comes to hold the accounts as they are,
\* for good, once the chain changes them no more (account_poller, upsert).
CatchesUp == <>AtRest => <>[]UpToDate
=============================================================================
