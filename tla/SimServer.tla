----------------------------- MODULE SimServer -----------------------------
(***************************************************************************)
(* sim-server, the RPC hub in front of the upstream node: a cell with the  *)
(* latest blockhash, written by the thread that polls for it and by the    *)
(* geyser cache when one is configured; the accounts of that cache; and    *)
(* the methods served from them, from a BanksServer, from the TPU client   *)
(* or by the upstream.                                                     *)
(*                                                                         *)
(* A blockhash is the slot of its block, an account's data the slot of its *)
(* last change.                                                            *)
(***************************************************************************)
EXTENDS Integers, FiniteSets

CONSTANTS
    Keys,       \* GEYSER_ACCOUNTS
    MaxSlot     \* bound: the last slot of the chain

VARIABLES
    tip, version,   \* external: the chain's slot; account -> slot of its last change
    cell,           \* the shared blockhash
    polled,         \* the poller's answer on its way to the cell, or None
    geyser,         \* whether GEYSER_ENDPOINT is set
    connected,      \* GeyserCache.connected
    link,           \* its loop: "connecting", "streaming" or "backoff"
    sent,           \* external: what the stream carries and was not received
    accounts        \* GeyserCache.accounts: account -> data, for those cached

vars == <<tip, version, cell, polled, geyser, connected, link, sent, accounts>>

None == -1

Init ==
    /\ tip = 1
    /\ version = [k \in Keys |-> 0]
    /\ cell \in {0, 1}      \* the initial fetch, or its failure
    /\ polled = None
    /\ geyser \in BOOLEAN
    /\ connected = FALSE
    /\ link = "connecting"
    /\ sent = {}
    /\ accounts = [k \in {} |-> None]

Block(s) == [kind |-> "block", key |-> "none", slot |-> s]
Changed(k, s) == [kind |-> "account", key |-> k, slot |-> s]

\* external: a slot of the chain.  Only a live stream carries it; a stream may
\* also fall silent without an error.
Produce ==
    /\ tip < MaxSlot
    /\ \E changed \in SUBSET Keys, carried \in BOOLEAN :
          /\ version' = [k \in Keys |-> IF k \in changed THEN tip + 1 ELSE version[k]]
          /\ sent' = IF carried /\ link = "streaming"
                     THEN sent \cup {Block(tip + 1)} \cup {Changed(k, tip + 1) : k \in changed}
                     ELSE sent
    /\ tip' = tip + 1
    /\ UNCHANGED <<cell, polled, geyser, connected, link, accounts>>

-----------------------------------------------------------------------------
(* BlockhashCache: every answer is written, whatever the cell holds.        *)

HashFetched ==
    /\ polled = None
    /\ polled' = tip
    /\ UNCHANGED <<tip, version, cell, geyser, connected, link, sent, accounts>>

HashWritten ==
    /\ polled # None
    /\ cell' = polled
    /\ polled' = None
    /\ UNCHANGED <<tip, version, geyser, connected, link, sent, accounts>>

-----------------------------------------------------------------------------
(* GeyserCache: run_loop and run_once                                       *)

Connect ==
    /\ geyser
    /\ link = "connecting"
    /\ link' = "streaming"
    /\ connected' = TRUE
    /\ UNCHANGED <<tip, version, cell, polled, geyser, sent, accounts>>

\* The next message, of those of the earliest slot.
Received ==
    \E m \in sent :
        /\ link = "streaming"
        /\ \A other \in sent : m.slot <= other.slot
        /\ sent' = sent \ {m}
        /\ cell' = IF m.kind = "block" THEN m.slot ELSE cell
        /\ accounts' = IF m.kind = "block" THEN accounts
                       ELSE [k \in DOMAIN accounts \cup {m.key} |->
                                IF k = m.key THEN m.slot ELSE accounts[k]]
        /\ UNCHANGED <<tip, version, polled, geyser, connected, link>>

\* run_once only ever ends in an error: the loop sleeps, and connected stays
\* as it was until the loop's next round.
Broken ==
    /\ geyser
    /\ link \in {"connecting", "streaming"}
    /\ link' = "backoff"
    /\ sent' = {}
    /\ UNCHANGED <<tip, version, cell, polled, geyser, connected, accounts>>

NextRound ==
    /\ link = "backoff"
    /\ link' = "connecting"
    /\ connected' = FALSE
    /\ UNCHANGED <<tip, version, cell, polled, geyser, sent, accounts>>

Next == Produce \/ HashFetched \/ HashWritten \/ Connect \/ Received \/ Broken \/ NextRound

\* The poller's thread runs for ever, and a received message is dealt with.
Fairness == WF_vars(HashFetched) /\ WF_vars(HashWritten) /\ WF_vars(Received)

-----------------------------------------------------------------------------
(* The methods.  by is who answers: the upstream when the hub passes it on. *)

Upstream == [by |-> "upstream"]
Invalid == [by |-> "error"]
Local(v) == [by |-> "hub", value |-> v]

BlockhashAnswer == Local(cell)

\* get_multiple_accounts_handler: all of them from the cache, or none.
MultipleAccounts(asked) ==
    IF geyser /\ connected /\ asked \subseteq DOMAIN accounts
    THEN Local([k \in asked |-> accounts[k]]) ELSE Upstream

AccountInfo(k) ==
    IF geyser /\ connected /\ k \in DOMAIN accounts THEN Local(accounts[k]) ELSE Upstream

\* simulate_handler: the backend, then the upstream; a backend without a
\* BanksServer is the upstream too, and is asked twice.
Simulate(decoded, banks, primary, proxy) ==
    IF ~decoded THEN Invalid
    ELSE IF primary THEN [by |-> IF banks THEN "banks" ELSE "upstream"]
    ELSE IF proxy THEN Upstream ELSE Invalid

\* send_handler: base58 only when the request says so.
SendTransaction(encoding, said, tpu) ==
    IF (said = "base58") # (encoding = "base58") THEN Invalid
    ELSE IF tpu THEN [by |-> "tpu"] ELSE Upstream

-----------------------------------------------------------------------------
TypeOK ==
    /\ cell \in 0..tip
    /\ DOMAIN accounts \subseteq Keys
    /\ \A k \in DOMAIN accounts : accounts[k] <= version[k]
    /\ polled \in (0..tip) \cup {None}
    /\ connected => geyser

\* A list of accounts is served from the cache only as a whole, so that its
\* members come from one source (get_multiple_accounts_handler).
ListsFromOneSource ==
    \A asked \in SUBSET Keys : asked # {} =>
        (MultipleAccounts(asked).by = "hub" <=> \A k \in asked : AccountInfo(k).by = "hub")

\* The chain has stopped; the hash served is its last.
AtRest == tip = MaxSlot
UpToDate == BlockhashAnswer.value = tip

\* Once the chain stops, the hash served comes to be its last one for good,
\* however stale what either writer still had to write (BlockhashCache,
\* GeyserCache share the cell).
HashCatchesUp == <>AtRest => <>[]UpToDate
=============================================================================
