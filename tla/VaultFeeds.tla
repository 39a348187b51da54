----------------------------- MODULE VaultFeeds -----------------------------
(***************************************************************************)
(* The two feeds that push the vaults' balances into the pool cache.  The  *)
(* geyser plugin, loaded by a validator, reads the vaults' keys from a     *)
(* file and sends their balances over UDP to the bot's local receiver; the *)
(* Richat feed subscribes to the vaults of the cached pools on a stream.   *)
(*                                                                         *)
(* A key is KeyLen bytes of Word values, written in the file with Base     *)
(* digits (32, 256 and 58).  A balance counts the changes of its vault.    *)
(***************************************************************************)
EXTENDS Integers, Sequences, SequencesExt, FiniteSetsExt

CONSTANTS
    Base, Word, KeyLen,
    Keys,           \* the keys of the vaults
    MaxBackoff,     \* longest wait before a reconnection (30 s)
    MaxChanges      \* bound: changes of the balances

VARIABLES
    balance,        \* external: vault -> changes so far
    monitored,      \* HeliosGeyserPlugin.vaults
    loaded,         \* the plugin is loaded
    packets,        \* external: datagrams on their way
    hydrated,       \* the vaults of pools the cache knows (build_vault_index)
    local, index,   \* vault_index of the receiver and of the feed
    stream,         \* external: updates of the subscription not yet received
    link, backoff,  \* the feed's connection
    reserve,        \* vault -> the reserve it is the vault of
    awake           \* signals sent to the route engine

vars == <<balance, monitored, loaded, packets, hydrated, local, index, stream, link, backoff,
          reserve, awake>>

-----------------------------------------------------------------------------
(* Keys in the file                                                         *)

Value(digits, radix) == FoldLeft(LAMBDA n, d : n * radix + d, 0, digits)

\* The digits of a number, the most significant first; none for 0.
Digits(number, radix) ==
    LET places == {i \in 0..9 : radix ^ i <= number}
        n == Cardinality(places)
    IN [i \in 1..n |-> (number \div radix ^ (n - i)) % radix]

LeadingZeros(digits) ==
    Cardinality({i \in DOMAIN digits : \A j \in 1..i : digits[j] = 0})

\* external: base58 as the file's tools write it.
Encoded(key) ==
    [i \in 1..LeadingZeros(key) |-> 0] \o Digits(Value(key, Word), Base)

\* bs58_decode: a digit multiplies result, which has its least significant
\* byte first, and the carry goes through it from its last byte to its first.
TimesBase(state, i) ==
    LET carry == state.carry + Base * state.result[i]
    IN [result |-> [state.result EXCEPT ![i] = carry % Word], carry |-> carry \div Word]

WithDigit(result, digit) ==
    LET order == [i \in 1..Len(result) |-> Len(result) + 1 - i]
        multiplied == FoldLeft(TimesBase, [result |-> result, carry |-> digit], order)
    IN multiplied.result \o Reverse(Digits(multiplied.carry, Word))

Decoded(text) ==
    [i \in 1..LeadingZeros(text) |-> 0] \o Reverse(FoldLeft(WithDigit, <<>>, text))

-----------------------------------------------------------------------------
Init ==
    /\ balance = [k \in Keys |-> 0]
    /\ monitored = {}
    /\ loaded = FALSE
    /\ packets = {}
    /\ hydrated \in SUBSET Keys
    /\ local = {}
    /\ index = {}
    /\ stream = <<>>
    /\ link = "down"
    /\ backoff = 2
    /\ reserve = [k \in Keys |-> 0]
    /\ awake = 0

\* on_load: the keys of the file that decode to a whole key.
OnLoad ==
    /\ ~loaded
    /\ loaded' = TRUE
    /\ monitored' = {k \in {Decoded(Encoded(key)) : key \in Keys} : Len(k) = KeyLen}
    /\ UNCHANGED <<balance, packets, hydrated, local, index, stream, link, backoff, reserve, awake>>

\* external: a balance changes.  update_account sends it if it is of a vault
\* that is monitored, and the datagram may be lost; a stream carries it if it
\* is subscribed to.
Change ==
    \E k \in Keys, lost \in BOOLEAN :
        LET update == [key |-> k, amount |-> balance[k] + 1]
        IN /\ balance[k] < MaxChanges
           /\ balance' = [balance EXCEPT ![k] = @ + 1]
           /\ packets' = IF k \in monitored /\ ~lost THEN packets \cup {update} ELSE packets
           /\ stream' = IF link = "up" /\ k \in index THEN Append(stream, update) ELSE stream
           /\ UNCHANGED <<monitored, loaded, hydrated, local, index, link, backoff, reserve, awake>>

\* external: the hydrator comes to know a vault.
Hydrated ==
    \E k \in Keys \ hydrated :
        /\ hydrated' = hydrated \cup {k}
        /\ UNCHANGED <<balance, monitored, loaded, packets, local, index, stream, link, backoff,
                       reserve, awake>>

\* update_reserve_by_vault
Changed(k, amount) == k \in hydrated /\ reserve[k] # amount
Reserves(k, amount) == IF k \in hydrated THEN [reserve EXCEPT ![k] = amount] ELSE reserve

-----------------------------------------------------------------------------
(* geyser_local                                                             *)

\* The index is rebuilt every minute, and while it is empty.
LocalIndexed ==
    /\ local # hydrated
    /\ local' = hydrated
    /\ UNCHANGED <<balance, monitored, loaded, packets, hydrated, index, stream, link, backoff,
                   reserve, awake>>

\* A datagram, in any order; the engine is not woken.
LocalReceives ==
    \E u \in packets :
        /\ local # {}
        /\ packets' = packets \ {u}
        /\ reserve' = IF u.key \in local THEN Reserves(u.key, u.amount) ELSE reserve
        /\ UNCHANGED <<balance, monitored, loaded, hydrated, local, index, stream, link, backoff,
                       awake>>

-----------------------------------------------------------------------------
(* geyser_feed                                                              *)

Connect ==
    /\ link = "down"
    /\ hydrated # {}
    /\ link' = "up"
    /\ index' = hydrated
    /\ UNCHANGED <<balance, monitored, loaded, packets, hydrated, local, stream, backoff, reserve,
                   awake>>

\* A stream only ever ends in an error, which leaves the wait doubled.
Lost ==
    /\ hydrated # {}
    /\ link' = "down"
    /\ stream' = <<>>
    /\ backoff' = Min({2 * backoff, MaxBackoff})
    /\ UNCHANGED <<balance, monitored, loaded, packets, hydrated, local, index, reserve, awake>>

\* An update; after one, the subscription may be due for the vaults that were
\* hydrated since.  The signal is dropped when the channel is full.
FeedReceives ==
    \E due \in BOOLEAN, sent \in {0, 1} :
        /\ link = "up"
        /\ stream # <<>>
        /\ LET u == Head(stream)
           IN /\ reserve' = IF u.key \in index THEN Reserves(u.key, u.amount) ELSE reserve
              /\ awake' = IF u.key \in index /\ Changed(u.key, u.amount) THEN awake + sent
                          ELSE awake
        /\ stream' = Tail(stream)
        /\ index' = IF due THEN hydrated ELSE index
        /\ UNCHANGED <<balance, monitored, loaded, packets, hydrated, local, link, backoff>>

Next ==
    \/ OnLoad \/ Change \/ Hydrated
    \/ LocalIndexed \/ LocalReceives
    \/ Connect \/ Lost \/ FeedReceives

Spec == Init /\ [][Next]_vars

-----------------------------------------------------------------------------
\* Once loaded, the plugin "monitors SPL Token vault accounts": the vaults of
\* its file (on_load, bs58_decode).
MonitorsTheVaults == loaded => Keys \subseteq monitored
=============================================================================
