------------------------------- MODULE Sniper -------------------------------
(***************************************************************************)
(* executor/src/sniper.rs and the graduation-sniper thread of helios: a    *)
(* graduation signal is deduplicated by token and by pool, checked, and    *)
(* answered with a buy; a spawned auto_sell task watches the price and     *)
(* sells.                                                                  *)
(*                                                                         *)
(* The thread owns a current-thread tokio runtime.  Spawned tasks are      *)
(* polled only while the thread is inside rt.block_on, never while it      *)
(* waits for the next signal of the channel: Driven.                       *)
(*                                                                         *)
(* The chain is not part of the state: a read finds any of the reserves in *)
(* Markets and any of the balances in Balances.  A read that fails is the  *)
(* number 0, as in read_vault_balance.                                     *)
(***************************************************************************)
EXTENDS Integers

CONSTANTS Grads,     \* graduations: [token, pool, source]
          Modes,     \* "live", "dry" (DRY_RUN), "off" (SNIPE_SOL_AMOUNT=0)
          Unsafe,    \* tokens check_token_safety rejects when it gets an answer
          Slots,     \* bound: auto_sell tasks that are open at once
          Cost,      \* snipe_lamports
          MinPool,   \* min_pool_sol
          Thin,      \* 1 SOL: the pool is being drained
          Dust,      \* 5000 lamports: not worth a sell
          Markets,   \* reserves of the pool a read can find: [wsol, token]
          Balances,  \* tokens the buy can have brought
          VaultPolls,   \* 3 polls for liquidity
          BalancePolls  \* 15 polls for the bought tokens

Tokens == {g.token : g \in Grads}
Pools == {g.pool : g \in Grads}

ASSUME SniperConstants ==
  /\ \A g \in Grads : g.source \in {"PumpSwap", "LaunchLab", "Moonshot"}
  /\ Modes \subseteq {"live", "dry", "off"}
  /\ Unsafe \subseteq Tokens
  /\ Cost \in Nat \ {0} /\ MinPool \in Nat \ {0} /\ Thin \in Nat /\ Dust \in Nat
  /\ Markets \subseteq [wsol : Nat \ {0}, token : Nat \ {0}]
  /\ Balances \subseteq Nat \ {0}
  /\ VaultPolls \in Nat \ {0} /\ BalancePolls \in Nat \ {0}

VARIABLES mode,   \* configuration of the process
          thread, \* the graduation-sniper thread and the snipe it works on
          tokens, \* sniped_tokens, younger than 300 s
          pools,  \* sniped_pools, younger than 300 s
          sell,   \* the auto_sell tasks
          order,  \* the last transaction handed to the channels
          kept    \* history: tokens bought whose entry has not expired since

vars == <<mode, thread, tokens, pools, sell, order, kept>>

NoGrad == [token |-> "-", pool |-> "-", source |-> "-"]
NoOrder == [kind |-> "none", token |-> "-", amount |-> 0]
Receiving == [pc |-> "recv", g |-> NoGrad, polls |-> 0]
Free == [pc |-> "free", token |-> "-", polls |-> 0, bal |-> 0, peak |-> 0,
         prev |-> 0, drops |-> 0, old |-> FALSE]

\* Whether the runtime is inside a block_on and polls spawned tasks.
Driven == thread.pc # "recv"

-----------------------------------------------------------------------------
(* The graduation-sniper thread *)

Goto(pc) == /\ thread' = [thread EXCEPT !.pc = pc]
            /\ UNCHANGED <<mode, tokens, pools, sell, order, kept>>

\* snipe returns: the thread waits for the next signal.
Return == /\ thread' = Receiving
          /\ UNCHANGED <<mode, tokens, pools, sell, order, kept>>

\* Mutant: the token is not entered.
ReceiveUnmarked(g) ==
  /\ thread.pc = "recv" /\ mode # "off" /\ g.token \notin tokens
  /\ thread' = [Receiving EXCEPT !.pc = "notify", !.g = g]
  /\ UNCHANGED <<mode, tokens, pools, sell, order, kept>>

\* A new token: entered in sniped_tokens, then notify_graduation_detected.  Other
\* signals, and all signals when sniping is off, leave nothing behind.
Receive(g) ==
  /\ thread.pc = "recv" /\ mode # "off" /\ g.token \notin tokens
  /\ tokens' = tokens \cup {g.token}
  /\ thread' = [Receiving EXCEPT !.pc = "notify", !.g = g]
  /\ UNCHANGED <<mode, pools, sell, order, kept>>

\* fetch_cached_blockhash.  A failed call gives the zero hash, with which the buy
\* is sent all the same and cannot land.
FetchCachedBlockhash == thread.pc = "notify" /\ Goto("snipe")

\* snipe: a pool sniped less than 300 s ago is skipped.
AlreadySniped == thread.pc = "snipe" /\ thread.g.pool \in pools /\ Return

\* Where snipe goes on for each launchpad; Moonshot and unknown ones are skipped.
Path == CASE thread.g.source = "PumpSwap" -> [thread EXCEPT !.pc = "safety"]
          [] thread.g.source = "LaunchLab" -> [thread EXCEPT !.pc = "v4"]
          [] OTHER -> Receiving

Dispatch ==
  /\ thread.pc = "snipe" /\ thread.g.pool \notin pools
  /\ pools' = pools \cup {thread.g.pool}
  /\ thread' = Path
  /\ UNCHANGED <<mode, tokens, sell, order, kept>>

\* check_token_safety answers with a reason for an unsafe mint.
RejectUnsafe == thread.pc = "safety" /\ thread.g.token \in Unsafe /\ Return

\* The mint is safe, or a call failed, which counts as safe; then the token
\* program and the pool account are read, with defaults when they cannot be.
PassSafety == thread.pc = "safety" /\ Goto("vault")

\* The reserve a read of one vault finds; 0 is a read that fails.
WsolReads == {m.wsol : m \in Markets} \cup {0}
TokenReads == {m.token : m \in Markets} \cup {0}

\* One poll of the WSOL vault finds nothing ...
PollEmpty ==
  /\ thread.pc = "vault" /\ thread.polls + 1 < VaultPolls
  /\ thread' = [thread EXCEPT !.polls = @ + 1]
  /\ UNCHANGED <<mode, tokens, pools, sell, order, kept>>

\* ... also the last time, or too little ...
PollFails(r) ==
  /\ thread.pc = "vault"
  /\ \/ r = 0 /\ thread.polls + 1 = VaultPolls
     \/ r > 0 /\ r < MinPool
  /\ Return

\* ... or enough.
PollFinds(r) == thread.pc = "vault" /\ r >= MinPool /\ Goto("build")

\* Mutant: DRY_RUN is not asked.
BuildAlways == thread.pc = "build" /\ Goto("simulate")

\* compute_token_output and build_buy_tx; a DRY_RUN ends here.
Build == thread.pc = "build" /\ mode = "live" /\ Goto("simulate")

\* The snipe ends at DRY_RUN, with an error of the builder or a transaction that
\* is too large, or because the simulation fails.
Abandon == thread.pc \in {"build", "simulate"} /\ Return

\* A buy of the thread's token is handed to the channels.
Buy == /\ order' = [kind |-> "buy", token |-> thread.g.token, amount |-> Cost]
       /\ kept' = kept \cup {thread.g.token}
       /\ UNCHANGED <<mode, tokens, pools>>

\* The simulation passes, or cannot be run, which does not stop the snipe: TPU,
\* Jito bundle, Jito sendTransaction and Agave at once.  (Only as many snipes get
\* here as the bound Slots has room for.)
Send ==
  /\ thread.pc = "simulate"
  /\ \E i \in Slots : sell[i].pc = "free"
  /\ thread' = [thread EXCEPT !.pc = "spawn"]
  /\ Buy
  /\ UNCHANGED sell

\* The end of snipe: the auto_sell task is spawned, whatever the channels said.
SpawnAutoSell(i) ==
  /\ thread.pc = "spawn" /\ sell[i].pc = "free"
  /\ sell' = [sell EXCEPT ![i] = [Free EXCEPT !.pc = "delay", !.token = thread.g.token]]
  /\ thread' = Receiving
  /\ UNCHANGED <<mode, tokens, pools, order, kept>>

\* snipe_raydium_v4: one read of the liquidity, no simulation and no auto_sell.
SnipeRaydiumV4(r) ==
  /\ thread.pc = "v4" /\ r >= MinPool /\ mode = "live"
  /\ thread' = Receiving
  /\ Buy
  /\ UNCHANGED sell

\* The pool is not there, is thin or unreadable, or the transaction is not
\* built or, in a DRY_RUN, not sent.
AbandonV4 == thread.pc = "v4" /\ Return

\* 300 s have passed since the entry was made, which is more than the timeouts
\* of one snipe add up to.
ExpireToken(t) == /\ t \in tokens /\ thread.g.token # t
                  /\ tokens' = tokens \ {t}
                  /\ kept' = kept \ {t}
                  /\ UNCHANGED <<mode, thread, pools, sell, order>>

\* The two entries of a snipe are made and expire at different times.
ExpirePool(p) == /\ p \in pools
                 /\ thread.g.pool = p => thread.pc \in {"notify", "snipe"}
                 /\ pools' = pools \ {p}
                 /\ UNCHANGED <<mode, thread, tokens, sell, order, kept>>

-----------------------------------------------------------------------------
(* auto_sell: a task of the thread's runtime *)

\* The task takes its steps only while some block_on drives the runtime.
At(i, pc) == Driven /\ sell[i].pc = pc

Step(i, task) == /\ sell' = [sell EXCEPT ![i] = task]
                 /\ UNCHANGED <<mode, thread, tokens, pools, kept>>

\* AUTO_SELL_DELAY_MS is over.
Wake(i) == /\ At(i, "delay")
           /\ Step(i, [sell[i] EXCEPT !.pc = "balance"])
           /\ UNCHANGED order

\* A poll for the bought tokens finds them ...
BalanceFound(i, n) ==
  /\ At(i, "balance")
  /\ Step(i, [sell[i] EXCEPT !.pc = "hold", !.polls = 0, !.bal = n])
  /\ UNCHANGED order

\* ... or not yet ...
BalanceMissing(i) ==
  /\ At(i, "balance") /\ sell[i].polls + 1 < BalancePolls
  /\ Step(i, [sell[i] EXCEPT !.polls = @ + 1])
  /\ UNCHANGED order

\* ... or not at all: the task ends.
BuyNotLanded(i) ==
  /\ At(i, "balance") /\ sell[i].polls + 1 = BalancePolls
  /\ Step(i, Free)
  /\ UNCHANGED order

\* MAX_HOLD_SECS of wall-clock time have passed, driven or not.
HoldExpires(i) == /\ sell[i].pc = "hold" /\ ~sell[i].old
                  /\ Step(i, [sell[i] EXCEPT !.old = TRUE])
                  /\ UNCHANGED order

\* XY=K value of the held tokens; 0 when a reserve could not be read.
SolOut(w, t, bal) == IF w > 0 /\ t > 0 THEN (w * bal) \div (t + bal) ELSE 0

\* The bookkeeping of a poll that finds the value v: peak, drops in a row and
\* the number of polls, of which the rules only tell 0 to 4 apart.
Observe(t, v) ==
  [t EXCEPT !.peak = IF v > @ THEN v ELSE @,
            !.drops = IF t.polls > 0 /\ v < t.prev THEN @ + 1
                      ELSE IF v > t.prev THEN 0 ELSE @,
            !.prev = v,
            !.polls = IF @ < 4 THEN @ + 1 ELSE 4]

\* The rules, for a task after Observe; t.prev is the value just read.

\* Mutant: one drop more.
RugPatternLate(t) == t.drops > 3 /\ t.polls >= 4

\* 1. Three drops in a row.
RugPattern(t) == t.drops >= 3 /\ t.polls >= 4

\* 2. More than 10 % below the cost.
EmergencyStop(t) == t.prev > 0 /\ t.prev < (Cost * 90) \div 100

\* 3. Less than 1 SOL in the pool.
PoolDrain(t, w) == w > 0 /\ w < Thin /\ t.polls > 1

\* 4. A gain of 0.5 %.
TakeProfit(t) == (t.prev - Cost) * 200 >= Cost /\ t.polls >= 2

\* 5. 5 % below the peak.
PeakDrop(t) == t.peak > 0 /\ (t.peak - t.prev) * 20 >= t.peak /\ t.polls >= 2

\* Mutant: there is no longest time to hold.
ExitByPrice(t, w) == \/ RugPattern(t) \/ EmergencyStop(t) \/ PoolDrain(t, w)
                     \/ TakeProfit(t) \/ PeakDrop(t)

\* 6. or MAX_HOLD_SECS.
Exit(t, w) == \/ RugPattern(t) \/ EmergencyStop(t) \/ PoolDrain(t, w)
              \/ TakeProfit(t) \/ PeakDrop(t) \/ t.old

\* One turn of the loop: the vaults are read one after the other, so the two
\* reserves need not be of one state of the pool; then the rules decide.
Monitor(i, w, n) ==
  LET t == Observe(sell[i], SolOut(w, n, sell[i].bal))
  IN /\ At(i, "hold")
     /\ Step(i, [t EXCEPT !.pc = IF Exit(t, w) THEN "exit" ELSE "hold"])
     /\ UNCHANGED order

\* A value below 5000 lamports: burn the tokens and close the account.
Burn(i) ==
  /\ At(i, "exit") /\ sell[i].prev < Dust
  /\ order' = [kind |-> "burn", token |-> sell[i].token, amount |-> sell[i].bal]
  /\ Step(i, Free)

\* The sell order on all channels.
Sell(i) ==
  /\ At(i, "exit") /\ sell[i].prev >= Dust
  /\ order' = [kind |-> "sell", token |-> sell[i].token, amount |-> sell[i].bal]
  /\ Step(i, [sell[i] EXCEPT !.pc = "report"])

\* The transaction cannot be built or is too large: the tokens stay.
GiveUp(i) == /\ At(i, "exit")
             /\ Step(i, Free)
             /\ UNCHANGED order

\* Three seconds later the result is reported and logged.
Report(i) == /\ At(i, "report")
             /\ Step(i, Free)
             /\ UNCHANGED order

-----------------------------------------------------------------------------
Init == /\ mode \in Modes
        /\ thread = Receiving
        /\ tokens = {} /\ pools = {} /\ kept = {}
        /\ sell = [i \in Slots |-> Free]
        /\ order = NoOrder

\* The steps of a snipe, once its signal has been received.
Snipe == \/ FetchCachedBlockhash \/ AlreadySniped \/ Dispatch
         \/ RejectUnsafe \/ PassSafety \/ PollEmpty
         \/ Build \/ Abandon \/ Send \/ AbandonV4
         \/ \E r \in WsolReads : PollFails(r) \/ PollFinds(r) \/ SnipeRaydiumV4(r)
         \/ \E i \in Slots : SpawnAutoSell(i)

AutoSell(i) == \/ Wake(i) \/ BalanceMissing(i) \/ BuyNotLanded(i)
               \/ \E n \in Balances : BalanceFound(i, n)
               \/ \E w \in WsolReads, n \in TokenReads : Monitor(i, w, n)
               \/ Burn(i) \/ Sell(i) \/ GiveUp(i) \/ Report(i)

Next == \/ Snipe
        \/ \E g \in Grads : Receive(g)
        \/ \E t \in Tokens : ExpireToken(t)
        \/ \E p \in Pools : ExpirePool(p)
        \/ \E i \in Slots : AutoSell(i) \/ HoldExpires(i)

\* Every await of snipe ends, time passes, and a runtime that is driven again
\* and again gets round to every task.
Spec == /\ Init /\ [][Next]_vars
        /\ WF_vars(Snipe)
        /\ \A i \in Slots : SF_vars(AutoSell(i)) /\ WF_vars(HoldExpires(i))

-----------------------------------------------------------------------------
(* Properties *)

\* The counts stay within what the rules tell apart; three drops in a row never
\* leave a task holding; a signal is worked on only while its token is entered.
TypeOK ==
  /\ mode \in Modes
  /\ tokens \subseteq Tokens /\ pools \subseteq Pools /\ kept \subseteq tokens
  /\ thread \in [pc : {"recv", "notify", "snipe", "safety", "vault", "build",
                      "simulate", "spawn", "v4"},
                 g : Grads \cup {NoGrad}, polls : 0 .. VaultPolls - 1]
  /\ thread.pc # "recv" => thread.g.token \in tokens
  /\ order \in [kind : {"none", "buy", "sell", "burn"}, token : Tokens \cup {"-"}, amount : Nat]
  /\ sell \in [Slots -> [pc : {"free", "delay", "balance", "hold", "exit", "report"},
                         token : Tokens \cup {"-"}, polls : Nat, bal : Balances \cup {0},
                         peak : Nat, prev : Nat, drops : 0 .. 3, old : BOOLEAN]]
  /\ \A i \in Slots : sell[i].pc = "hold" => sell[i].drops < 3 /\ sell[i].prev <= sell[i].peak

\* Duplicated and repeated graduation signals, with one pool or several: a token
\* is bought again only when its entry has expired since it was bought.
NoDoubleBuy ==
  [][Send \/ (\E r \in WsolReads : SnipeRaydiumV4(r)) => thread.g.token \notin kept]_vars

\* DRY_RUN and a disabled sniper hand nothing to the channels, on neither path.
OnlyLiveSends == order # NoOrder => mode = "live"

\* As long as graduations keep coming, every position is closed or given up:
\* the loop of auto_sell ends whatever the price does and the RPC answers.
ClosedWhileDriven ==
  ([]<>Driven) => \A i \in Slots : (sell[i].pc # "free") ~> (sell[i].pc = "free")

\* "Auto-sell: wait for buy to land, then sell tokens back to SOL": a spawned
\* task gets to its end.
AutoSellEnds == \A i \in Slots : (sell[i].pc = "delay") ~> (sell[i].pc = "free")

\* "reads token balance and sells all": tokens are burnt only if two reserves
\* the pool can have had make them worthless.
BurnsOnlyWorthless ==
  order.kind = "burn" =>
    \E m1, m2 \in Markets : SolOut(m1.wsol, m2.token, order.amount) < Dust
=============================================================================
