---------------------------- MODULE SniperProofs ----------------------------
(***************************************************************************)
(* TLAPS proofs about Sniper: no double buy and nothing sent in DRY_RUN,   *)
(* for any graduations, prices, balances and any number of auto_sell tasks.*)
(***************************************************************************)
EXTENDS Sniper, TLAPS

\* From its signal to the end of its snipe a token has not been bought since
\* its entry was made.
NotYetBought ==
  thread.pc \in {"notify", "snipe", "safety", "vault", "build", "simulate", "v4"} =>
    thread.g.token \notin kept

\* The thread works on a signal it has received.
SignalReceived == thread.pc # "recv" => thread.g \in Grads

\* What follows the test of DRY_RUN happens in live mode only.
PastDryRun == /\ thread.pc \in {"simulate", "spawn"} => mode = "live"
              /\ \A i \in Slots : sell[i].pc # "free" => mode = "live"

\* n drops in a row take more than n polls.
DropsTakePolls ==
  \A i \in Slots : sell[i].pc = "hold" =>
    sell[i].drops = 0 \/ sell[i].polls >= sell[i].drops + 1

\* Nothing is known of the price before the tokens are there.
NoPriceYet ==
  \A i \in Slots : sell[i].pc \in {"delay", "balance"} =>
    sell[i].drops = 0 /\ sell[i].prev = 0 /\ sell[i].peak = 0

IInv == /\ TypeOK /\ NotYetBought /\ SignalReceived /\ PastDryRun /\ DropsTakePolls /\ NoPriceYet
        /\ OnlyLiveSends

Task == [pc : {"free", "delay", "balance", "hold", "exit", "report"},
         token : Tokens \cup {"-"}, polls : Nat, bal : Balances \cup {0},
         peak : Nat, prev : Nat, drops : 0 .. 3, old : BOOLEAN]

\* What has to hold of one task whatever the others do.
TaskInv(t) ==
  /\ t \in Task
  /\ t.pc \in {"delay", "balance"} => t.drops = 0 /\ t.prev = 0 /\ t.peak = 0
  /\ t.pc = "hold" => /\ t.drops < 3 /\ t.prev <= t.peak
                      /\ t.drops = 0 \/ t.polls >= t.drops + 1

TasksInv == sell \in [Slots -> Task] /\ \A i \in Slots : TaskInv(sell[i])

\* What has to hold of the thread and its dedup maps.
ThreadInv ==
  /\ mode \in Modes
  /\ tokens \subseteq Tokens /\ pools \subseteq Pools /\ kept \subseteq tokens
  /\ thread \in [pc : {"recv", "notify", "snipe", "safety", "vault", "build",
                      "simulate", "spawn", "v4"},
                 g : Grads \cup {NoGrad}, polls : 0 .. VaultPolls - 1]
  /\ thread.pc # "recv" => thread.g.token \in tokens
  /\ NotYetBought /\ SignalReceived

OrderInv ==
  /\ order \in [kind : {"none", "buy", "sell", "burn"}, token : Tokens \cup {"-"}, amount : Nat]
  /\ OnlyLiveSends /\ PastDryRun

\* The invariant by the state it is about.
LEMMA Parts == /\ IInv <=> TasksInv /\ ThreadInv /\ OrderInv
               /\ IInv' <=> TasksInv' /\ ThreadInv' /\ OrderInv'
  BY DEF IInv, TasksInv, ThreadInv, OrderInv, TaskInv, Task, TypeOK, DropsTakePolls, NoPriceYet

-----------------------------------------------------------------------------
\* A free task satisfies every rule.
LEMMA FreeInv == TaskInv(Free)
  BY DEF TaskInv, Free, Task

\* The value of a position is a natural number.
LEMMA SolOutNat ==
  ASSUME NEW w \in Nat, NEW t \in Nat, NEW b \in Nat
  PROVE  SolOut(w, t, b) \in Nat
<1>1. CASE w > 0 /\ t > 0
  <2> DEFINE x == w * b
             y == t + b
  <2>1. x \in Nat /\ y \in Nat /\ y > 0
    BY <1>1
  <2> HIDE DEF x, y
  <2>2. x \div y \in Nat
    BY <2>1
  <2> QED BY <1>1, <2>2 DEF SolOut, x, y
<1>2. CASE ~(w > 0 /\ t > 0)
  BY <1>2 DEF SolOut
<1> QED BY <1>1, <1>2

\* The fields one poll sets.
Updated(t, pk, dr, v, po) == [t EXCEPT !.peak = pk, !.drops = dr, !.prev = v, !.polls = po]

\* The bookkeeping of one poll, field by field.
LEMMA ObserveFields ==
  ASSUME NEW t \in Task, t.drops < 3, NEW v \in Nat
  PROVE  /\ Observe(t, v) \in Task
         /\ Observe(t, v).prev = v
         /\ Observe(t, v).peak = IF v > t.peak THEN v ELSE t.peak
         /\ Observe(t, v).polls = IF t.polls < 4 THEN t.polls + 1 ELSE 4
         /\ Observe(t, v).drops = IF t.polls > 0 /\ v < t.prev THEN t.drops + 1
                                  ELSE IF v > t.prev THEN 0 ELSE t.drops
<1>1. PICK pk \in Nat : pk = IF v > t.peak THEN v ELSE t.peak
  BY DEF Task
<1>2. PICK po \in Nat : po = IF t.polls < 4 THEN t.polls + 1 ELSE 4
  BY DEF Task
<1>3. PICK dr \in 0 .. 3 : dr = IF t.polls > 0 /\ v < t.prev THEN t.drops + 1
                               ELSE IF v > t.prev THEN 0 ELSE t.drops
  BY DEF Task
<1>4. Observe(t, v) = Updated(t, pk, dr, v, po)
  BY <1>1, <1>2, <1>3, Zenon DEF Observe, Updated
<1>5. /\ Updated(t, pk, dr, v, po) \in Task
      /\ Updated(t, pk, dr, v, po).prev = v
      /\ Updated(t, pk, dr, v, po).peak = pk
      /\ Updated(t, pk, dr, v, po).polls = po
      /\ Updated(t, pk, dr, v, po).drops = dr
  BY DEF Task, Updated
<1> QED BY <1>1, <1>2, <1>3, <1>4, <1>5, Zenon

\* Where the rules send a task.
LEMMA ExitFields ==
  ASSUME NEW u \in Task, NEW pc \in {"exit", "hold"}
  PROVE  LET x == [u EXCEPT !.pc = pc]
         IN /\ x \in Task /\ x.pc = pc
            /\ x.prev = u.prev /\ x.peak = u.peak /\ x.polls = u.polls /\ x.drops = u.drops
  BY DEF Task

\* One poll of the loop of auto_sell: a task that goes on holding has not seen
\* its third drop.
LEMMA ObserveInv ==
  ASSUME NEW t \in Task, TaskInv(t), t.pc = "hold", NEW v \in Nat, NEW w \in Nat,
         NEW u, u = Observe(t, v), NEW pc, pc = IF Exit(u, w) THEN "exit" ELSE "hold"
  PROVE  TaskInv([u EXCEPT !.pc = pc]) /\ [u EXCEPT !.pc = pc].pc # "free"
<1>1. t.drops < 3 /\ t.prev <= t.peak /\ (t.drops = 0 \/ t.polls >= t.drops + 1)
  BY DEF TaskInv
<1>2. /\ u \in Task
      /\ u.prev = v
      /\ u.peak = IF v > t.peak THEN v ELSE t.peak
      /\ u.polls = IF t.polls < 4 THEN t.polls + 1 ELSE 4
      /\ u.drops = IF t.polls > 0 /\ v < t.prev THEN t.drops + 1
                   ELSE IF v > t.prev THEN 0 ELSE t.drops
  BY <1>1, ObserveFields
<1>3. /\ u.peak \in Nat /\ v <= u.peak
      /\ u.polls \in 0 .. 4 /\ u.drops \in 0 .. 3
      /\ u.drops = 0 \/ u.polls >= u.drops + 1
  BY <1>1, <1>2 DEF Task
<1> DEFINE x == [u EXCEPT !.pc = pc]
<1>4. pc \in {"exit", "hold"}
  OBVIOUS
<1>5. x \in Task /\ x.pc = pc
      /\ x.prev = v /\ x.peak = u.peak /\ x.polls = u.polls /\ x.drops = u.drops
  BY <1>2, <1>4, ExitFields
<1> HIDE DEF x
<1>6. ASSUME pc = "hold" PROVE TaskInv(x)
  <2>1. ~Exit(u, w)
    BY <1>6
  <2>2. u.drops < 3
    BY <1>3, <2>1 DEF Exit, RugPattern
  <2> QED BY <1>2, <1>3, <1>5, <1>6, <2>2 DEF TaskInv
<1>7. ASSUME pc = "exit" PROVE TaskInv(x)
  BY <1>5, <1>7 DEF TaskInv
<1>8. TaskInv(x) /\ x.pc # "free"
  BY <1>4, <1>5, <1>6, <1>7
<1> QED BY <1>8 DEF x

-----------------------------------------------------------------------------
\* What the proofs use of the constants.
LEMMA Constants == VaultPolls \in Nat \ {0} /\ Cost \in Nat /\ Balances \subseteq Nat
  BY SniperConstants

\* The process starts with no entries, no tasks and no orders.
LEMMA InitIInv == Init => IInv
<1> SUFFICES ASSUME Init PROVE TasksInv /\ ThreadInv /\ OrderInv
  BY Parts, Zenon
<1>1. TasksInv
  BY FreeInv DEF Init, TasksInv, TaskInv
<1>2. ThreadInv
  BY Constants DEF Init, ThreadInv, NotYetBought, SignalReceived, Receiving
<1>3. OrderInv
  BY DEF Init, OrderInv, OnlyLiveSends, PastDryRun, NoOrder, Receiving, Free
<1> QED BY <1>1, <1>2, <1>3

\* A step that leaves the tasks and the orders alone and does not pass the test
\* of DRY_RUN.
LEMMA QuietStep ==
  ASSUME TasksInv, OrderInv, mode' = mode, sell' = sell, order' = order,
         thread'.pc \in {"simulate", "spawn"} => mode = "live"
  PROVE  TasksInv' /\ OrderInv'
<1>1. TasksInv'
  BY DEF TasksInv
<1>2. OrderInv'
  BY DEF OrderInv, OnlyLiveSends, PastDryRun
<1> QED BY <1>1, <1>2

\* The thread goes on with its snipe, not past the buy.
LEMMA GotoInv ==
  ASSUME IInv, NEW pc \in {"snipe", "safety", "vault", "build", "simulate", "v4"},
         thread.pc \in {"notify", "snipe", "safety", "vault", "build"},
         pc = "simulate" => mode = "live", Goto(pc)
  PROVE  IInv'
<1>1. TasksInv /\ ThreadInv /\ OrderInv
  BY Parts, Zenon
<1>2. thread'.pc = pc /\ thread'.g = thread.g /\ thread'.polls = thread.polls
  BY <1>1 DEF Goto, ThreadInv
<1>3. ThreadInv'
  BY <1>1, <1>2 DEF Goto, ThreadInv, NotYetBought, SignalReceived
<1>4. TasksInv' /\ OrderInv'
  BY <1>1, <1>2, QuietStep DEF Goto
<1> QED BY <1>3, <1>4, Parts, Zenon

\* The snipe ends.
LEMMA ReturnInv == ASSUME IInv, Return PROVE IInv'
<1>1. TasksInv /\ ThreadInv /\ OrderInv
  BY Parts, Zenon
<1>2. ThreadInv'
  BY <1>1, Constants DEF Return, ThreadInv, NotYetBought, SignalReceived, Receiving
<1>3. TasksInv' /\ OrderInv'
  BY <1>1, QuietStep DEF Return, Receiving
<1> QED BY <1>2, <1>3, Parts, Zenon

\* A signal is accepted: its token was not entered, hence not bought.
LEMMA ReceiveInv == ASSUME IInv, NEW g \in Grads, Receive(g) PROVE IInv'
<1>1. TasksInv /\ ThreadInv /\ OrderInv
  BY Parts, Zenon
<1>2. thread'.pc = "notify" /\ thread'.g = g /\ thread'.polls = 0
  BY DEF Receive, Receiving
<1>3. thread' \in [pc : {"notify"}, g : Grads, polls : {0}] /\ g.token \in Tokens
  BY DEF Receive, Receiving, Tokens
<1>4. ThreadInv'
  BY <1>1, <1>2, <1>3, Constants DEF Receive, ThreadInv, NotYetBought, SignalReceived
<1>5. TasksInv' /\ OrderInv'
  BY <1>1, <1>2, QuietStep DEF Receive
<1> QED BY <1>4, <1>5, Parts, Zenon

\* The pool is entered, and the launchpad decides how the snipe goes on.
LEMMA DispatchInv == ASSUME IInv, Dispatch PROVE IInv'
<1>1. TasksInv /\ ThreadInv /\ OrderInv
  BY Parts, Zenon
<1>2. thread.pc = "snipe" /\ thread.g \in Grads
  BY <1>1 DEF Dispatch, ThreadInv, SignalReceived
<1>3. pools' \subseteq Pools
  BY <1>1, <1>2 DEF Dispatch, Pools, ThreadInv
<1>4. \/ thread' = Receiving
      \/ thread' = [thread EXCEPT !.pc = "safety"]
      \/ thread' = [thread EXCEPT !.pc = "v4"]
  BY DEF Dispatch, Path
<1>5. thread'.pc \in {"recv", "safety", "v4"} /\ ThreadInv'
  <2>1. CASE thread' = Receiving
    BY <1>1, <1>3, <2>1, Constants DEF Dispatch, ThreadInv, NotYetBought, SignalReceived, Receiving
  <2>2. CASE thread' = [thread EXCEPT !.pc = "safety"]
    BY <1>1, <1>2, <1>3, <2>2 DEF Dispatch, ThreadInv, NotYetBought, SignalReceived
  <2>3. CASE thread' = [thread EXCEPT !.pc = "v4"]
    BY <1>1, <1>2, <1>3, <2>3 DEF Dispatch, ThreadInv, NotYetBought, SignalReceived
  <2> QED BY <1>4, <2>1, <2>2, <2>3
<1>6. TasksInv' /\ OrderInv'
  BY <1>1, <1>5, QuietStep DEF Dispatch
<1> QED BY <1>5, <1>6, Parts, Zenon

\* A poll of the WSOL vault that finds nothing counts up to its bound.
LEMMA PollEmptyInv == ASSUME IInv, PollEmpty PROVE IInv'
<1>1. TasksInv /\ ThreadInv /\ OrderInv
  BY Parts, Zenon
<1>2. thread'.pc = "vault" /\ thread'.g = thread.g /\ thread.polls + 1 \in 0 .. VaultPolls - 1
  BY <1>1, Constants DEF PollEmpty, ThreadInv
<1>3. ThreadInv'
  BY <1>1, <1>2 DEF PollEmpty, ThreadInv, NotYetBought, SignalReceived
<1>4. TasksInv' /\ OrderInv'
  BY <1>1, <1>2, QuietStep DEF PollEmpty
<1> QED BY <1>3, <1>4, Parts, Zenon

\* The buy of a snipe: the one step with which a token joins kept.
LEMMA SendInv == ASSUME IInv, Send PROVE IInv'
<1>1. TasksInv /\ ThreadInv /\ OrderInv
  BY Parts, Zenon
<1>2. thread'.pc = "spawn" /\ thread'.g = thread.g /\ thread.g.token \in tokens
      /\ thread.pc = "simulate"
  BY <1>1 DEF Send, ThreadInv
<1>3. ThreadInv'
  BY <1>1, <1>2 DEF Send, Buy, ThreadInv, NotYetBought, SignalReceived
<1>4. TasksInv'
  BY <1>1 DEF Send, TasksInv
<1>5. OrderInv'
  <2>1. thread.g.token \in Tokens /\ mode = "live" /\ mode' = mode /\ sell' = sell
    BY <1>1, <1>2 DEF Send, Buy, ThreadInv, OrderInv, PastDryRun
  <2> QED BY <1>1, <2>1, Constants DEF Send, Buy, OrderInv, OnlyLiveSends, PastDryRun
<1> QED BY <1>3, <1>4, <1>5, Parts, Zenon

\* The buy on the other path, which ends the snipe at once.
LEMMA SnipeRaydiumV4Inv ==
  ASSUME IInv, NEW r, SnipeRaydiumV4(r) PROVE IInv'
<1>1. TasksInv /\ ThreadInv /\ OrderInv
  BY Parts, Zenon
<1>2. thread.g.token \in tokens /\ mode = "live" /\ mode' = mode /\ sell' = sell
  BY <1>1 DEF SnipeRaydiumV4, Buy, ThreadInv
<1>3. ThreadInv'
  BY <1>1, <1>2, Constants
  DEF SnipeRaydiumV4, Buy, ThreadInv, NotYetBought, SignalReceived, Receiving
<1>4. TasksInv'
  BY <1>1, <1>2 DEF TasksInv
<1>5. OrderInv'
  <2>1. thread.g.token \in Tokens
    BY <1>1, <1>2 DEF ThreadInv
  <2> QED BY <1>1, <1>2, <2>1, Constants
          DEF SnipeRaydiumV4, Buy, OrderInv, OnlyLiveSends, PastDryRun
<1> QED BY <1>3, <1>4, <1>5, Parts, Zenon

\* An entry of sniped_tokens expires, together with what is known of the buy.
LEMMA ExpireTokenInv == ASSUME IInv, NEW t, ExpireToken(t) PROVE IInv'
<1>1. TasksInv /\ ThreadInv /\ OrderInv
  BY Parts, Zenon
<1>2. ThreadInv'
  BY <1>1 DEF ExpireToken, ThreadInv, NotYetBought, SignalReceived
<1>3. TasksInv' /\ OrderInv'
  BY <1>1, QuietStep DEF ExpireToken, OrderInv, PastDryRun
<1> QED BY <1>2, <1>3, Parts, Zenon

\* An entry of sniped_pools expires.
LEMMA ExpirePoolInv == ASSUME IInv, NEW p, ExpirePool(p) PROVE IInv'
<1>1. TasksInv /\ ThreadInv /\ OrderInv
  BY Parts, Zenon
<1>2. ThreadInv'
  BY <1>1 DEF ExpirePool, ThreadInv, NotYetBought, SignalReceived
<1>3. TasksInv' /\ OrderInv'
  BY <1>1, QuietStep DEF ExpirePool, OrderInv, PastDryRun
<1> QED BY <1>2, <1>3, Parts, Zenon

-----------------------------------------------------------------------------
\* One task changes; nothing is sent, or something of the right kind while live.
LEMMA TaskStep ==
  ASSUME IInv, NEW i \in Slots, NEW t, TaskInv(t), t.pc # "free" => mode = "live", Step(i, t),
         order' \in [kind : {"none", "buy", "sell", "burn"}, token : Tokens \cup {"-"}, amount : Nat],
         order' = order \/ mode = "live"
  PROVE  IInv'
<1>1. TasksInv /\ ThreadInv /\ OrderInv
  BY Parts, Zenon
<1>2. t \in Task /\ sell' = [sell EXCEPT ![i] = t] /\ sell \in [Slots -> Task]
  BY <1>1 DEF TasksInv, TaskInv, Step
<1>3. TasksInv'
  <2>1. sell' \in [Slots -> Task]
    BY <1>2
  <2>2. ASSUME NEW j \in Slots PROVE TaskInv(sell'[j])
    BY <1>1, <1>2 DEF TasksInv
  <2> QED BY <2>1, <2>2 DEF TasksInv
<1>4. ThreadInv'
  BY <1>1 DEF Step, ThreadInv, NotYetBought, SignalReceived
<1>5. OrderInv'
  <2>1. \A j \in Slots : sell'[j].pc # "free" => mode = "live"
    BY <1>1, <1>2 DEF OrderInv, PastDryRun
  <2> QED BY <1>1, <2>1 DEF Step, OrderInv, OnlyLiveSends, PastDryRun
<1> QED BY <1>3, <1>4, <1>5, Parts, Zenon

\* What is known of a task that takes a step.
LEMMA OpenTask ==
  ASSUME IInv, NEW i \in Slots, sell[i].pc # "free"
  PROVE  /\ sell[i] \in Task /\ TaskInv(sell[i]) /\ mode = "live"
         /\ order \in [kind : {"none", "buy", "sell", "burn"}, token : Tokens \cup {"-"}, amount : Nat]
<1>1. TasksInv /\ OrderInv
  BY Parts, Zenon
<1> QED BY <1>1 DEF TasksInv, OrderInv, PastDryRun

\* Steps that end a task without an order.
LEMMA EndInv ==
  ASSUME IInv, NEW i \in Slots, BuyNotLanded(i) \/ GiveUp(i) \/ Report(i)
  PROVE  IInv'
<1>1. Step(i, Free) /\ order' = order /\ sell[i].pc # "free"
  BY DEF BuyNotLanded, GiveUp, Report, At
<1>2. order' \in [kind : {"none", "buy", "sell", "burn"}, token : Tokens \cup {"-"}, amount : Nat]
  BY <1>1, OpenTask
<1> QED BY <1>1, <1>2, FreeInv, TaskStep DEF Free

\* The delay is over, or a poll does not find the tokens yet.
LEMMA WaitInv ==
  ASSUME IInv, NEW i \in Slots, Wake(i) \/ BalanceMissing(i) PROVE IInv'
<1>1. sell[i].pc \in {"delay", "balance"} /\ order' = order
  BY DEF Wake, BalanceMissing, At
<1>2. /\ sell[i] \in Task /\ TaskInv(sell[i]) /\ mode = "live"
      /\ order' \in [kind : {"none", "buy", "sell", "burn"}, token : Tokens \cup {"-"}, amount : Nat]
  BY <1>1, OpenTask
<1>3. PICK t : /\ Step(i, t)
               /\ \/ t = [sell[i] EXCEPT !.pc = "balance"]
                  \/ sell[i].pc = "balance" /\ t = [sell[i] EXCEPT !.polls = sell[i].polls + 1]
  BY Zenon DEF Wake, BalanceMissing, At
<1>4. /\ t \in Task /\ t.pc = "balance"
      /\ t.drops = sell[i].drops /\ t.prev = sell[i].prev /\ t.peak = sell[i].peak
  <2>1. CASE t = [sell[i] EXCEPT !.pc = "balance"]
    BY <1>2, <2>1 DEF Task
  <2>2. CASE sell[i].pc = "balance" /\ t = [sell[i] EXCEPT !.polls = sell[i].polls + 1]
    BY <1>2, <2>2 DEF Task
  <2> QED BY <1>3, <2>1, <2>2
<1>5. TaskInv(t)
  BY <1>1, <1>2, <1>4 DEF TaskInv
<1> QED BY <1>1, <1>2, <1>3, <1>4, <1>5, TaskStep

\* Holding begins with no poll of the price.
LEMMA BalanceFoundInv ==
  ASSUME IInv, NEW i \in Slots, NEW n \in Balances, BalanceFound(i, n) PROVE IInv'
<1>1. sell[i].pc = "balance" /\ order' = order
  BY DEF BalanceFound, At
<1>2. /\ sell[i] \in Task /\ TaskInv(sell[i]) /\ mode = "live"
      /\ order' \in [kind : {"none", "buy", "sell", "burn"}, token : Tokens \cup {"-"}, amount : Nat]
  BY <1>1, OpenTask
<1> DEFINE t == [sell[i] EXCEPT !.pc = "hold", !.polls = 0, !.bal = n]
<1>3. /\ t \in Task /\ t.pc = "hold" /\ t.polls = 0
      /\ t.drops = sell[i].drops /\ t.prev = sell[i].prev /\ t.peak = sell[i].peak
  BY <1>2 DEF Task
<1>4. Step(i, t)
  BY DEF BalanceFound
<1> HIDE DEF t
<1>5. TaskInv(t)
  BY <1>1, <1>2, <1>3 DEF TaskInv
<1> QED BY <1>1, <1>2, <1>3, <1>4, <1>5, TaskStep

\* Time passes for a task that holds.
LEMMA HoldExpiresInv == ASSUME IInv, NEW i \in Slots, HoldExpires(i) PROVE IInv'
<1>1. sell[i].pc = "hold" /\ order' = order
  BY DEF HoldExpires
<1>2. /\ sell[i] \in Task /\ TaskInv(sell[i]) /\ mode = "live"
      /\ order' \in [kind : {"none", "buy", "sell", "burn"}, token : Tokens \cup {"-"}, amount : Nat]
  BY <1>1, OpenTask
<1> DEFINE t == [sell[i] EXCEPT !.old = TRUE]
<1>3. /\ t \in Task /\ t.pc = "hold" /\ t.polls = sell[i].polls
      /\ t.drops = sell[i].drops /\ t.prev = sell[i].prev /\ t.peak = sell[i].peak
  BY <1>1, <1>2 DEF Task
<1>4. Step(i, t)
  BY DEF HoldExpires
<1> HIDE DEF t
<1>5. TaskInv(t)
  BY <1>1, <1>2, <1>3 DEF TaskInv
<1> QED BY <1>1, <1>2, <1>3, <1>4, <1>5, TaskStep

\* One turn of the loop: the lemma ObserveInv applied to the task.
LEMMA MonitorInv ==
  ASSUME IInv, NEW i \in Slots, NEW w \in Nat, NEW n \in Nat, Monitor(i, w, n) PROVE IInv'
<1>1. sell[i].pc = "hold" /\ order' = order
  BY DEF Monitor, At
<1>2. /\ sell[i] \in Task /\ TaskInv(sell[i]) /\ mode = "live"
      /\ order' \in [kind : {"none", "buy", "sell", "burn"}, token : Tokens \cup {"-"}, amount : Nat]
  BY <1>1, OpenTask
<1>3. sell[i].bal \in Nat
  <2>1. sell[i].bal \in Balances \cup {0}
    BY <1>2 DEF Task
  <2>2. \A b \in Balances \cup {0} : b \in Nat
    BY Constants
  <2> QED BY <2>1, <2>2, Zenon
<1>4. PICK v \in Nat : v = SolOut(w, n, sell[i].bal)
  BY <1>3, SolOutNat
<1>5. PICK u : u = Observe(sell[i], v)
  OBVIOUS
<1>6. PICK pc : pc = IF Exit(u, w) THEN "exit" ELSE "hold"
  OBVIOUS
<1> DEFINE t == [u EXCEPT !.pc = pc]
<1>7. Step(i, t)
  BY <1>4, <1>5, <1>6, Zenon DEF Monitor
<1>8. TaskInv(t) /\ t.pc # "free"
  BY <1>1, <1>2, <1>5, <1>6, ObserveInv
<1> HIDE DEF t
<1> QED BY <1>1, <1>2, <1>7, <1>8, TaskStep

\* The order that closes a position names its token and its balance.
LEMMA CloseInv == ASSUME IInv, NEW i \in Slots, Burn(i) \/ Sell(i) PROVE IInv'
<1>1. sell[i].pc = "exit"
  BY DEF Burn, Sell, At
<1>2. sell[i] \in Task /\ TaskInv(sell[i]) /\ mode = "live"
  BY <1>1, OpenTask
<1>3. sell[i].bal \in Nat
  <2>1. sell[i].bal \in Balances \cup {0}
    BY <1>2 DEF Task
  <2>2. \A b \in Balances \cup {0} : b \in Nat
    BY Constants
  <2> QED BY <2>1, <2>2, Zenon
<1>4. sell[i].token \in Tokens \cup {"-"}
  BY <1>2 DEF Task
<1>5. order' \in [kind : {"none", "buy", "sell", "burn"}, token : Tokens \cup {"-"}, amount : Nat]
  BY <1>3, <1>4 DEF Burn, Sell
<1> DEFINE t == [sell[i] EXCEPT !.pc = "report"]
<1>6. t \in Task /\ t.pc = "report"
  BY <1>2 DEF Task
<1>7. Step(i, Free) \/ Step(i, t)
  BY Zenon DEF Burn, Sell
<1> HIDE DEF t
<1>8. TaskInv(t)
  BY <1>6 DEF TaskInv
<1> QED BY <1>2, <1>5, <1>7, <1>8, FreeInv, TaskStep

\* The task is spawned by a snipe that has sent its buy.
LEMMA SpawnInv == ASSUME IInv, NEW i \in Slots, SpawnAutoSell(i) PROVE IInv'
<1>1. TasksInv /\ ThreadInv /\ OrderInv
  BY Parts, Zenon
<1>2. mode = "live" /\ thread.g.token \in Tokens
  BY <1>1 DEF SpawnAutoSell, ThreadInv, OrderInv, PastDryRun
<1> DEFINE t == [Free EXCEPT !.pc = "delay", !.token = thread.g.token]
<1>3. t \in Task /\ t.pc = "delay" /\ t.drops = 0 /\ t.prev = 0 /\ t.peak = 0
  <2>1. PICK f \in Task : f = Free
    BY FreeInv DEF TaskInv
  <2>2. PICK k \in Tokens : k = thread.g.token
    BY <1>2
  <2>3. LET u == [f EXCEPT !.pc = "delay", !.token = k]
        IN u \in Task /\ u.pc = "delay" /\ u.drops = f.drops /\ u.prev = f.prev /\ u.peak = f.peak
    BY DEF Task
  <2>4. f.drops = 0 /\ f.prev = 0 /\ f.peak = 0
    BY <2>1 DEF Free
  <2> QED BY <2>1, <2>2, <2>3, <2>4, Zenon
<1>4. TaskInv(t)
  <2> HIDE DEF t
  <2> QED BY <1>3 DEF TaskInv
<1>5. sell' = [sell EXCEPT ![i] = t] /\ sell \in [Slots -> Task]
  BY <1>1 DEF SpawnAutoSell, TasksInv
<1> HIDE DEF t
<1>6. TasksInv'
  <2>1. sell' \in [Slots -> Task]
    BY <1>3, <1>5
  <2>2. ASSUME NEW j \in Slots PROVE TaskInv(sell'[j])
    BY <1>1, <1>4, <1>5 DEF TasksInv
  <2> QED BY <2>1, <2>2 DEF TasksInv
<1>7. ThreadInv'
  BY <1>1, Constants DEF SpawnAutoSell, ThreadInv, NotYetBought, SignalReceived, Receiving
<1>8. OrderInv'
  BY <1>1, <1>2 DEF SpawnAutoSell, OrderInv, OnlyLiveSends, PastDryRun, Receiving
<1> QED BY <1>6, <1>7, <1>8, Parts, Zenon

-----------------------------------------------------------------------------
\* The step of the thread within a snipe.
LEMMA SnipeInv == ASSUME IInv, Snipe PROVE IInv'
<1>1. ASSUME FetchCachedBlockhash PROVE IInv'
  BY <1>1, GotoInv DEF FetchCachedBlockhash
<1>2. ASSUME AlreadySniped \/ RejectUnsafe \/ Abandon \/ AbandonV4 PROVE IInv'
  BY <1>2, ReturnInv DEF AlreadySniped, RejectUnsafe, Abandon, AbandonV4
<1>3. ASSUME PassSafety PROVE IInv'
  BY <1>3, GotoInv DEF PassSafety
<1>4. ASSUME Build PROVE IInv'
  BY <1>4, GotoInv DEF Build
<1>5. ASSUME NEW r \in WsolReads, PollFails(r) \/ PollFinds(r) \/ SnipeRaydiumV4(r) PROVE IInv'
  BY <1>5, ReturnInv, GotoInv, SnipeRaydiumV4Inv DEF PollFails, PollFinds
<1> QED BY <1>1, <1>2, <1>3, <1>4, <1>5, DispatchInv, PollEmptyInv, SendInv, SpawnInv DEF Snipe

\* The step of one auto_sell task.
LEMMA AutoSellInv == ASSUME IInv, NEW i \in Slots, AutoSell(i) PROVE IInv'
<1>1. ASSUME NEW w \in WsolReads, NEW n \in TokenReads, Monitor(i, w, n)
      PROVE  IInv'
  <2>1. w \in Nat /\ n \in Nat
    BY SniperConstants DEF WsolReads, TokenReads
  <2> QED BY <1>1, <2>1, MonitorInv
<1> QED BY <1>1, WaitInv, EndInv, BalanceFoundInv, CloseInv DEF AutoSell

\* Every step keeps the invariant.
LEMMA NextIInv == IInv /\ [Next]_vars => IInv'
<1> SUFFICES ASSUME IInv, [Next]_vars PROVE IInv'
  OBVIOUS
<1>1. CASE Next
  BY <1>1, SnipeInv, ReceiveInv, ExpireTokenInv, ExpirePoolInv, AutoSellInv, HoldExpiresInv
  DEF Next
<1>2. CASE UNCHANGED vars
  BY <1>2 DEF vars, IInv, TypeOK, NotYetBought, SignalReceived, PastDryRun, DropsTakePolls,
              NoPriceYet, OnlyLiveSends
<1> QED BY <1>1, <1>2

\* The inductive invariant holds in every reachable state.
LEMMA Inductive == Spec => []IInv
  BY InitIInv, NextIInv, PTL DEF Spec

-----------------------------------------------------------------------------
\* The state of the thread, the dedup maps and the tasks keeps its type; a task
\* that holds has seen fewer than three drops and a signal keeps its entry.
THEOREM TypeCorrect == Spec => []TypeOK
<1>1. IInv => TypeOK
  BY DEF IInv
<1> QED BY <1>1, Inductive, PTL

\* A DRY_RUN and a disabled sniper send nothing: neither buys on one of the two
\* paths nor sells or burns.
THEOREM SendsOnlyLive == Spec => []OnlyLiveSends
<1>1. IInv => OnlyLiveSends
  BY DEF IInv
<1> QED BY <1>1, Inductive, PTL

\* No token is bought twice within the life of its entry.
THEOREM BuysOnce == Spec => NoDoubleBuy
<1>1. IInv /\ [Next]_vars =>
        [Send \/ (\E r \in WsolReads : SnipeRaydiumV4(r)) => thread.g.token \notin kept]_vars
  BY DEF IInv, NotYetBought, Send, SnipeRaydiumV4
<1> QED BY <1>1, Inductive, PTL DEF Spec, NoDoubleBuy

=============================================================================
