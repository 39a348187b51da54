------------------------------ MODULE Executor ------------------------------
(***************************************************************************)
(* executor/src/lib.rs: the executor thread takes opportunities from the   *)
(* channel, skips routes in cooldown (route_dedup), and either sends       *)
(* blindly (FAST_ARB) or builds, simulates and sends.  A send is a tokio   *)
(* task that hands the transaction to its channels, polls its status and   *)
(* writes the outcome back to route_dedup, the ML scorer and the           *)
(* execution log.  A successful simulation in DRY_RUN rewrites the         *)
(* environment file and restarts the service.                              *)
(*                                                                         *)
(* Durations are the constants of the code on a coarser clock.             *)
(***************************************************************************)
EXTENDS Naturals, FiniteSets

CONSTANTS Routes,       \* (first pool, last pool) of an opportunity
          Sends,        \* send tasks of a run
          Configs,      \* FAST_ARB, JITO_ONLY and DRY_RUN of the environment
          Cooldown,     \* ROUTE_DEDUP_COOLDOWN and the other 2 s entries
          Requote,      \* 1 s after a re-quote below min_profit
          Blacklist,    \* 300 s after a build or simulation miss
          BackoffUnit,  \* 10 s, doubled per failure ...
          BackoffCap,   \* ... up to 300 s
          RetainWindow, \* FAILURE_BACKOFF_MAX, 5 s
          DedupCap,     \* 1000 entries of route_dedup
          NumPolls,     \* 20 status polls
          MaxFailures,  \* bound: failures counted per route
          MaxClock,     \* bound: seconds of a run
          None

ASSUME DurationAssumption ==
  /\ Cooldown \in Nat \ {0} /\ Requote \in Nat \ {0} /\ Blacklist \in Nat
  /\ BackoffUnit \in Nat /\ BackoffCap \in Nat
  /\ RetainWindow \in Nat /\ Cooldown <= RetainWindow
  /\ Cooldown <= Blacklist /\ Cooldown <= BackoffUnit /\ Cooldown <= BackoffCap
ASSUME BoundAssumption ==
  /\ DedupCap \in Nat /\ NumPolls \in Nat \ {0}
  /\ MaxFailures \in Nat /\ MaxClock \in Nat
  /\ None \notin Routes /\ Sends \subseteq Nat
  /\ Configs \subseteq [fast : BOOLEAN, jitoOnly : BOOLEAN, dry : BOOLEAN]

VARIABLES clock,
          env,       \* DRY_RUN in /etc/helios/helios.env
          proc,      \* FAST_ARB, JITO_ONLY and dry_run of the running process
          restart,   \* systemctl restart was spawned
          hasHash,   \* cached_blockhash is set (bh-refresh thread)
          dedup,     \* route_dedup; cool = 0 stands for no entry
          pc, cur,   \* the executor thread and the opportunity it works on
          task,      \* the send tasks
          wire,      \* history: what was handed to which kind of channel
          sentAt,    \* history: `now` of the last sent opportunity of each route
          missed,    \* history: how long each route is blacklisted
          evicted,   \* history: routes whose entry retain has dropped
          failures,  \* history: failures counted for each route
          simPassed, \* history: a simulation has succeeded
          bornDry    \* history: the service was first started in DRY_RUN

vars == <<clock, env, proc, restart, hasHash, dedup, pc, cur, task,
          wire, sentAt, missed, evicted, failures, simPassed, bornDry>>

thread == <<pc, cur>>
config == <<clock, env, proc, restart>>
history == <<sentAt, missed, evicted, failures, simPassed, bornDry>>

NoEntry == [at |-> 0, cool |-> 0, failures |-> 0]

Entry(at, cool, f) == [at |-> at, cool |-> cool, failures |-> f]

Nothing == [route |-> None, now |-> 0, failures |-> 0]

NoTask == [route |-> None, failures |-> 0, path |-> "none", pc |-> "none",
           polls |-> 0, chain |-> "unseen", record |-> "none"]

Init == /\ clock = 1
        /\ proc \in Configs
        /\ env = IF proc.dry THEN "dry" ELSE "live"
        /\ restart = FALSE
        /\ hasHash = FALSE
        /\ dedup = [r \in Routes |-> NoEntry]
        /\ pc = "idle"
        /\ cur = Nothing
        /\ task = [i \in Sends |-> NoTask]
        /\ wire = {}
        /\ sentAt = [r \in Routes |-> 0]
        /\ missed = [r \in Routes |-> 0]
        /\ evicted = {}
        /\ failures = [r \in Routes |-> 0]
        /\ simPassed = FALSE
        /\ bornDry = proc.dry

-----------------------------------------------------------------------------
(* The executor thread *)

Tick == /\ clock < MaxClock
        /\ clock' = clock + 1
        /\ UNCHANGED <<env, proc, restart, hasHash, dedup, thread, task,
                       wire, history>>

\* bh-refresh stores the first blockhash; later ones replace it.
BhRefresh == /\ ~hasHash
             /\ hasHash' = TRUE
             /\ UNCHANGED <<config, dedup, thread, task, wire, history>>

InCooldown(e, now) == now < e.at + e.cool

\* The cooldown test of a received opportunity; one in cooldown is dropped.
Check(r) ==
  /\ pc = "idle"
  /\ ~InCooldown(dedup[r], clock)
  /\ failures[r] < MaxFailures
  /\ pc' = "read"
  /\ cur' = [route |-> r, now |-> clock, failures |-> 0]
  /\ UNCHANGED <<config, hasHash, dedup, task, wire, history>>

\* A second get reads the failure count; a send task may have written between.
ReadFailures ==
  /\ pc = "read"
  /\ cur' = [cur EXCEPT !.failures = dedup[cur.route].failures]
  /\ pc' = "claim"
  /\ UNCHANGED <<config, hasHash, dedup, task, wire, history>>

Size(d) == Cardinality({r \in Routes : d[r].cool > 0})

\* Mutant: the map is cleared when it is full.
DroppedAll(d, now) == {r \in Routes : Size(d) > DedupCap /\ d[r].cool > 0}

\* The entries retain drops once the map holds more than 1000.
Dropped(d, now) ==
  {r \in Routes : Size(d) > DedupCap /\ d[r].cool > 0 /\ ~(now < d[r].at + RetainWindow)}

\* The route is claimed for Cooldown and the map is trimmed; a profit below
\* min_profit ends it.
Claim ==
  LET d == [dedup EXCEPT ![cur.route] = Entry(cur.now, Cooldown, cur.failures)]
      gone == Dropped(d, cur.now)
  IN /\ pc = "claim"
     /\ dedup' = [r \in Routes |-> IF r \in gone THEN NoEntry ELSE d[r]]
     /\ evicted' = evicted \cup gone
     /\ pc' \in {"idle", IF proc.fast /\ ~proc.dry THEN "fast" ELSE "slow"}
     /\ cur' = IF pc' = "idle" THEN Nothing ELSE cur
     /\ UNCHANGED <<config, hasHash, task, wire, sentAt, missed, failures, simPassed, bornDry>>

\* `continue`: the thread takes the next opportunity.
Continue == pc' = "idle" /\ cur' = Nothing

\* Mutant: every postponed opportunity counts as a failure.
PostponeCounting(cool, failed) ==
  /\ dedup' = [dedup EXCEPT ![cur.route] = Entry(cur.now, cool, cur.failures + 1)]
  /\ failures' = [failures EXCEPT ![cur.route] = @ + (IF failed THEN 1 ELSE 0)]
  /\ Continue

\* `continue` after an insert of (now, cool, prev_failures [+ 1]).
Postpone(cool, failed) ==
  /\ dedup' = [dedup EXCEPT ![cur.route] =
                 Entry(cur.now, cool, cur.failures + (IF failed THEN 1 ELSE 0))]
  /\ failures' = [failures EXCEPT ![cur.route] = @ + (IF failed THEN 1 ELSE 0)]
  /\ Continue

-----------------------------------------------------------------------------
(* FAST_ARB: re-quote, build once, send blindly *)

\* The re-quoted profit is below min_profit.
FastUnprofitable ==
  /\ pc = "fast"
  /\ Postpone(Requote, TRUE)
  /\ UNCHANGED <<config, hasHash, task, wire, sentAt, missed,
                 evicted, simPassed, bornDry>>

\* Neither a shred-derived nor a cached blockhash.
FastNoBlockhash ==
  /\ pc = "fast"
  /\ ~hasHash
  /\ Continue
  /\ UNCHANGED <<config, hasHash, dedup, task, wire, history>>

\* The direct and the CPI build fail, or (counted as a failure) the transaction
\* is larger than a packet.
FastBuildFails ==
  /\ pc = "fast"
  /\ \E oversized \in BOOLEAN : Postpone(Cooldown, oversized)
  /\ UNCHANGED <<config, hasHash, task, wire, sentAt, missed,
                 evicted, simPassed, bornDry>>

\* A new task for the current opportunity.
Spawn(i, path) ==
  /\ task[i] = NoTask
  /\ \A j \in Sends : j < i => task[j] # NoTask
  /\ sentAt' = [sentAt EXCEPT ![cur.route] = cur.now]
  /\ task' = [task EXCEPT ![i] = [NoTask EXCEPT !.route = cur.route, !.path = path,
                                  !.failures = cur.failures, !.pc = "send"]]

Trade(via) == [kind |-> "trade", via |-> via]

\* Phase 1 (JetSender, not in JITO_ONLY), then the task for phases 2 and 3.
FastSend(i) ==
  /\ pc = "fast"
  /\ Spawn(i, "fast")
  /\ wire' = wire \cup {Trade(v) : v \in IF proc.jitoOnly THEN {} ELSE {"tpu"}}
  /\ Continue
  /\ UNCHANGED <<config, hasHash, dedup, missed, evicted, failures,
                 simPassed, bornDry>>

-----------------------------------------------------------------------------
(* The slow path: token accounts, build, simulate, send *)

SlowNoBlockhash ==
  /\ pc = "slow"
  /\ ~hasHash
  /\ Continue
  /\ UNCHANGED <<config, hasHash, dedup, task, wire, history>>

\* ensure_route_atas: unless the token accounts are in known_atas or exist, and
\* not in DRY_RUN, a creation transaction goes out by plain sendTransaction; any
\* error is only logged.  Which accounts exist or are cached is left open.
EnsureRouteAtas ==
  /\ pc = "slow"
  /\ hasHash
  /\ wire' \in {wire} \cup IF proc.dry THEN {} ELSE {wire \cup {[kind |-> "ata", via |-> "rpc"]}}
  /\ pc' = "build"
  /\ UNCHANGED <<config, hasHash, dedup, cur, task, history>>

\* Mutant: the blacklist entry is written with the ordinary cooldown.
MissShort ==
  /\ pc = "build"
  /\ Postpone(Cooldown, TRUE)
  /\ missed' = [missed EXCEPT ![cur.route] = cur.now + Blacklist]
  /\ evicted' = evicted \ {cur.route}
  /\ UNCHANGED <<config, hasHash, task, wire, sentAt, simPassed, bornDry>>

\* No provider yields a transaction that fits a packet, or all simulations
\* fail: "blacklisted 5min".
Miss ==
  /\ pc = "build"
  /\ Postpone(Blacklist, TRUE)
  /\ missed' = [missed EXCEPT ![cur.route] = cur.now + Blacklist]
  /\ evicted' = evicted \ {cur.route}
  /\ UNCHANGED <<config, hasHash, task, wire, sentAt, simPassed, bornDry>>

\* Preflight rejects every candidate.
PreflightRejects ==
  /\ pc = "build"
  /\ Continue
  /\ UNCHANGED <<config, hasHash, dedup, task, wire, history>>

\* One provider passes; its transaction is rebuilt with real slippage and tip.
SimulationPasses ==
  /\ pc = "build"
  /\ simPassed' = TRUE
  /\ pc' = "rebuilt"
  /\ UNCHANGED <<config, hasHash, dedup, cur, task, wire,
                 sentAt, missed, evicted, failures, bornDry>>

\* A passed simulation whose rebuild fails.
RebuildFails ==
  /\ pc = "rebuilt"
  /\ Continue
  /\ UNCHANGED <<config, hasHash, dedup, task, wire, history>>

\* DRY_RUN: flip_to_live writes DRY_RUN=false and asks systemd for a restart;
\* an unreadable or unwritable file leaves both as they are.
FlipToLive ==
  /\ pc = "rebuilt"
  /\ proc.dry
  /\ \/ env' = "live" /\ restart' = TRUE
     \/ UNCHANGED <<env, restart>>
  /\ Continue
  /\ UNCHANGED <<clock, proc, hasHash, dedup, task, wire, history>>

SlowSend(i) ==
  /\ pc = "rebuilt"
  /\ ~proc.dry
  /\ Spawn(i, "slow")
  /\ Continue
  /\ UNCHANGED <<config, hasHash, dedup, wire, missed, evicted, failures,
                 simPassed, bornDry>>

\* systemd replaces the process: memory and running tasks are gone.
Restart ==
  /\ restart
  /\ restart' = FALSE
  /\ proc' = [proc EXCEPT !.dry = (env = "dry")]
  /\ hasHash' = FALSE
  /\ dedup' = [r \in Routes |-> NoEntry]
  /\ Continue
  /\ task' = [i \in Sends |-> IF task[i].pc \in {"send", "poll"}
                              THEN [task[i] EXCEPT !.pc = "lost"] ELSE task[i]]
  /\ sentAt' = [r \in Routes |-> 0]
  /\ missed' = [r \in Routes |-> 0]
  /\ evicted' = {}
  /\ failures' = [r \in Routes |-> 0]
  /\ UNCHANGED <<clock, env, wire, simPassed, bornDry>>

-----------------------------------------------------------------------------
(* The send tasks *)

At(i, path, p) == task[i].path = path /\ task[i].pc = p

\* Mutant: the JITO_ONLY test is missing.
TurboEndpointsAll == {"bundle", "rpc"}

\* Endpoints send_turbo uses: bundle endpoints, and RPCs unless JITO_ONLY.
TurboEndpoints == {"bundle"} \cup (IF proc.jitoOnly THEN {} ELSE {"rpc"})

\* send_turbo returns Ok however many endpoints failed: the Jito fallback of its
\* Err branch (a serialisation error) is not reached for a transaction that was
\* serialised before.
TurboSend(i) ==
  /\ At(i, "fast", "send")
  /\ task' = [task EXCEPT ![i].pc = "poll"]
  /\ wire' = wire \cup {Trade(v) : v \in TurboEndpoints}
  /\ UNCHANGED <<config, hasHash, dedup, thread, history>>

\* Jito in all regions, and TPU and the RPC senders unless JITO_ONLY; a Jito
\* error ends the task and records nothing.
SlowDeliver(i) ==
  /\ At(i, "slow", "send")
  /\ \E p \in {"poll", "done"} : task' = [task EXCEPT ![i].pc = p]
  /\ wire' = wire \cup {Trade(v) : v \in {"bundle"} \cup
                                     IF proc.jitoOnly THEN {} ELSE {"tpu", "rpc"}}
  /\ UNCHANGED <<config, hasHash, dedup, thread, history>>

\* The transaction executes on chain while it is polled (a later execution is
\* not seen by the program: nothing reads it any more).
Execute(i, result) ==
  /\ task[i].pc = "poll"
  /\ task[i].chain = "unseen"
  /\ task' = [task EXCEPT ![i].chain = result]
  /\ UNCHANGED <<config, hasHash, dedup, thread, wire, history>>

Backoff(f) ==
  LET b == BackoffUnit * 2 ^ (IF f < 5 THEN f ELSE 5)
  IN IF b < BackoffCap THEN b ELSE BackoffCap

Finish(i, record) == task' = [task EXCEPT ![i].pc = "done", ![i].record = record]

\* A fast task sees an error on chain: it writes the backoff with the failure
\* count its opportunity had read, and records the failure.
FastSeesFailure(i) ==
  LET f == task[i].failures + 1
  IN /\ At(i, "fast", "poll")
     /\ task[i].chain = "failed"
     /\ dedup' = [dedup EXCEPT ![task[i].route] = Entry(clock, Backoff(f), f)]
     /\ failures' = [failures EXCEPT ![task[i].route] = @ + 1]
     /\ Finish(i, "failed")
     /\ UNCHANGED <<config, hasHash, thread, wire, sentAt, missed,
                    evicted, simPassed, bornDry>>

\* A slow task only records it.
SlowSeesFailure(i) ==
  /\ At(i, "slow", "poll")
  /\ task[i].chain = "failed"
  /\ Finish(i, "failed")
  /\ UNCHANGED <<config, hasHash, dedup, thread, wire, history>>

SeesLanded(i) ==
  /\ task[i].pc = "poll"
  /\ task[i].chain = "landed"
  /\ Finish(i, "landed")
  /\ UNCHANGED <<config, hasHash, dedup, thread, wire, history>>

\* Mutant: polling goes on until the signature is seen.
PollNothingForever(i) ==
  /\ task[i].pc = "poll"
  /\ task' = [task EXCEPT ![i].polls = 0]
  /\ UNCHANGED <<config, hasHash, dedup, thread, wire, history>>

\* Mutant: one poll too many.
PollNothingOnceMore(i) ==
  /\ task[i].pc = "poll"
  /\ IF task[i].polls < NumPolls
     THEN task' = [task EXCEPT ![i].polls = @ + 1]
     ELSE Finish(i, IF task[i].path = "fast" THEN "expired" ELSE "none")
  /\ UNCHANGED <<config, hasHash, dedup, thread, wire, history>>

\* A poll without answer; the last one ends a fast task with an "expired"
\* record, a slow one without any.
PollNothing(i) ==
  /\ task[i].pc = "poll"
  /\ IF task[i].polls + 1 < NumPolls
     THEN task' = [task EXCEPT ![i].polls = @ + 1]
     ELSE Finish(i, IF task[i].path = "fast" THEN "expired" ELSE "none")
  /\ UNCHANGED <<config, hasHash, dedup, thread, wire, history>>

ExecutorNext ==
  \/ \E r \in Routes : Check(r)
  \/ ReadFailures \/ Claim
  \/ FastUnprofitable \/ FastNoBlockhash \/ FastBuildFails
  \/ SlowNoBlockhash \/ EnsureRouteAtas \/ Miss \/ PreflightRejects
  \/ SimulationPasses \/ RebuildFails \/ FlipToLive
  \/ \E i \in Sends : FastSend(i) \/ SlowSend(i)

TaskNext(i) == \/ TurboSend(i) \/ SlowDeliver(i) \/ FastSeesFailure(i)
               \/ SlowSeesFailure(i) \/ SeesLanded(i) \/ PollNothing(i)

Next == \/ Tick \/ BhRefresh \/ ExecutorNext \/ Restart
        \/ \E i \in Sends : TaskNext(i) \/ Execute(i, "failed") \/ Execute(i, "landed")

\* The runtime polls every task: the sends and the polls have HTTP timeouts.
Spec == Init /\ [][Next]_vars /\ \A i \in Sends : WF_vars(TaskNext(i))

-----------------------------------------------------------------------------
(* Properties *)

\* A task never polls more than NumPolls times, and the thread only works on
\* a route it has taken from the channel.
TypeOK ==
  /\ clock \in Nat
  /\ env \in {"dry", "live"}
  /\ proc \in [fast : BOOLEAN, jitoOnly : BOOLEAN, dry : BOOLEAN]
  /\ restart \in BOOLEAN /\ hasHash \in BOOLEAN /\ simPassed \in BOOLEAN
  /\ bornDry \in BOOLEAN
  /\ dedup \in [Routes -> [at : Nat, cool : Nat, failures : Nat]]
  /\ pc \in {"idle", "read", "claim", "fast", "slow", "build", "rebuilt"}
  /\ cur \in [route : Routes \cup {None}, now : Nat, failures : Nat]
  /\ (pc # "idle") => cur.route \in Routes
  /\ task \in [Sends -> [route : Routes \cup {None}, failures : Nat,
                         path : {"none", "fast", "slow"},
                         pc : {"none", "send", "poll", "done", "lost"},
                         polls : 0 .. NumPolls - 1,
                         chain : {"unseen", "failed", "landed"},
                         record : {"none", "failed", "landed", "expired"}]]
  /\ wire \subseteq [kind : {"trade", "ata"}, via : {"bundle", "tpu", "rpc"}]
  /\ sentAt \in [Routes -> Nat] /\ missed \in [Routes -> Nat]
  /\ failures \in [Routes -> Nat]
  /\ evicted \subseteq Routes

\* The thread starts to work on an opportunity.
Starts == pc = "claim" /\ pc' # "claim"

\* The burst guard of route_dedup: whatever retain drops and send tasks write
\* meanwhile, after a send of a route no opportunity of it is started until
\* Cooldown has passed since the sent one was taken from the channel.
SendsSpaced ==
  [][Starts /\ sentAt[cur.route] > 0 => cur.now >= sentAt[cur.route] + Cooldown]_vars

\* Send tasks write back counts that are out of date, so failures get lost; but
\* the backoff never grows by failures that did not happen.
FailuresNotInvented ==
  \A r \in Routes : dedup[r].failures <= failures[r]

\* A missed route is not started again within 5 minutes, unless retain dropped
\* its entry.
BlacklistUntilEvicted ==
  [][Starts /\ cur.route \notin evicted => cur.now >= missed[cur.route]]_vars

\* A landed record is of a transaction that landed, a failed one of one that
\* failed: the outcome fed to the ML scorer and the log is never the opposite.
RecordsTrue ==
  \A i \in Sends : /\ task[i].record = "landed" => task[i].chain = "landed"
                   /\ task[i].record = "failed" => task[i].chain = "failed"

\* What the bot learns from its sends is what happened: neither the backoff nor
\* the records know of an outcome that was another one.
OutcomesTrue == FailuresNotInvented /\ RecordsTrue

\* In JITO_ONLY mode no trade leaves through a channel that charges for a
\* failed transaction, on either path.
JitoOnlyTrades ==
  proc.jitoOnly => \A w \in wire : w.kind = "trade" => w.via = "bundle"

\* A service first started in DRY_RUN hands nothing to any channel before a
\* simulation has passed, whatever restarts the flip causes.
LiveAfterSimulation ==
  bornDry /\ (wire # {} \/ \E i \in Sends : task[i] # NoTask) => simPassed

\* Every blind send gets exactly one outcome in the log and the scorer, unless
\* the process is replaced first.
FastSendsRecorded ==
  \A i \in Sends : (task[i].path = "fast") ~>
                     (task[i].record # "none" \/ task[i].pc = "lost")

\* The mode of the environment holds for every channel: a forgotten test on one
\* of the paths would charge for failed trades or send from a dry run.
ModesKept == JitoOnlyTrades /\ LiveAfterSimulation

\* What the miss messages say: "blacklisted 5min".
BlacklistHonoured ==
  [][Starts => cur.now >= missed[cur.route]]_vars
=============================================================================
