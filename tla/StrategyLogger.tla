--------------------------- MODULE StrategyLogger ---------------------------
(***************************************************************************)
(* strategy-logger/src: the log of opportunities, executions and snipes.   *)
(* Every thread hands its events to a bounded channel and never waits; the *)
(* pg-logger thread connects to PostgreSQL, prepares its statements and    *)
(* writes the events in batches.  A full channel drops the event, a failed *)
(* write loses it, and a lost connection is never made again.              *)
(*                                                                         *)
(* The rows refer to each other: an execution to the newest opportunity    *)
(* with the bundle's id, an outcome to the execution with its signature, a *)
(* sale to the newest event of its token.  The ids start at 1 again with   *)
(* every process (helios/src/main.rs:1263), while the tables stay.         *)
(***************************************************************************)
EXTENDS Naturals, Sequences, FiniteSets, SequencesExt

CONSTANTS Ids,        \* bundle ids of the route engine within one process
          FeedIds,    \* ids of the SQLite feed, disjoint from Ids; its bundles are not logged
          Snipes,     \* sniper events of one token, in the order they happen
          Rows,       \* candidates, discoveries, wallets ...: nothing refers to them
          Capacity,   \* CHANNEL_CAP
          BatchSize,  \* 128
          MaxStarts   \* bound: starts of the process

VARIABLES start,      \* which start of the process this is
          stage,      \* where the bundles of this process are
          sniped,     \* the snipes of this process: "new", "held" or "sold"
          logged,     \* the other rows this process has logged
          queue,      \* the channel
          batch,      \* the events the writer has taken
          writer,     \* the pg-logger thread
          connected,  \* the connection works
          dropped,    \* events counted as dropped
          sent,       \* history: events handed to log_* in this process
          settled,    \* history: events of this process written or failed
          opps, execs, events, \* the tables, in the order of their ids
          perf        \* pool_performance of the one pool all routes use

producers == <<start, stage, sniped, logged>>
tables == <<opps, execs, events, perf>>
vars == <<producers, queue, batch, writer, connected, dropped, sent, settled, tables>>

Bundles == Ids \cup FeedIds

Idle == [b \in Bundles |-> "new"]
Unsniped == [n \in Snipes |-> "new"]

Init == /\ start = 1 /\ stage = Idle /\ sniped = Unsniped /\ logged = {}
        /\ queue = <<>> /\ batch = <<>>
        /\ writer = "connecting" /\ connected = FALSE
        /\ dropped = 0 /\ sent = 0 /\ settled = 0
        /\ opps = <<>> /\ execs = <<>> /\ events = <<>>
        /\ perf = [opps |-> 0, landed |-> 0]

-----------------------------------------------------------------------------
(* The channel *)

Event(kind, of, what) == [kind |-> kind, start |-> start, of |-> of, what |-> what]

\* send: try_send; a full channel is counted, a closed one is not.
Send(e) ==
  /\ sent' = sent + 1
  /\ \/ writer = "dead" /\ UNCHANGED <<queue, dropped>>
     \/ writer # "dead" /\ Len(queue) < Capacity
        /\ queue' = Append(queue, e) /\ UNCHANGED dropped
     \/ writer # "dead" /\ Len(queue) >= Capacity
        /\ dropped' = dropped + 1 /\ UNCHANGED queue
  /\ UNCHANGED <<start, batch, writer, connected, settled, tables>>

\* The route engine logs a bundle, then hands it to the executor.
LogOpportunity(b) ==
  /\ b \in Ids /\ stage[b] = "new"
  /\ stage' = [stage EXCEPT ![b] = "handed"]
  /\ Send(Event("opportunity", b, "none"))
  /\ UNCHANGED <<sniped, logged>>

\* The SQLite feed hands its bundles over without logging them.
FeedBundle(b) ==
  /\ b \in FeedIds /\ stage[b] = "new"
  /\ stage' = [stage EXCEPT ![b] = "handed"]
  /\ UNCHANGED <<start, sniped, logged, queue, batch, writer, connected, dropped, sent,
                 settled, tables>>

\* The executor logs a send: with its signature on the fast path, without one
\* on the slow path.
LogExecution(b, path) ==
  /\ stage[b] = "handed"
  /\ stage' = [stage EXCEPT ![b] = path]
  /\ Send(Event("execution", b, path))
  /\ UNCHANGED <<sniped, logged>>

\* The send task reports the outcome, on the slow path under the bundle id.
UpdateExecution(b, outcome) ==
  /\ stage[b] \in {"fast", "slow"}
  /\ stage' = [stage EXCEPT ![b] = outcome]
  /\ Send(Event("update", b, <<stage[b], outcome>>))
  /\ UNCHANGED <<sniped, logged>>

\* ... and, when it has landed, counts it for the pools of the route.
UpdatePoolPerf(b) ==
  /\ stage[b] = "landed"
  /\ stage' = [stage EXCEPT ![b] = "counted"]
  /\ Send(Event("perf", b, "landed"))
  /\ UNCHANGED <<sniped, logged>>

\* log_route_candidate, log_pool_discovery, log_pool_snapshots, log_wallet_swap,
\* update_wallet, update_pattern.
LogRow(r) ==
  /\ r \notin logged
  /\ logged' = logged \cup {r}
  /\ Send(Event("row", r, "none"))
  /\ UNCHANGED <<stage, sniped>>

\* The sniper logs an event of the token; a later one may come before the sale
\* of an earlier, as auto_sell only runs while the runtime is driven.
LogSniper(n) ==
  /\ sniped[n] = "new" /\ \A m \in Snipes : m < n => sniped[m] # "new"
  /\ sniped' = [sniped EXCEPT ![n] = "held"]
  /\ Send(Event("snipe", n, "none"))
  /\ UNCHANGED <<stage, logged>>

UpdateSniperSell(n) ==
  /\ sniped[n] = "held"
  /\ sniped' = [sniped EXCEPT ![n] = "sold"]
  /\ Send(Event("sell", n, "none"))
  /\ UNCHANGED <<stage, logged>>

-----------------------------------------------------------------------------
(* The pg-logger thread *)

\* connect_with_retry: until a connection is made, with a growing delay.
Connect ==
  /\ writer = "connecting"
  /\ writer' = "preparing"
  /\ connected' = TRUE
  /\ UNCHANGED <<producers, queue, batch, dropped, sent, settled, tables>>

Prepare ==
  /\ writer = "preparing" /\ connected
  /\ writer' = "idle"
  /\ UNCHANGED <<producers, queue, batch, connected, dropped, sent, settled, tables>>

\* expect("prepare ..."): the thread ends, and the channel with it.
PrepareFails ==
  /\ writer = "preparing"
  /\ writer' = "dead"
  /\ queue' = <<>>
  /\ UNCHANGED <<producers, batch, connected, dropped, sent, settled, tables>>

ConnectionLost ==
  /\ connected
  /\ connected' = FALSE
  /\ UNCHANGED <<producers, queue, batch, writer, dropped, sent, settled, tables>>

\* recv_timeout, then try_recv until the batch is full.
TakeBatch ==
  /\ writer = "idle" /\ queue # <<>>
  /\ LET n == IF Len(queue) < BatchSize THEN Len(queue) ELSE BatchSize
     IN  /\ batch' = SubSeq(queue, 1, n)
         /\ queue' = SubSeq(queue, n + 1, Len(queue))
  /\ writer' = "writing"
  /\ UNCHANGED <<producers, connected, dropped, sent, settled, tables>>

\* The event is done with: written, or an error that is only logged.
NextEvent ==
  /\ batch' = Tail(batch)
  /\ settled' = settled + 1
  /\ writer' = IF batch' = <<>> THEN "idle" ELSE "writing"
  /\ UNCHANGED <<producers, queue, connected, dropped, sent>>

\* A statement fails for its own reasons or because the connection is gone.
WriteFails ==
  /\ writer \in {"writing", "hops"}
  /\ NextEvent
  /\ UNCHANGED tables

\* insert_opportunity: the row first, then its hops one by one.
InsertOpportunity ==
  /\ Head(batch).kind = "opportunity" /\ writer = "writing"
  /\ opps' = Append(opps, [start |-> Head(batch).start, id |-> Head(batch).of, hops |-> FALSE])
  /\ writer' = "hops"
  /\ UNCHANGED <<producers, queue, batch, connected, dropped, sent, settled, execs, events, perf>>

InsertHops ==
  /\ writer = "hops" /\ connected
  /\ opps' = [opps EXCEPT ![Len(opps)].hops = TRUE]
  /\ NextEvent
  /\ UNCHANGED <<execs, events, perf>>

\* Mutant: the oldest row with the id.
OldestOpportunity(id) ==
  LET hits == {i \in DOMAIN opps : opps[i].id = id}
  IN  IF hits = {} THEN 0 ELSE CHOOSE i \in hits : \A j \in hits : i <= j

\* SELECT id ... WHERE opp_id = $1 ORDER BY id DESC LIMIT 1, or NULL.
OpportunityOf(id) ==
  LET hits == {i \in DOMAIN opps : opps[i].id = id}
  IN  IF hits = {} THEN 0 ELSE CHOOSE i \in hits : \A j \in hits : j <= i

InsertExecution ==
  /\ Head(batch).kind = "execution"
  /\ execs' = Append(execs, [start |-> Head(batch).start, id |-> Head(batch).of,
                             opp |-> OpportunityOf(Head(batch).of),
                             path |-> Head(batch).what, outcome |-> "none"])
  /\ NextEvent
  /\ UNCHANGED <<opps, events, perf>>

\* WHERE tx_signature = $1: signatures are unique, and a slow execution has none.
WriteUpdate ==
  /\ Head(batch).kind = "update"
  /\ execs' = [i \in DOMAIN execs |->
                 IF /\ execs[i].start = Head(batch).start /\ execs[i].id = Head(batch).of
                    /\ execs[i].path = "fast" /\ Head(batch).what[1] = "fast"
                 THEN [execs[i] EXCEPT !.outcome = Head(batch).what[2]] ELSE execs[i]]
  /\ NextEvent
  /\ UNCHANGED <<opps, events, perf>>

InsertSniper ==
  /\ Head(batch).kind = "snipe"
  /\ events' = Append(events, [start |-> Head(batch).start, n |-> Head(batch).of, sale |-> <<>>])
  /\ NextEvent
  /\ UNCHANGED <<opps, execs, perf>>

\* WHERE id = (... token_mint = $1 ORDER BY created_at DESC LIMIT 1).
WriteSell ==
  /\ Head(batch).kind = "sell"
  /\ events' = IF events = <<>> THEN events
               ELSE [events EXCEPT ![Len(events)].sale = <<Head(batch).start, Head(batch).of>>]
  /\ NextEvent
  /\ UNCHANGED <<opps, execs, perf>>

\* total_opps and total_sent grow by one, total_landed if it landed.
UpsertPerf ==
  /\ Head(batch).kind = "perf"
  /\ perf' = [opps |-> perf.opps + 1,
              landed |-> perf.landed + (IF Head(batch).what = "landed" THEN 1 ELSE 0)]
  /\ NextEvent
  /\ UNCHANGED <<opps, execs, events>>

\* The other rows; their tables are left out.
InsertRow ==
  /\ Head(batch).kind = "row"
  /\ NextEvent
  /\ UNCHANGED tables

Write ==
  \/ writer = "writing" /\ connected
     /\ (InsertOpportunity \/ InsertExecution \/ WriteUpdate \/ InsertSniper \/ WriteSell
         \/ UpsertPerf \/ InsertRow)
  \/ InsertHops \/ WriteFails

\* The process is replaced: what was in memory is gone.
Restart ==
  /\ start < MaxStarts
  /\ start' = start + 1 /\ stage' = Idle /\ sniped' = Unsniped /\ logged' = {}
  /\ queue' = <<>> /\ batch' = <<>>
  /\ writer' = "connecting" /\ connected' = FALSE
  /\ dropped' = 0 /\ sent' = 0 /\ settled' = 0
  /\ UNCHANGED tables

Next ==
  \/ \E b \in Ids : LogOpportunity(b)
  \/ \E b \in FeedIds : FeedBundle(b)
  \/ \E b \in Bundles : \E path \in {"fast", "slow"} : LogExecution(b, path)
  \/ \E b \in Bundles : \E outcome \in {"landed", "failed"} : UpdateExecution(b, outcome)
  \/ \E b \in Bundles : UpdatePoolPerf(b)
  \/ \E r \in Rows : LogRow(r)
  \/ \E n \in Snipes : LogSniper(n) \/ UpdateSniperSell(n)
  \/ Connect \/ Prepare \/ PrepareFails \/ ConnectionLost \/ TakeBatch \/ Write
  \/ Restart

Spec == Init /\ [][Next]_vars

-----------------------------------------------------------------------------
(* Properties *)

Kinds == {"opportunity", "execution", "update", "perf", "row", "snipe", "sell"}

\* A batch is in hand exactly while the writer writes.
TypeOK ==
  /\ start \in 1 .. MaxStarts
  /\ stage \in [Bundles -> {"new", "handed", "fast", "slow", "landed", "failed",
                          "counted"}]
  /\ sniped \in [Snipes -> {"new", "held", "sold"}] /\ logged \subseteq Rows
  /\ Len(queue) <= Capacity /\ Len(batch) <= BatchSize
  /\ \A e \in Range(queue) \cup Range(batch) : e.kind \in Kinds /\ e.start = start
  /\ writer \in {"connecting", "preparing", "idle", "writing", "hops", "dead"}
  /\ (batch # <<>>) <=> writer \in {"writing", "hops"}
  /\ connected \in BOOLEAN /\ {dropped, sent, settled} \subseteq Nat
  /\ \A i \in DOMAIN execs : execs[i].opp \in 0 .. Len(opps)

\* "Number of events dropped due to backpressure": with the writer alive, every
\* event is in the channel, in the batch, settled by the writer, or counted as
\* dropped (send, dropped_count).
EventsAccounted ==
  writer # "dead" => sent = Len(queue) + Len(batch) + settled + dropped

\* The opportunity an execution is stored with is the one of its bundle
\* whenever that was written: its event came first through the same channel,
\* and older rows of the same id are those of earlier processes; when it was
\* dropped or failed, it is one of an earlier process (insert_execution).
LinkedWhenWritten ==
  \A e \in Range(execs) :
    (\E o \in Range(opps) : o.start = e.start /\ o.id = e.id)
      => e.opp > 0 /\ opps[e.opp].start = e.start /\ opps[e.opp].id = e.id

\* An outcome is the one of the send it is stored with, and the executions of
\* the slow path stay without (update_execution; executor/src/lib.rs:1200).
OutcomesOfSends ==
  \A e \in Range(execs) :
    e.outcome # "none" => /\ e.path = "fast"
                          /\ e.start = start =>
                               stage[e.id] \in {e.outcome} \cup
                                 (IF e.outcome = "landed" THEN {"counted"} ELSE {})

\* Only landings are counted, so the success rate the scorer loads at its next
\* start (total_landed / total_opps, ml-scorer/src/lib.rs:192) is that of a pool
\* that never failed, whatever happened (executor/src/lib.rs:715, 758, 1338).
OnlyLandingsCounted == perf.opps = perf.landed

\* A sale is on the row of its own snipe unless that row is missing or a newer
\* event of the token came between (update_sniper_sell).
SalesPlaced ==
  \A i \in DOMAIN events :
    events[i].sale # <<>> =>
      \A j \in DOMAIN events :
        <<events[j].start, events[j].n>> = events[i].sale => j <= i

\* What the models are trained on is what happened: no event is lost without
\* being counted, and the rows that refer to each other belong together.
LogIsTrue ==
  /\ EventsAccounted /\ LinkedWhenWritten /\ OutcomesOfSends
  /\ OnlyLandingsCounted /\ SalesPlaced
=============================================================================
