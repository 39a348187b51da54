------------------------ MODULE StrategyLoggerProofs ------------------------
(***************************************************************************)
(* TLAPS proof that the strategy log tells the truth, for any bundles,     *)
(* snipes and other rows, any capacity of the channel, any batch size and  *)
(* any number of processes: no event is lost without being counted, and    *)
(* rows that refer to each other belong together.                          *)
(*                                                                         *)
(* The argument follows what waits for its statement, the batch and then   *)
(* the channel (Pending).  A sender only adds to its end and the writer    *)
(* only takes from its front, so two events about one bundle or one snipe  *)
(* are written in the order they were sent, whatever is lost between.      *)
(***************************************************************************)
EXTENDS MCOutcomes, SequenceTheorems, WellFoundedInduction, TLAPS

\* What an event of each kind is about.
Events == {e \in [kind : Log!Kinds, start : 1 .. MaxStarts, of : Log!Bundles \cup Snipes \cup Rows,
                  what : {"none", "fast", "slow", "landed"}
                           \cup ({"fast", "slow"} \X {"landed", "failed"})] :
             /\ e.kind = "opportunity" => e.of \in Ids
             /\ e.kind = "execution" => e.of \in Log!Bundles /\ e.what \in {"fast", "slow"}
             /\ e.kind = "update" => e.of \in Log!Bundles
                                     /\ e.what \in {"fast", "slow"} \X {"landed", "failed"}
             /\ e.kind \in {"snipe", "sell"} => e.of \in Snipes}

Opps == [start : 1 .. MaxStarts, id : Ids, hops : BOOLEAN]
Execs == [start : 1 .. MaxStarts, id : Log!Bundles, opp : Nat, path : {"fast", "slow"},
          outcome : {"none", "landed", "failed"}]
Sales == [start : 1 .. MaxStarts, n : Snipes,
          sale : {<<>>} \cup ((1 .. MaxStarts) \X Snipes)]

ProducerType ==
  /\ start \in 1 .. MaxStarts
  /\ stage \in [Log!Bundles -> {"new", "handed", "fast", "slow", "landed", "failed", "counted"}]
  /\ sniped \in [Snipes -> {"new", "held", "sold"}] /\ logged \subseteq Rows

ChannelType ==
  /\ queue \in Seq(Events) /\ batch \in Seq(Events)
  /\ Len(queue) <= Capacity /\ Len(batch) <= BatchSize
  /\ \A i \in 1 .. Len(queue) : queue[i].start = start
  /\ \A i \in 1 .. Len(batch) : batch[i].start = start
  /\ writer \in {"connecting", "preparing", "idle", "writing", "hops", "dead"}
  /\ (batch # <<>>) <=> writer \in {"writing", "hops"}
  /\ connected \in BOOLEAN /\ dropped \in Nat /\ sent \in Nat /\ settled \in Nat

TableType ==
  /\ opps \in Seq(Opps) /\ execs \in Seq(Execs) /\ events \in Seq(Sales)
  /\ perf \in [opps : Nat, landed : Nat]
  /\ writer = "hops" => opps # <<>>
  /\ \A i \in 1 .. Len(opps) : opps[i].start <= start
  /\ \A i \in 1 .. Len(execs) : execs[i].start <= start /\ execs[i].opp <= Len(opps)
  /\ \A i \in 1 .. Len(events) : events[i].start <= start
                                 /\ (events[i].sale # <<>> => events[i].sale[1] <= start)

LogType == ProducerType /\ ChannelType /\ TableType

\* Everything that waits for its statement, in the order it was sent.
Pending == batch \o queue

\* A step that sends e, or drops it.
Grows(e) == \A i \in DOMAIN Pending' :
              \/ i \in DOMAIN Pending /\ Pending'[i] = Pending[i]
              \/ Pending'[i] = e /\ \A j \in DOMAIN Pending : j < i

\* A step of the writer: what waits afterwards is what waited, or all but the
\* first of it, or nothing.
Shrinks == /\ DOMAIN Pending' \subseteq Nat
           /\ \E d \in {0, 1} : \A i \in DOMAIN Pending' :
                i + d \in DOMAIN Pending /\ Pending'[i] = Pending[i + d]

Waiting(k, x) == \E i \in DOMAIN Pending : Pending[i].kind = k /\ Pending[i].of = x

\* No event of kind k waits behind one of kind l about the same thing.
Ahead(k, l) == \A i, j \in DOMAIN Pending :
                 (Pending[i].kind = k /\ Pending[j].kind = l /\ Pending[i].of = Pending[j].of)
                   => i < j

-----------------------------------------------------------------------------
\* A set of numbers up to n has a greatest one.
LEMMA GreatestNumber ==
  ASSUME NEW n \in Nat, NEW S \in SUBSET (1 .. n), S # {}
  PROVE  \E i \in S : \A j \in S : j <= i
<1> DEFINE T == {n - i : i \in S}
<1>1. T \subseteq Nat
  <2> SUFFICES ASSUME NEW i \in S PROVE n - i \in Nat
    OBVIOUS
  <2> QED OBVIOUS
<1>2. PICK k \in S : TRUE
  OBVIOUS
<1>3. n - k \in T
  BY <1>2
<1>4. PICK x \in T : \A y \in T : ~(<<y, x>> \in OpToRel(<, Nat))
  <2> HIDE DEF T
  <2> QED BY <1>1, <1>3, NatLessThanWellFounded, WFMin
<1>5. \A y \in T : ~(y < x)
  <2> HIDE DEF T
  <2> QED BY <1>1, <1>4 DEF OpToRel
<1>6. PICK i \in S : x = n - i
  BY <1>4
<1>7. ASSUME NEW j \in S PROVE j <= i
  <2>1. ~(n - j < n - i)
    BY <1>5, <1>6
  <2> QED BY <2>1
<1> QED BY <1>7

\* What waits has the indexes of the batch, then those of the queue.
LEMMA PendingIs ==
  ASSUME LogType
  PROVE  /\ Pending \in Seq(Events) /\ DOMAIN Pending = 1 .. (Len(batch) + Len(queue))
         /\ \A i \in 1 .. Len(batch) : Pending[i] = batch[i]
         /\ \A i \in 1 .. Len(queue) : Pending[Len(batch) + i] = queue[i]
         /\ \A i \in DOMAIN Pending : Pending[i] \in Events /\ Pending[i].start = start
<1>1. queue \in Seq(Events) /\ batch \in Seq(Events)
  BY DEF LogType, ChannelType
<1>2. Pending \in Seq(Events) /\ Len(Pending) = Len(batch) + Len(queue)
  BY <1>1 DEF Pending
<1>3. \A i \in 1 .. Len(Pending) :
        Pending[i] = IF i <= Len(batch) THEN batch[i] ELSE queue[i - Len(batch)]
  BY <1>1 DEF Pending
<1>4. DOMAIN Pending = 1 .. (Len(batch) + Len(queue))
  BY <1>2
<1>5. \A i \in DOMAIN Pending : Pending[i] \in Events /\ Pending[i].start = start
  <2> SUFFICES ASSUME NEW i \in DOMAIN Pending
               PROVE  Pending[i] \in Events /\ Pending[i].start = start
    OBVIOUS
  <2>1. CASE i <= Len(batch)
    BY <1>1, <1>2, <1>3, <1>4, <2>1 DEF LogType, ChannelType
  <2>2. CASE i > Len(batch)
    <3>1. i - Len(batch) \in 1 .. Len(queue)
      BY <1>1, <1>4, <2>2
    <3> QED BY <1>1, <1>2, <1>3, <1>4, <2>2, <3>1 DEF LogType, ChannelType
  <2> QED BY <1>1, <1>4, <2>1, <2>2
<1>6. \A i \in 1 .. Len(batch) : Pending[i] = batch[i]
  BY <1>1, <1>2, <1>3
<1>7. \A i \in 1 .. Len(queue) : Pending[Len(batch) + i] = queue[i]
  BY <1>1, <1>2, <1>3
<1> QED BY <1>2, <1>4, <1>5, <1>6, <1>7

\* A sent event waits last, if at all.
LEMMA SendGrows ==
  ASSUME LogType, NEW e \in Events, e.start = start, Log!Send(e)
  PROVE  /\ Grows(e) /\ ChannelType'
         /\ UNCHANGED <<start, batch, writer, connected, settled, Log!tables>>
         /\ sent' = sent + 1
<1>1. UNCHANGED <<start, batch, writer, connected, settled, Log!tables>> /\ sent' = sent + 1
  BY DEF Log!Send
<1>2. \/ queue' = queue /\ dropped' \in {dropped, dropped + 1}
      \/ queue' = Append(queue, e) /\ dropped' = dropped /\ Len(queue) < Capacity
  BY DEF Log!Send
<1>3. queue \in Seq(Events) /\ batch \in Seq(Events) /\ dropped \in Nat /\ sent \in Nat
  BY DEF LogType, ChannelType
<1>4. CASE queue' = queue /\ dropped' \in {dropped, dropped + 1}
  <2>1. Pending' = Pending
    BY <1>1, <1>4 DEF Pending
  <2>2. ChannelType'
    BY <1>1, <1>3, <1>4 DEF LogType, ChannelType
  <2> QED BY <1>1, <2>1, <2>2 DEF Grows
<1>5. CASE queue' = Append(queue, e) /\ dropped' = dropped /\ Len(queue) < Capacity
  <2>1. /\ queue' \in Seq(Events) /\ Len(queue') = Len(queue) + 1
        /\ \A i \in 1 .. Len(queue) : queue'[i] = queue[i]
        /\ queue'[Len(queue) + 1] = e
    BY <1>3, <1>5
  <2>2. \A i \in 1 .. Len(queue') : queue'[i].start = start
    BY <1>3, <2>1 DEF LogType, ChannelType
  <2>3. ChannelType'
    BY <1>1, <1>3, <1>5, <2>1, <2>2, LogAssumption DEF LogType, ChannelType
  <2>4. Pending' = Append(Pending, e)
    BY <1>1, <1>3, <1>5 DEF Pending
  <2>5. Pending \in Seq(Events)
    BY PendingIs
  <2>6. Grows(e)
    BY <2>4, <2>5 DEF Grows
  <2> QED BY <1>1, <2>3, <2>6
<1> QED BY <1>2, <1>4, <1>5

\* The writer is done with the first event that waits.
LEMMA NextShrinks ==
  ASSUME LogType, writer \in {"writing", "hops"}, Log!NextEvent
  PROVE  /\ Shrinks /\ ChannelType'
         /\ 1 \in DOMAIN Pending /\ Pending[1] = Head(batch)
         /\ Head(batch) \in Events /\ Head(batch).start = start
         /\ UNCHANGED <<Log!producers, queue, connected, dropped, sent>>
         /\ settled' = settled + 1 /\ Len(batch') = Len(batch) - 1 /\ writer' # "hops"
<1>1. /\ queue \in Seq(Events) /\ batch \in Seq(Events) /\ batch # <<>>
      /\ settled \in Nat
  BY DEF LogType, ChannelType
<1>2. /\ batch' = Tail(batch) /\ settled' = settled + 1
      /\ writer' = IF batch' = <<>> THEN "idle" ELSE "writing"
      /\ UNCHANGED <<Log!producers, queue, connected, dropped, sent>>
  BY DEF Log!NextEvent
<1>3. /\ Len(batch) \in Nat \ {0} /\ batch' \in Seq(Events) /\ Len(batch') = Len(batch) - 1
      /\ \A i \in 1 .. Len(batch') : batch'[i] = batch[i + 1]
      /\ Head(batch) = batch[1]
  BY <1>1, <1>2
<1>4. Head(batch) \in Events /\ Head(batch).start = start
  BY <1>1, <1>3 DEF LogType, ChannelType
<1>5. 1 \in DOMAIN Pending /\ Pending[1] = Head(batch)
  BY <1>1, <1>3, PendingIs
<1>6. Pending' = Tail(Pending)
  BY <1>1, <1>2 DEF Pending
<1>7. Shrinks
  <2>1. Pending \in Seq(Events) /\ Pending # <<>>
    BY <1>5, PendingIs
  <2>2. \A i \in DOMAIN Pending' : i + 1 \in DOMAIN Pending /\ Pending'[i] = Pending[i + 1]
    BY <1>6, <2>1
  <2>3. DOMAIN Pending' \subseteq Nat
    BY <1>6, <2>1
  <2> QED BY <2>2, <2>3 DEF Shrinks
<1>8. \A i \in 1 .. Len(batch') : batch'[i].start = start'
  BY <1>2, <1>3 DEF LogType, ChannelType, Log!producers
<1>9. ChannelType'
  BY <1>1, <1>2, <1>3, <1>8, LogAssumption DEF LogType, ChannelType, Log!producers
<1> QED BY <1>2, <1>3, <1>4, <1>5, <1>7, <1>9

\* What waits after a step was waiting, or was sent by it last.
LEMMA SentLast ==
  ASSUME LogType, NEW e, Grows(e), NEW k, NEW l, k # l
  PROVE  /\ \A x : Waiting(k, x)' => Waiting(k, x) \/ (e.kind = k /\ e.of = x)
         /\ Ahead(k, l) /\ (e.kind = k => ~Waiting(l, e.of)) => Ahead(k, l)'
<1>1. DOMAIN Pending \subseteq Nat
  BY PendingIs
<1>2. \A x : Waiting(k, x)' => Waiting(k, x) \/ (e.kind = k /\ e.of = x)
  BY DEF Grows, Waiting
<1>3. ASSUME Ahead(k, l), e.kind = k => ~Waiting(l, e.of),
             NEW i \in DOMAIN Pending', NEW j \in DOMAIN Pending',
             Pending'[i].kind = k, Pending'[j].kind = l, Pending'[i].of = Pending'[j].of
      PROVE  i < j
  <2>1. \/ j \in DOMAIN Pending /\ Pending'[j] = Pending[j]
        \/ Pending'[j] = e /\ \A x \in DOMAIN Pending : x < j
    BY DEF Grows
  <2>2. \/ i \in DOMAIN Pending /\ Pending'[i] = Pending[i]
        \/ Pending'[i] = e /\ \A x \in DOMAIN Pending : x < i
    BY DEF Grows
  <2>3. CASE i \in DOMAIN Pending /\ Pending'[i] = Pending[i]
    BY <1>3, <2>1, <2>3 DEF Ahead
  <2>4. CASE Pending'[i] = e
    BY <1>3, <2>1, <2>4 DEF Waiting
  <2> QED BY <2>2, <2>3, <2>4
<1> QED BY <1>2, <1>3 DEF Ahead

LEMMA WrittenFirst ==
  ASSUME LogType, Shrinks, NEW k, NEW l
  PROVE  /\ \A x : Waiting(k, x)' => Waiting(k, x)
         /\ Ahead(k, l) => Ahead(k, l)'
<1>1. DOMAIN Pending' \subseteq Nat
  BY DEF Shrinks
<1>2. PICK d \in {0, 1} : \A i \in DOMAIN Pending' :
                            i + d \in DOMAIN Pending /\ Pending'[i] = Pending[i + d]
  BY DEF Shrinks
<1>3. \A x : Waiting(k, x)' => Waiting(k, x)
  BY <1>2 DEF Waiting
<1>4. ASSUME Ahead(k, l), NEW i \in DOMAIN Pending', NEW j \in DOMAIN Pending',
             Pending'[i].kind = k, Pending'[j].kind = l, Pending'[i].of = Pending'[j].of
      PROVE  i < j
  <2>1. i + d < j + d
    BY <1>2, <1>4 DEF Ahead
  <2> QED BY <1>1, <2>1
<1> QED BY <1>3, <1>4 DEF Ahead

\* The first event that waits has nothing of its matter ahead of it.
LEMMA FirstWaits ==
  ASSUME LogType, 1 \in DOMAIN Pending, NEW k, NEW l, k # l, Ahead(k, l), Pending[1].kind = l
  PROVE  ~Waiting(k, Pending[1].of)
<1> SUFFICES ASSUME NEW i \in DOMAIN Pending, Pending[i].kind = k, Pending[i].of = Pending[1].of
             PROVE  FALSE
  BY DEF Waiting
<1>1. i < 1
  BY DEF Ahead
<1> QED BY <1>1, PendingIs

-----------------------------------------------------------------------------
(* Types *)

\* The steps of the threads that log: what each sends, and what it notes.
Logs(e) ==
  /\ e.start = start
  /\ \/ /\ e.kind = "opportunity" /\ stage[e.of] = "new"
        /\ stage' = [stage EXCEPT ![e.of] = "handed"] /\ sniped' = sniped
     \/ /\ e.kind = "execution" /\ stage[e.of] = "handed"
        /\ stage' = [stage EXCEPT ![e.of] = e.what] /\ sniped' = sniped
     \/ /\ e.kind = "update" /\ stage[e.of] \in {"fast", "slow"} /\ e.what[1] = stage[e.of]
        /\ stage' = [stage EXCEPT ![e.of] = e.what[2]] /\ sniped' = sniped
     \/ /\ e.kind = "perf" /\ e.of \in Log!Bundles /\ e.what = "landed" /\ stage[e.of] = "landed"
        /\ stage' = [stage EXCEPT ![e.of] = "counted"] /\ sniped' = sniped
     \/ /\ e.kind = "row" /\ UNCHANGED <<stage, sniped>>
     \/ /\ e.kind = "snipe" /\ sniped[e.of] = "new"
        /\ sniped' = [sniped EXCEPT ![e.of] = "held"] /\ stage' = stage
     \/ /\ e.kind = "sell" /\ sniped[e.of] = "held"
        /\ sniped' = [sniped EXCEPT ![e.of] = "sold"] /\ stage' = stage

LogStep == \/ \E b \in Ids : Log!LogOpportunity(b)
           \/ \E b \in Log!Bundles : \E path \in {"fast", "slow"} : Log!LogExecution(b, path)
           \/ \E b \in Log!Bundles : \E outcome \in {"landed", "failed"} :
                Log!UpdateExecution(b, outcome)
           \/ \E b \in Log!Bundles : Log!UpdatePoolPerf(b)
           \/ \E r \in Rows : Log!LogRow(r)
           \/ \E n \in Snipes : Log!LogSniper(n) \/ Log!UpdateSniperSell(n)

LEMMA LogSteps ==
  ASSUME LogType, LogStep
  PROVE  (\E e \in Events : Logs(e) /\ Log!Send(e)) /\ ProducerType'
<1>0. ProducerType
  BY DEF LogType
<1>1. ASSUME NEW b \in Ids, Log!LogOpportunity(b)
      PROVE  (\E e \in Events : Logs(e) /\ Log!Send(e)) /\ ProducerType'
  <2> DEFINE e == Log!Event("opportunity", b, "none")
  <2>1. e \in Events
    BY <1>0 DEF Log!Event, Events, Log!Kinds, Log!Bundles, ProducerType
  <2>2. Logs(e) /\ Log!Send(e)
    BY <1>1 DEF Log!LogOpportunity, Logs, Log!Event
  <2>3. ProducerType'
    BY <1>0, <1>1, <2>2 DEF Log!LogOpportunity, ProducerType, Log!Send, Log!Bundles
  <2> QED BY <2>1, <2>2, <2>3
<1>2. ASSUME NEW b \in Log!Bundles, NEW path \in {"fast", "slow"}, Log!LogExecution(b, path)
      PROVE  (\E e \in Events : Logs(e) /\ Log!Send(e)) /\ ProducerType'
  <2> DEFINE e == Log!Event("execution", b, path)
  <2>1. e \in Events
    BY <1>0 DEF Log!Event, Events, Log!Kinds, ProducerType
  <2>2. Logs(e) /\ Log!Send(e)
    BY <1>2 DEF Log!LogExecution, Logs, Log!Event
  <2>3. ProducerType'
    BY <1>0, <1>2, <2>2 DEF Log!LogExecution, ProducerType, Log!Send
  <2> QED BY <2>1, <2>2, <2>3
<1>3. ASSUME NEW b \in Log!Bundles, NEW outcome \in {"landed", "failed"},
             Log!UpdateExecution(b, outcome)
      PROVE  (\E e \in Events : Logs(e) /\ Log!Send(e)) /\ ProducerType'
  <2> DEFINE e == Log!Event("update", b, <<stage[b], outcome>>)
  <2>1. stage[b] \in {"fast", "slow"} /\ Log!Send(e)
        /\ stage' = [stage EXCEPT ![b] = outcome] /\ UNCHANGED <<sniped, logged>>
    BY <1>3 DEF Log!UpdateExecution
  <2>2. e \in Events
    BY <1>0, <2>1 DEF Log!Event, Events, Log!Kinds, ProducerType
  <2>3. e.start = start /\ e.kind = "update" /\ e.of = b
        /\ e.what[1] = stage[b] /\ e.what[2] = outcome
    BY DEF Log!Event
  <2>4. Logs(e)
    BY <2>1, <2>3 DEF Logs
  <2>5. ProducerType'
    BY <1>0, <2>1 DEF ProducerType, Log!Send
  <2> QED BY <2>1, <2>2, <2>4, <2>5
<1>4. ASSUME NEW b \in Log!Bundles, Log!UpdatePoolPerf(b)
      PROVE  (\E e \in Events : Logs(e) /\ Log!Send(e)) /\ ProducerType'
  <2> DEFINE e == Log!Event("perf", b, "landed")
  <2>1. e \in Events
    BY <1>0 DEF Log!Event, Events, Log!Kinds, ProducerType
  <2>2. Logs(e) /\ Log!Send(e)
    BY <1>4 DEF Log!UpdatePoolPerf, Logs, Log!Event
  <2>3. ProducerType'
    BY <1>0, <1>4, <2>2 DEF Log!UpdatePoolPerf, ProducerType, Log!Send
  <2> QED BY <2>1, <2>2, <2>3
<1>5. ASSUME NEW r \in Rows, Log!LogRow(r)
      PROVE  (\E e \in Events : Logs(e) /\ Log!Send(e)) /\ ProducerType'
  <2> DEFINE e == Log!Event("row", r, "none")
  <2>1. e \in Events
    BY <1>0 DEF Log!Event, Events, Log!Kinds, ProducerType
  <2>2. Logs(e) /\ Log!Send(e)
    BY <1>5 DEF Log!LogRow, Logs, Log!Event
  <2>3. ProducerType'
    BY <1>0, <1>5, <2>2 DEF Log!LogRow, ProducerType, Log!Send
  <2> QED BY <2>1, <2>2, <2>3
<1>6. ASSUME NEW n \in Snipes, Log!LogSniper(n)
      PROVE  (\E e \in Events : Logs(e) /\ Log!Send(e)) /\ ProducerType'
  <2> DEFINE e == Log!Event("snipe", n, "none")
  <2>1. e \in Events
    BY <1>0 DEF Log!Event, Events, Log!Kinds, ProducerType
  <2>2. Logs(e) /\ Log!Send(e)
    BY <1>6 DEF Log!LogSniper, Logs, Log!Event
  <2>3. ProducerType'
    BY <1>0, <1>6, <2>2 DEF Log!LogSniper, ProducerType, Log!Send
  <2> QED BY <2>1, <2>2, <2>3
<1>7. ASSUME NEW n \in Snipes, Log!UpdateSniperSell(n)
      PROVE  (\E e \in Events : Logs(e) /\ Log!Send(e)) /\ ProducerType'
  <2> DEFINE e == Log!Event("sell", n, "none")
  <2>1. e \in Events
    BY <1>0 DEF Log!Event, Events, Log!Kinds, ProducerType
  <2>2. Logs(e) /\ Log!Send(e)
    BY <1>7 DEF Log!UpdateSniperSell, Logs, Log!Event
  <2>3. ProducerType'
    BY <1>0, <1>7, <2>2 DEF Log!UpdateSniperSell, ProducerType, Log!Send
  <2> QED BY <2>1, <2>2, <2>3
<1> QED BY <1>1, <1>2, <1>3, <1>4, <1>5, <1>6, <1>7 DEF LogStep

\* Steps of the pg-logger thread that write no row of their own: the hops
\* belong to a row that is there.
SameOpps == /\ opps' \in Seq(Opps) /\ Len(opps') = Len(opps)
            /\ \A i \in 1 .. Len(opps) : opps'[i].start = opps[i].start
                                         /\ opps'[i].id = opps[i].id

QuietStep == \/ \E b \in FeedIds : Log!FeedBundle(b)
             \/ Log!Connect \/ Log!Prepare \/ Log!PrepareFails \/ Log!ConnectionLost \/ Log!TakeBatch
             \/ Log!WriteFails \/ Log!InsertHops \/ (writer = "writing" /\ Log!InsertRow)
             \/ UNCHANGED Log!vars

\* Taking a batch moves the events to the writer and leaves their order.
LEMMA TakeBatchKeeps ==
  ASSUME LogType, Log!TakeBatch
  PROVE  ChannelType' /\ Pending' = Pending
<1> DEFINE n == IF Len(queue) < BatchSize THEN Len(queue) ELSE BatchSize
<1>1. /\ batch' = SubSeq(queue, 1, n) /\ queue' = SubSeq(queue, n + 1, Len(queue))
      /\ writer = "idle" /\ writer' = "writing" /\ queue # <<>>
      /\ UNCHANGED <<Log!producers, connected, dropped, sent, settled, Log!tables>>
  BY DEF Log!TakeBatch
<1>2. /\ queue \in Seq(Events) /\ batch = <<>> /\ Len(queue) \in Nat \ {0}
  BY <1>1 DEF LogType, ChannelType
<1>3. n \in 1 .. Len(queue) /\ n <= BatchSize /\ BatchSize \in Nat
  BY <1>2, LogAssumption DEF LogType
<1> HIDE DEF n
<1>4. /\ batch' \in Seq(Events) /\ Len(batch') = n
      /\ \A i \in 1 .. n : batch'[i] = queue[i]
  BY <1>1, <1>2, <1>3
<1>5. /\ queue' \in Seq(Events) /\ Len(queue') = Len(queue) - n
      /\ \A i \in 1 .. Len(queue') : queue'[i] = queue[n + i]
  BY <1>1, <1>2, <1>3
<1>6. /\ \A i \in 1 .. Len(queue') : queue'[i].start = start'
      /\ \A i \in 1 .. Len(batch') : batch'[i].start = start'
  BY <1>1, <1>2, <1>3, <1>4, <1>5 DEF LogType, ChannelType, Log!producers
<1>7. ChannelType'
  <2>1. Len(queue') <= Capacity /\ Len(batch') <= BatchSize /\ batch' # <<>>
    BY <1>2, <1>3, <1>4, <1>5, LogAssumption DEF LogType, ChannelType
  <2>2. connected' \in BOOLEAN /\ dropped' \in Nat /\ sent' \in Nat /\ settled' \in Nat
    BY <1>1 DEF LogType, ChannelType
  <2> QED BY <1>1, <1>4, <1>5, <1>6, <2>1, <2>2 DEF ChannelType
<1>8. Pending = queue
  BY <1>2 DEF Pending
<1>9. Pending' = queue
  <2>1. Pending' \in Seq(Events) /\ Len(Pending') = Len(queue)
    <3>1. Len(batch') + Len(queue') = Len(queue)
      BY <1>2, <1>3, <1>4, <1>5
    <3>2. Pending' \in Seq(Events) /\ Len(Pending') = Len(batch') + Len(queue')
      <4> DEFINE b == batch'
                 q == queue'
      <4>1. b \in Seq(Events) /\ q \in Seq(Events) /\ Pending' = b \o q
        BY <1>4, <1>5 DEF Pending
      <4> HIDE DEF b, q
      <4>2. Pending' \in Seq(Events) /\ Len(Pending') = Len(b) + Len(q)
        BY <4>1
      <4> QED BY <4>2 DEF b, q
    <3> QED BY <3>1, <3>2
  <2>2. \A i \in 1 .. Len(queue) : Pending'[i] = queue[i]
    <3> SUFFICES ASSUME NEW i \in 1 .. Len(queue) PROVE Pending'[i] = queue[i]
      OBVIOUS
    <3>1. CASE i <= n
      BY <1>2, <1>3, <1>4, <1>5, <3>1 DEF Pending
    <3>2. CASE i > n
      <4>1. i - n \in 1 .. Len(queue') /\ n + (i - n) = i
        BY <1>2, <1>3, <1>5, <3>2
      <4>2. Pending'[i] = queue'[i - n]
        BY <1>2, <1>3, <1>4, <1>5, <3>2 DEF Pending
      <4> QED BY <1>5, <4>1, <4>2
    <3> QED BY <1>3, <3>1, <3>2
  <2> QED BY <1>2, <2>1, <2>2
<1> QED BY <1>7, <1>8, <1>9

\* Pending events that stay shrink to themselves.
LEMMA StaysShrinks ==
  ASSUME LogType, Pending' = Pending \/ DOMAIN Pending' = {}
  PROVE  Shrinks
<1>1. DOMAIN Pending \subseteq Nat
  BY PendingIs
<1>2. CASE Pending' = Pending
  <2>1. \A i \in DOMAIN Pending' : i + 0 \in DOMAIN Pending /\ Pending'[i] = Pending[i + 0]
    BY <1>1, <1>2
  <2> QED BY <1>1, <1>2, <2>1 DEF Shrinks
<1>3. CASE DOMAIN Pending' = {}
  BY <1>3 DEF Shrinks
<1> QED BY <1>2, <1>3

LEMMA QuietSteps ==
  ASSUME LogType, QuietStep
  PROVE  /\ LogType' /\ Shrinks /\ SameOpps
         /\ UNCHANGED <<start, sniped, execs, events, perf>>
         /\ \A b \in Log!Bundles : stage'[b] = stage[b] \/ (stage[b] = "new" /\ stage'[b] = "handed")
<1>0. ProducerType /\ ChannelType /\ TableType
  BY DEF LogType
<1> DEFINE Goal == /\ LogType' /\ Shrinks /\ SameOpps
                   /\ UNCHANGED <<start, sniped, execs, events, perf>>
                   /\ \A b \in Log!Bundles :
                        stage'[b] = stage[b] \/ (stage[b] = "new" /\ stage'[b] = "handed")
<1>1. ASSUME opps' = opps PROVE SameOpps
  BY <1>0, <1>1 DEF SameOpps, TableType
<1>2. ASSUME NEW b \in FeedIds, Log!FeedBundle(b) PROVE Goal
  <2>1. /\ UNCHANGED <<start, sniped, logged, queue, batch, writer, connected, dropped, sent,
                       settled, Log!tables>>
        /\ stage' = [stage EXCEPT ![b] = "handed"] /\ stage[b] = "new"
    BY <1>2 DEF Log!FeedBundle
  <2>2. ProducerType'
    BY <1>0, <2>1 DEF ProducerType
  <2>3. ChannelType'
    BY <1>0, <2>1 DEF ChannelType
  <2>4. TableType'
    BY <1>0, <2>1 DEF TableType, Log!tables
  <2>5. Pending' = Pending
    BY <2>1 DEF Pending
  <2>6. \A c \in Log!Bundles : stage'[c] = stage[c] \/ (stage[c] = "new" /\ stage'[c] = "handed")
    BY <1>0, <2>1 DEF ProducerType
  <2> QED BY <1>1, <2>1, <2>2, <2>3, <2>4, <2>5, <2>6, StaysShrinks DEF LogType, Log!tables
<1>3. CASE Log!Connect \/ Log!Prepare \/ Log!PrepareFails \/ Log!ConnectionLost
  <2>1. writer' # "hops" \/ writer' = writer
    BY <1>3 DEF Log!Connect, Log!Prepare, Log!PrepareFails, Log!ConnectionLost
  <2>2. UNCHANGED <<Log!producers, batch, Log!tables>>
    BY <1>3 DEF Log!Connect, Log!Prepare, Log!PrepareFails, Log!ConnectionLost
  <2>3. ProducerType'
    BY <1>0, <2>2 DEF ProducerType, Log!producers
  <2>4. ChannelType'
    <3>1. CASE Log!Connect \/ Log!Prepare \/ Log!ConnectionLost
      BY <1>0, <2>2, <3>1 DEF ChannelType, Log!Connect, Log!Prepare, Log!ConnectionLost, Log!producers
    <3>2. CASE Log!PrepareFails
      <4>1. queue' = <<>> /\ writer = "preparing" /\ writer' = "dead"
            /\ UNCHANGED <<connected, dropped, sent, settled>>
        BY <3>2 DEF Log!PrepareFails
      <4>2. queue' \in Seq(Events) /\ Len(queue') = 0
        BY <4>1
      <4> QED BY <1>0, <2>2, <4>1, <4>2, LogAssumption DEF LogType, ChannelType, Log!producers
    <3> QED BY <1>3, <3>1, <3>2
  <2>5. TableType'
    BY <1>0, <2>1, <2>2 DEF TableType, Log!tables, Log!producers
  <2>6. Shrinks
    <3>1. CASE Log!Connect \/ Log!Prepare \/ Log!ConnectionLost
      <4>1. Pending' = Pending
        BY <3>1 DEF Log!Connect, Log!Prepare, Log!ConnectionLost, Pending
      <4> QED BY <4>1, StaysShrinks
    <3>2. CASE Log!PrepareFails
      <4>1. batch' = <<>> /\ queue' = <<>>
        BY <1>0, <2>2, <3>2 DEF Log!PrepareFails, ChannelType
      <4>2. DOMAIN Pending' = {}
        BY <4>1 DEF Pending
      <4> QED BY <4>2, StaysShrinks
    <3> QED BY <1>3, <3>1, <3>2
  <2> QED BY <1>1, <2>2, <2>3, <2>4, <2>5, <2>6 DEF LogType, Log!tables, Log!producers
<1>4. CASE Log!TakeBatch
  <2>1. UNCHANGED <<Log!producers, Log!tables>> /\ writer' = "writing"
    BY <1>4 DEF Log!TakeBatch
  <2>2. ProducerType' /\ TableType'
    BY <1>0, <2>1 DEF ProducerType, TableType, Log!producers, Log!tables
  <2> QED BY <1>1, <1>4, <2>1, <2>2, TakeBatchKeeps, StaysShrinks DEF LogType, Log!tables, Log!producers
<1>5. CASE Log!WriteFails \/ (writer = "writing" /\ Log!InsertRow)
  <2>1. Log!NextEvent /\ UNCHANGED Log!tables /\ writer \in {"writing", "hops"}
    BY <1>5 DEF Log!WriteFails, Log!InsertRow
  <2>2. ChannelType' /\ Shrinks /\ UNCHANGED Log!producers /\ writer' # "hops"
    BY <2>1, NextShrinks
  <2>3. ProducerType' /\ TableType'
    BY <1>0, <2>1, <2>2 DEF ProducerType, TableType, Log!producers, Log!tables
  <2> QED BY <1>1, <2>1, <2>2, <2>3 DEF LogType, Log!tables, Log!producers
<1>6. CASE Log!InsertHops
  <2>1. /\ Log!NextEvent /\ UNCHANGED <<execs, events, perf>> /\ writer = "hops"
        /\ opps' = [opps EXCEPT ![Len(opps)].hops = TRUE]
    BY <1>6 DEF Log!InsertHops
  <2>2. ChannelType' /\ Shrinks /\ UNCHANGED Log!producers /\ writer' # "hops"
    BY <2>1, NextShrinks
  <2>3. opps \in Seq(Opps) /\ Len(opps) \in 1 .. Len(opps)
    BY <1>0, <2>1 DEF TableType
  <2>4. SameOpps
    <3> DEFINE n == Len(opps)
               o == [opps[n] EXCEPT !.hops = TRUE]
    <3>1. opps[n] \in Opps
      BY <2>3
    <3>2. o \in Opps /\ o.start = opps[n].start /\ o.id = opps[n].id
      BY <3>1 DEF Opps
    <3>3. opps' = [opps EXCEPT ![n] = o]
      BY <2>1
    <3> HIDE DEF o
    <3>4. opps' \in Seq(Opps) /\ Len(opps') = Len(opps)
          /\ \A i \in 1 .. Len(opps) : opps'[i] = IF i = n THEN o ELSE opps[i]
      BY <2>3, <3>2, <3>3
    <3> QED BY <3>2, <3>4 DEF SameOpps
  <2>5. TableType'
    BY <1>0, <2>1, <2>2, <2>4 DEF TableType, SameOpps, Log!producers
  <2>6. ProducerType'
    BY <1>0, <2>2 DEF ProducerType, Log!producers
  <2> QED BY <2>1, <2>2, <2>4, <2>5, <2>6 DEF LogType, Log!producers
<1>7. CASE UNCHANGED Log!vars
  <2>1. ProducerType' /\ ChannelType' /\ TableType' /\ Pending' = Pending
    BY <1>0, <1>7 DEF Log!vars, Log!producers, Log!tables, ProducerType, ChannelType, TableType, Pending
  <2> QED BY <1>1, <1>7, <2>1, StaysShrinks DEF LogType, Log!vars, Log!producers, Log!tables
<1> QED BY <1>2, <1>3, <1>4, <1>5, <1>6, <1>7 DEF QuietStep

\* The rows that are written, each with the event that waited first.
Event1 == Head(batch)

LEMMA OpportunityRow ==
  ASSUME LogType, Log!InsertOpportunity
  PROVE  /\ LogType' /\ Pending' = Pending
         /\ 1 \in DOMAIN Pending /\ Pending[1] = Event1
         /\ Event1 \in Events /\ Event1.start = start /\ Event1.kind = "opportunity"
         /\ opps' = Append(opps, [start |-> start, id |-> Event1.of, hops |-> FALSE])
         /\ UNCHANGED <<Log!producers, execs, events, perf>>
<1>0. ProducerType /\ ChannelType /\ TableType
  BY DEF LogType
<1>1. /\ Event1.kind = "opportunity" /\ writer = "writing" /\ writer' = "hops"
      /\ opps' = Append(opps, [start |-> Event1.start, id |-> Event1.of, hops |-> FALSE])
      /\ UNCHANGED <<Log!producers, queue, batch, connected, dropped, sent, settled, execs, events,
                     perf>>
  BY DEF Log!InsertOpportunity, Event1
<1>2. /\ batch \in Seq(Events) /\ Len(batch) \in Nat \ {0} /\ Event1 = batch[1]
  BY <1>0, <1>1 DEF ChannelType, Event1
<1>3. Event1 \in Events /\ Event1.start = start /\ 1 \in DOMAIN Pending /\ Pending[1] = Event1
  BY <1>0, <1>2, PendingIs DEF ChannelType
<1>4. Event1.of \in Ids
  BY <1>1, <1>3 DEF Events
<1> DEFINE o == [start |-> start, id |-> Event1.of, hops |-> FALSE]
<1>5. o \in Opps /\ o.start = start
  BY <1>0, <1>4 DEF Opps, ProducerType
<1> HIDE DEF o
<1>6. opps' = Append(opps, o)
  BY <1>1, <1>3 DEF o
<1>7. /\ opps' \in Seq(Opps) /\ Len(opps') = Len(opps) + 1 /\ opps' # <<>>
      /\ \A i \in 1 .. Len(opps) : opps'[i] = opps[i]
      /\ opps'[Len(opps) + 1] = o
  BY <1>0, <1>5, <1>6 DEF TableType
<1>8. /\ opps \in Seq(Opps) /\ execs \in Seq(Execs)
      /\ \A i \in 1 .. Len(execs) : execs[i].opp \in Nat
  <2>1. opps \in Seq(Opps) /\ execs \in Seq(Execs)
    BY <1>0 DEF TableType
  <2>2. \A i \in 1 .. Len(execs) : execs[i] \in Execs
    BY <2>1
  <2> QED BY <2>1, <2>2 DEF Execs
<1>9. start \in Nat
  BY <1>0 DEF ProducerType
<1>10. \A i \in 1 .. Len(opps') : opps'[i].start <= start
  <2> SUFFICES ASSUME NEW i \in 1 .. Len(opps') PROVE opps'[i].start <= start
    OBVIOUS
  <2>1. CASE i \in 1 .. Len(opps)
    BY <1>0, <1>7, <2>1 DEF TableType
  <2>2. CASE i = Len(opps) + 1
    BY <1>5, <1>7, <1>9, <2>2
  <2> QED BY <1>7, <1>8, <2>1, <2>2
<1>11. \A i \in 1 .. Len(execs) : execs[i].opp <= Len(opps')
  BY <1>0, <1>7, <1>8 DEF TableType
<1>12. TableType'
  BY <1>0, <1>1, <1>7, <1>10, <1>11 DEF TableType, Log!producers
<1>13. ProducerType' /\ ChannelType'
  BY <1>0, <1>1, <1>2 DEF ProducerType, ChannelType, Log!producers
<1>14. Pending' = Pending
  BY <1>1 DEF Pending
<1> QED BY <1>1, <1>3, <1>6, <1>12, <1>13, <1>14 DEF LogType, o

\* The newest row with the id, if there is one.
LEMMA NewestOpportunity ==
  ASSUME LogType, NEW id
  PROVE  LET m == Log!OpportunityOf(id)
         IN  /\ m \in 0 .. Len(opps)
             /\ \A i \in 1 .. Len(opps) :
                  opps[i].id = id => m \in 1 .. Len(opps) /\ opps[m].id = id /\ i <= m
<1> DEFINE hits == {i \in DOMAIN opps : opps[i].id = id}
<1>1. /\ DOMAIN opps = 1 .. Len(opps) /\ Len(opps) \in Nat
  BY DEF LogType, TableType
<1>2. hits \in SUBSET (1 .. Len(opps))
  BY <1>1
<1>3. Log!OpportunityOf(id) = IF hits = {} THEN 0 ELSE CHOOSE i \in hits : \A j \in hits : j <= i
  BY DEF Log!OpportunityOf
<1>4. CASE hits = {}
  BY <1>1, <1>3, <1>4
<1>5. CASE hits # {}
  <2>1. \E i \in hits : \A j \in hits : j <= i
    <3> HIDE DEF hits
    <3> QED BY <1>1, <1>2, <1>5, GreatestNumber
  <2>2. Log!OpportunityOf(id) \in hits /\ \A j \in hits : j <= Log!OpportunityOf(id)
    <3> HIDE DEF hits
    <3> QED BY <1>3, <1>5, <2>1
  <2> QED BY <1>1, <1>2, <2>2
<1> QED BY <1>4, <1>5

\* What every row step has in common.
Written == /\ LogType' /\ Shrinks
           /\ 1 \in DOMAIN Pending /\ Pending[1] = Event1
           /\ Event1 \in Events /\ Event1.start = start
           /\ UNCHANGED Log!producers

LEMMA ExecutionRow ==
  ASSUME LogType, writer = "writing", Log!InsertExecution
  PROVE  /\ Written /\ Event1.kind = "execution"
         /\ execs' = Append(execs, [start |-> start, id |-> Event1.of,
                                    opp |-> Log!OpportunityOf(Event1.of),
                                    path |-> Event1.what, outcome |-> "none"])
         /\ UNCHANGED <<opps, events, perf>>
<1>0. ProducerType /\ ChannelType /\ TableType
  BY DEF LogType
<1>1. /\ Event1.kind = "execution" /\ Log!NextEvent /\ UNCHANGED <<opps, events, perf>>
      /\ execs' = Append(execs, [start |-> Event1.start, id |-> Event1.of,
                                 opp |-> Log!OpportunityOf(Event1.of),
                                 path |-> Event1.what, outcome |-> "none"])
  BY DEF Log!InsertExecution, Event1
<1>2. /\ Shrinks /\ ChannelType' /\ 1 \in DOMAIN Pending /\ Pending[1] = Event1
      /\ Event1 \in Events /\ Event1.start = start /\ UNCHANGED Log!producers /\ writer' # "hops"
  BY <1>1, NextShrinks DEF Event1
<1> DEFINE x == [start |-> start, id |-> Event1.of, opp |-> Log!OpportunityOf(Event1.of),
                 path |-> Event1.what, outcome |-> "none"]
<1>3. Log!OpportunityOf(Event1.of) \in 0 .. Len(opps)
  BY NewestOpportunity
<1>4. /\ opps \in Seq(Opps) /\ execs \in Seq(Execs) /\ Len(opps) \in Nat /\ Len(execs) \in Nat
      /\ start \in 1 .. MaxStarts
  BY <1>0 DEF TableType, ProducerType
<1>5. Event1.of \in Log!Bundles /\ Event1.what \in {"fast", "slow"}
  BY <1>1, <1>2 DEF Events
<1>6. x \in Execs /\ x.start = start /\ x.opp <= Len(opps)
  BY <1>3, <1>4, <1>5 DEF Execs
<1>7. execs' = Append(execs, x)
  BY <1>1, <1>2
<1> HIDE DEF x
<1>8. /\ execs' \in Seq(Execs) /\ Len(execs') = Len(execs) + 1
      /\ \A i \in 1 .. Len(execs) : execs'[i] = execs[i]
      /\ execs'[Len(execs) + 1] = x
  BY <1>4, <1>6, <1>7
<1>9. ASSUME NEW i \in 1 .. Len(execs')
      PROVE  execs'[i].start <= start /\ execs'[i].opp <= Len(opps)
  <2>1. CASE i \in 1 .. Len(execs)
    BY <1>0, <1>8, <2>1 DEF TableType
  <2>2. CASE i = Len(execs) + 1
    BY <1>4, <1>6, <1>8, <2>2
  <2> QED BY <1>4, <1>8, <2>1, <2>2
<1>10. TableType'
  BY <1>0, <1>1, <1>2, <1>8, <1>9 DEF TableType, Log!producers
<1>11. ProducerType'
  BY <1>0, <1>2 DEF ProducerType, Log!producers
<1> QED BY <1>1, <1>2, <1>7, <1>10, <1>11 DEF Written, LogType, x

\* An outcome is set in the rows of its signature.
SetOutcome(x, u) ==
  IF x.start = u.start /\ x.id = u.of /\ x.path = "fast" /\ u.what[1] = "fast"
  THEN [x EXCEPT !.outcome = u.what[2]] ELSE x

LEMMA OutcomeWritten ==
  ASSUME LogType, writer = "writing", Log!WriteUpdate
  PROVE  /\ Written /\ Event1.kind = "update"
         /\ Len(execs') = Len(execs)
         /\ \A i \in 1 .. Len(execs) : execs'[i] = SetOutcome(execs[i], Event1)
         /\ UNCHANGED <<opps, events, perf>>
<1>0. ProducerType /\ ChannelType /\ TableType
  BY DEF LogType
<1>1. /\ Event1.kind = "update" /\ Log!NextEvent /\ UNCHANGED <<opps, events, perf>>
      /\ execs' = [i \in DOMAIN execs |-> SetOutcome(execs[i], Event1)]
  BY DEF Log!WriteUpdate, Event1, SetOutcome
<1>2. /\ Shrinks /\ ChannelType' /\ 1 \in DOMAIN Pending /\ Pending[1] = Event1
      /\ Event1 \in Events /\ Event1.start = start /\ UNCHANGED Log!producers /\ writer' # "hops"
  BY <1>1, NextShrinks DEF Event1
<1>3. Event1.what \in {"fast", "slow"} \X {"landed", "failed"}
  BY <1>1, <1>2 DEF Events
<1>4. execs \in Seq(Execs)
  BY <1>0 DEF TableType
<1>5. ASSUME NEW x \in Execs
      PROVE  /\ SetOutcome(x, Event1) \in Execs
             /\ SetOutcome(x, Event1).start = x.start /\ SetOutcome(x, Event1).opp = x.opp
  BY <1>3 DEF SetOutcome, Execs
<1>6. DOMAIN execs = 1 .. Len(execs) /\ Len(execs) \in Nat
      /\ \A i \in 1 .. Len(execs) : execs[i] \in Execs
  BY <1>4
<1>7. /\ execs' \in [1 .. Len(execs) -> Execs]
      /\ \A i \in 1 .. Len(execs) : /\ execs'[i] = SetOutcome(execs[i], Event1)
                                    /\ execs'[i].start = execs[i].start
                                    /\ execs'[i].opp = execs[i].opp
  BY <1>1, <1>5, <1>6
<1>8. execs' \in Seq(Execs) /\ Len(execs') = Len(execs)
  BY <1>6, <1>7, IsASeq
<1>9. TableType'
  BY <1>0, <1>1, <1>2, <1>7, <1>8 DEF TableType, Log!producers
<1>10. ProducerType'
  BY <1>0, <1>2 DEF ProducerType, Log!producers
<1> QED BY <1>1, <1>2, <1>7, <1>8, <1>9, <1>10 DEF Written, LogType

LEMMA SnipeRow ==
  ASSUME LogType, writer = "writing", Log!InsertSniper
  PROVE  /\ Written /\ Event1.kind = "snipe"
         /\ events' = Append(events, [start |-> start, n |-> Event1.of, sale |-> <<>>])
         /\ UNCHANGED <<opps, execs, perf>>
<1>0. ProducerType /\ ChannelType /\ TableType
  BY DEF LogType
<1>1. /\ Event1.kind = "snipe" /\ Log!NextEvent /\ UNCHANGED <<opps, execs, perf>>
      /\ events' = Append(events, [start |-> Event1.start, n |-> Event1.of, sale |-> <<>>])
  BY DEF Log!InsertSniper, Event1
<1>2. /\ Shrinks /\ ChannelType' /\ 1 \in DOMAIN Pending /\ Pending[1] = Event1
      /\ Event1 \in Events /\ Event1.start = start /\ UNCHANGED Log!producers /\ writer' # "hops"
  BY <1>1, NextShrinks DEF Event1
<1> DEFINE x == [start |-> start, n |-> Event1.of, sale |-> <<>>]
<1>3. events \in Seq(Sales) /\ Len(events) \in Nat /\ start \in 1 .. MaxStarts
  BY <1>0 DEF TableType, ProducerType
<1>4. Event1.of \in Snipes
  BY <1>1, <1>2 DEF Events
<1>5. x \in Sales /\ x.start = start /\ x.sale = <<>>
  BY <1>3, <1>4 DEF Sales
<1>6. events' = Append(events, x)
  BY <1>1, <1>2
<1> HIDE DEF x
<1>7. /\ events' \in Seq(Sales) /\ Len(events') = Len(events) + 1
      /\ \A i \in 1 .. Len(events) : events'[i] = events[i]
      /\ events'[Len(events) + 1] = x
  BY <1>3, <1>5, <1>6
<1>8. ASSUME NEW i \in 1 .. Len(events')
      PROVE  /\ events'[i].start <= start
             /\ events'[i].sale # <<>> => events'[i].sale[1] <= start
  <2>1. CASE i \in 1 .. Len(events)
    BY <1>0, <1>7, <2>1 DEF TableType
  <2>2. CASE i = Len(events) + 1
    BY <1>3, <1>5, <1>7, <2>2
  <2> QED BY <1>3, <1>7, <2>1, <2>2
<1>9. TableType'
  BY <1>0, <1>1, <1>2, <1>7, <1>8 DEF TableType, Log!producers
<1>10. ProducerType'
  BY <1>0, <1>2 DEF ProducerType, Log!producers
<1> QED BY <1>1, <1>2, <1>6, <1>9, <1>10 DEF Written, LogType, x

\* The last row of the table is sold.
SetSale(x, i, u) == IF i = Len(events) THEN [x EXCEPT !.sale = <<u.start, u.of>>] ELSE x

LEMMA SaleWritten ==
  ASSUME LogType, writer = "writing", Log!WriteSell
  PROVE  /\ Written /\ Event1.kind = "sell"
         /\ Len(events') = Len(events)
         /\ \A i \in 1 .. Len(events) : events'[i] = SetSale(events[i], i, Event1)
         /\ UNCHANGED <<opps, execs, perf>>
<1>0. ProducerType /\ ChannelType /\ TableType
  BY DEF LogType
<1>1. /\ Event1.kind = "sell" /\ Log!NextEvent /\ UNCHANGED <<opps, execs, perf>>
      /\ events' = IF events = <<>> THEN events
                   ELSE [events EXCEPT ![Len(events)].sale = <<Event1.start, Event1.of>>]
  BY DEF Log!WriteSell, Event1
<1>2. /\ Shrinks /\ ChannelType' /\ 1 \in DOMAIN Pending /\ Pending[1] = Event1
      /\ Event1 \in Events /\ Event1.start = start /\ UNCHANGED Log!producers /\ writer' # "hops"
  BY <1>1, NextShrinks DEF Event1
<1>3. events \in Seq(Sales) /\ Len(events) \in Nat /\ start \in 1 .. MaxStarts
  BY <1>0 DEF TableType, ProducerType
<1>4. Event1.of \in Snipes
  BY <1>1, <1>2 DEF Events
<1>5. /\ events' \in Seq(Sales) /\ Len(events') = Len(events)
      /\ \A i \in 1 .. Len(events) : events'[i] = SetSale(events[i], i, Event1)
  <2>1. CASE events = <<>>
    BY <1>1, <1>3, <2>1
  <2>2. CASE events # <<>>
    <3> DEFINE n == Len(events)
               x == SetSale(events[n], n, Event1)
    <3>1. n \in 1 .. n /\ events[n] \in Sales
      BY <1>3, <2>2
    <3>2. x \in Sales /\ x = [events[n] EXCEPT !.sale = <<Event1.start, Event1.of>>]
      BY <1>2, <1>3, <1>4, <3>1 DEF SetSale, Sales
    <3>3. events' = [events EXCEPT ![n] = x]
      BY <1>1, <2>2, <3>2
    <3>4. \A i \in 1 .. n : i # n => SetSale(events[i], i, Event1) = events[i]
      BY DEF SetSale
    <3> HIDE DEF x
    <3>5. events' \in Seq(Sales) /\ Len(events') = Len(events)
          /\ \A i \in 1 .. n : events'[i] = IF i = n THEN x ELSE events[i]
      BY <1>3, <3>1, <3>2, <3>3
    <3> QED BY <3>4, <3>5 DEF x
  <2> QED BY <2>1, <2>2
<1>6. ASSUME NEW i \in 1 .. Len(events')
      PROVE  /\ events'[i].start <= start
             /\ events'[i].sale # <<>> => events'[i].sale[1] <= start
  <2>1. events[i] \in Sales /\ events'[i] = SetSale(events[i], i, Event1)
    BY <1>3, <1>5
  <2>2. /\ events[i].start <= start
        /\ events[i].sale # <<>> => events[i].sale[1] <= start
    BY <1>0, <1>5 DEF TableType
  <2>3. CASE i = Len(events)
    <3>1. events'[i].start = events[i].start /\ events'[i].sale = <<start, Event1.of>>
      BY <1>2, <2>1, <2>3 DEF SetSale, Sales
    <3> QED BY <1>3, <2>2, <3>1
  <2>4. CASE i # Len(events)
    BY <2>1, <2>2, <2>4 DEF SetSale
  <2> QED BY <2>3, <2>4
<1>7. TableType'
  BY <1>0, <1>1, <1>2, <1>5, <1>6 DEF TableType, Log!producers
<1>8. ProducerType'
  BY <1>0, <1>2 DEF ProducerType, Log!producers
<1> QED BY <1>1, <1>2, <1>5, <1>7, <1>8 DEF Written, LogType

LEMMA PerfWritten ==
  ASSUME LogType, writer = "writing", Log!UpsertPerf
  PROVE  /\ Written /\ Event1.kind = "perf"
         /\ perf' = [opps |-> perf.opps + 1,
                     landed |-> perf.landed + (IF Event1.what = "landed" THEN 1 ELSE 0)]
         /\ UNCHANGED <<opps, execs, events>>
<1>0. ProducerType /\ ChannelType /\ TableType
  BY DEF LogType
<1>1. /\ Event1.kind = "perf" /\ Log!NextEvent /\ UNCHANGED <<opps, execs, events>>
      /\ perf' = [opps |-> perf.opps + 1,
                  landed |-> perf.landed + (IF Event1.what = "landed" THEN 1 ELSE 0)]
  BY DEF Log!UpsertPerf, Event1
<1>2. /\ Shrinks /\ ChannelType' /\ 1 \in DOMAIN Pending /\ Pending[1] = Event1
      /\ Event1 \in Events /\ Event1.start = start /\ UNCHANGED Log!producers /\ writer' # "hops"
  BY <1>1, NextShrinks DEF Event1
<1>3. perf' \in [opps : Nat, landed : Nat]
  BY <1>0, <1>1 DEF TableType
<1>4. TableType'
  BY <1>0, <1>1, <1>2, <1>3 DEF TableType, Log!producers
<1>5. ProducerType'
  BY <1>0, <1>2 DEF ProducerType, Log!producers
<1> QED BY <1>1, <1>2, <1>4, <1>5 DEF Written, LogType

\* A new process starts with an empty channel.
LEMMA RestartType ==
  ASSUME LogType, Log!Restart
  PROVE  /\ LogType' /\ DOMAIN Pending' = {} /\ start' = start + 1
         /\ start \in 1 .. MaxStarts
         /\ UNCHANGED Log!tables /\ sent' = 0 /\ settled' = 0 /\ dropped' = 0
         /\ queue' = <<>> /\ batch' = <<>>
<1>0. ProducerType /\ ChannelType /\ TableType
  BY DEF LogType
<1>1. /\ start < MaxStarts /\ start' = start + 1
      /\ stage' = Log!Idle /\ sniped' = Log!Unsniped /\ logged' = {}
      /\ queue' = <<>> /\ batch' = <<>> /\ writer' = "connecting" /\ connected' = FALSE
      /\ dropped' = 0 /\ sent' = 0 /\ settled' = 0 /\ UNCHANGED Log!tables
  BY DEF Log!Restart
<1>2. start \in 1 .. MaxStarts /\ start' \in 1 .. MaxStarts
  BY <1>0, <1>1, LogAssumption DEF LogType, ProducerType
<1>3. ProducerType'
  BY <1>1, <1>2 DEF ProducerType, Log!Idle, Log!Unsniped
<1>4. queue' \in Seq(Events) /\ batch' \in Seq(Events) /\ Len(queue') = 0 /\ Len(batch') = 0
  BY <1>1
<1>5. ChannelType'
  <2>1. Len(queue') <= Capacity /\ Len(batch') <= BatchSize
        /\ 1 .. Len(queue') = {} /\ 1 .. Len(batch') = {}
    BY <1>4, LogAssumption DEF LogType
  <2> QED BY <1>1, <1>4, <2>1 DEF ChannelType
<1>6. /\ \A i \in 1 .. Len(opps) : opps[i].start <= start'
      /\ \A i \in 1 .. Len(execs) : execs[i].start <= start'
      /\ \A i \in 1 .. Len(events) : events[i].start <= start'
                                     /\ (events[i].sale # <<>> => events[i].sale[1] <= start')
  <2>1. /\ \A i \in 1 .. Len(opps) : opps[i].start \in Nat
        /\ \A i \in 1 .. Len(execs) : execs[i].start \in Nat
        /\ \A i \in 1 .. Len(events) : events[i].start \in Nat
                                     /\ (events[i].sale # <<>> => events[i].sale[1] \in Nat)
    <3>1. /\ opps \in Seq(Opps) /\ execs \in Seq(Execs) /\ events \in Seq(Sales)
      BY <1>0 DEF TableType
    <3>2. /\ \A i \in 1 .. Len(opps) : opps[i] \in Opps
          /\ \A i \in 1 .. Len(execs) : execs[i] \in Execs
          /\ \A i \in 1 .. Len(events) : events[i] \in Sales
      BY <3>1
    <3> QED BY <3>2 DEF Opps, Execs, Sales
  <2> QED BY <1>0, <1>1, <1>2, <2>1 DEF TableType
<1>7. TableType'
  BY <1>0, <1>1, <1>6 DEF TableType, Log!tables
<1>8. DOMAIN Pending' = {}
  BY <1>1 DEF Pending
<1> QED BY <1>1, <1>2, <1>3, <1>5, <1>7, <1>8 DEF LogType

LEMMA LogStepType ==
  ASSUME LogType, LogStep
  PROVE  /\ LogType' /\ UNCHANGED <<start, Log!tables, writer>>
         /\ \E e \in Events : Logs(e) /\ Log!Send(e) /\ Grows(e)
<1>1. PICK e \in Events : Logs(e) /\ Log!Send(e)
  BY LogSteps
<1>2. /\ Grows(e) /\ ChannelType'
      /\ UNCHANGED <<start, batch, writer, connected, settled, Log!tables>>
  BY <1>1, SendGrows DEF Logs
<1>3. TableType'
  BY <1>2 DEF LogType, TableType, Log!tables
<1> QED BY <1>1, <1>2, <1>3, LogSteps DEF LogType

\* What the process does, seen from the log.
LEMMA NextSteps ==
  ASSUME [Log!Next]_(Log!vars)
  PROVE  \/ LogStep \/ QuietStep \/ Log!InsertOpportunity \/ Log!Restart
         \/ /\ writer = "writing"
            /\ Log!InsertExecution \/ Log!WriteUpdate \/ Log!InsertSniper \/ Log!WriteSell \/ Log!UpsertPerf
  BY DEF Log!Next, Log!Write, LogStep, QuietStep

LEMMA InitLogType == Log!Init => LogType
<1> SUFFICES ASSUME Log!Init PROVE LogType
  OBVIOUS
<1>1. ProducerType
  BY LogAssumption DEF Log!Init, ProducerType, Log!Idle, Log!Unsniped
<1>2. queue = <<>> /\ batch = <<>> /\ opps = <<>> /\ execs = <<>> /\ events = <<>>
  BY DEF Log!Init
<1>3. /\ queue \in Seq(Events) /\ batch \in Seq(Events) /\ Len(queue) = 0 /\ Len(batch) = 0
      /\ opps \in Seq(Opps) /\ execs \in Seq(Execs) /\ events \in Seq(Sales)
      /\ Len(opps) = 0 /\ Len(execs) = 0 /\ Len(events) = 0
  BY <1>2
<1>4. ChannelType
  <2>1. Len(queue) <= Capacity /\ Len(batch) <= BatchSize
        /\ 1 .. Len(queue) = {} /\ 1 .. Len(batch) = {}
    BY <1>3, LogAssumption DEF LogType
  <2> QED BY <1>2, <1>3, <2>1 DEF Log!Init, ChannelType
<1>5. TableType
  BY <1>2, <1>3 DEF Log!Init, TableType
<1> QED BY <1>1, <1>4, <1>5 DEF LogType

LEMMA NextLogType == LogType /\ [Log!Next]_(Log!vars) => LogType'
  BY NextSteps, LogStepType, QuietSteps, OpportunityRow, RestartType, ExecutionRow,
     OutcomeWritten, SnipeRow, SaleWritten, PerfWritten DEF Written

\* The channel, the batch and the tables only take the values of their types.
LEMMA LogTypeIsTypeOK == LogType => Log!TypeOK
<1> SUFFICES ASSUME LogType PROVE Log!TypeOK
  OBVIOUS
<1>0. ProducerType /\ ChannelType /\ TableType
  BY DEF LogType
<1>1. \A e \in Log!Range(queue) \cup Log!Range(batch) : e.kind \in Log!Kinds /\ e.start = start
  <2> SUFFICES ASSUME NEW e \in Log!Range(queue) \cup Log!Range(batch)
               PROVE  e \in Events /\ e.start = start
    BY DEF Events
  <2>1. queue \in Seq(Events) /\ batch \in Seq(Events)
    BY <1>0 DEF ChannelType
  <2>2. \/ \E i \in 1 .. Len(queue) : e = queue[i]
        \/ \E i \in 1 .. Len(batch) : e = batch[i]
    BY <2>1 DEF Log!Range
  <2> QED BY <1>0, <2>1, <2>2 DEF ChannelType
<1>2. \A i \in DOMAIN execs : execs[i].opp \in 0 .. Len(opps)
  <2>1. opps \in Seq(Opps) /\ execs \in Seq(Execs)
    BY <1>0 DEF TableType
  <2>2. /\ DOMAIN execs = 1 .. Len(execs) /\ Len(opps) \in Nat
        /\ \A i \in 1 .. Len(execs) : execs[i] \in Execs
    BY <2>1
  <2> QED BY <1>0, <2>2 DEF TableType, Execs
<1> QED BY <1>0, <1>1, <1>2 DEF Log!TypeOK, ProducerType, ChannelType

-----------------------------------------------------------------------------
(* No event is lost uncounted *)

LEMMA AccountStep ==
  ASSUME LogType, Log!EventsAccounted, [Log!Next]_(Log!vars)
  PROVE  Log!EventsAccounted'
<1>0. /\ queue \in Seq(Events) /\ batch \in Seq(Events)
      /\ Len(queue) \in Nat /\ Len(batch) \in Nat
      /\ dropped \in Nat /\ sent \in Nat /\ settled \in Nat
  BY DEF LogType, ChannelType
<1>1. CASE LogStep
  <2>1. PICK e \in Events : Log!Send(e)
    BY <1>1, LogSteps
  <2>2. \/ writer = "dead" /\ writer' = "dead"
        \/ queue' = Append(queue, e) /\ dropped' = dropped
        \/ queue' = queue /\ dropped' = dropped + 1
    BY <2>1 DEF Log!Send
  <2>3. UNCHANGED <<batch, settled, writer>> /\ sent' = sent + 1
    BY <2>1 DEF Log!Send
  <2>4. queue' = Append(queue, e) => Len(queue') = Len(queue) + 1
    BY <1>0
  <2>5. \/ writer = "dead" /\ writer' = "dead"
        \/ Len(queue') = Len(queue) + 1 /\ dropped' = dropped
        \/ Len(queue') = Len(queue) /\ dropped' = dropped + 1
    BY <2>2, <2>4
  <2> QED BY <1>0, <2>3, <2>5 DEF Log!EventsAccounted
<1>2. ASSUME writer \in {"writing", "hops"}, Log!NextEvent PROVE Log!EventsAccounted'
  <2>1. /\ UNCHANGED <<queue, dropped, sent>> /\ settled' = settled + 1
        /\ Len(batch') = Len(batch) - 1 /\ writer # "dead"
    BY <1>2, NextShrinks
  <2> QED BY <1>0, <2>1 DEF Log!EventsAccounted
<1>3. CASE QuietStep
  <2>1. CASE Log!WriteFails \/ Log!InsertHops \/ (writer = "writing" /\ Log!InsertRow)
    BY <1>2, <2>1 DEF Log!WriteFails, Log!InsertHops, Log!InsertRow
  <2>2. CASE Log!TakeBatch
    <3> DEFINE n == IF Len(queue) < BatchSize THEN Len(queue) ELSE BatchSize
    <3>1. /\ batch' = SubSeq(queue, 1, n) /\ queue' = SubSeq(queue, n + 1, Len(queue))
          /\ writer = "idle" /\ UNCHANGED <<dropped, sent, settled>>
      BY <2>2 DEF Log!TakeBatch
    <3>2. Len(batch) = 0 /\ n \in 0 .. Len(queue)
      BY <1>0, <3>1, LogAssumption DEF LogType, ChannelType
    <3> HIDE DEF n
    <3>3. Len(batch') = n /\ Len(queue') = Len(queue) - n
      BY <1>0, <3>1, <3>2
    <3>4. writer # "dead" /\ UNCHANGED <<dropped, sent, settled>> /\ n \in Nat
      BY <1>0, <3>1, <3>2
    <3> QED BY <1>0, <3>2, <3>3, <3>4 DEF Log!EventsAccounted
  <2>3. CASE \/ \E b \in FeedIds : Log!FeedBundle(b)
             \/ Log!Connect \/ Log!Prepare \/ Log!PrepareFails \/ Log!ConnectionLost \/ UNCHANGED Log!vars
    BY <2>3 DEF Log!EventsAccounted, Log!FeedBundle, Log!Connect, Log!Prepare, Log!PrepareFails, Log!ConnectionLost,
                Log!vars
  <2> QED BY <1>3, <2>1, <2>2, <2>3 DEF QuietStep
<1>4. CASE Log!InsertOpportunity
  BY <1>4 DEF Log!InsertOpportunity, Log!EventsAccounted
<1>5. CASE /\ writer = "writing"
           /\ Log!InsertExecution \/ Log!WriteUpdate \/ Log!InsertSniper \/ Log!WriteSell \/ Log!UpsertPerf
  BY <1>2, <1>5 DEF Log!InsertExecution, Log!WriteUpdate, Log!InsertSniper, Log!WriteSell, Log!UpsertPerf
<1>6. CASE Log!Restart
  <2>1. Len(queue') = 0 /\ Len(batch') = 0 /\ sent' = 0 /\ settled' = 0 /\ dropped' = 0
    BY <1>6, RestartType
  <2> QED BY <2>1 DEF Log!EventsAccounted
<1> QED BY <1>1, <1>3, <1>4, <1>5, <1>6, NextSteps

-----------------------------------------------------------------------------
(* Executions are linked to their own opportunity *)

\* LinkedWhenWritten is not inductive: the row of an execution is written
\* after the one of its opportunity because the two events wait in the order
\* the bundle was logged and sent, and an older row of the same id comes
\* earlier in the table.
Sent(b) == stage[b] \notin {"new", "handed"}
Executed(b) == \E x \in 1 .. Len(execs) : execs[x].start = start /\ execs[x].id = b

BundlesInOrder ==
  /\ Ahead("opportunity", "execution")
  /\ \A b \in Log!Bundles : Waiting("execution", b) => Sent(b)
  /\ \A b \in Log!Bundles : Executed(b) => Sent(b) /\ ~Waiting("opportunity", b)

OppsInOrder ==
  \A i, j \in 1 .. Len(opps) : i <= j => opps[i].start <= opps[j].start

\* Row x of the executions is linked to the opportunity of its bundle when
\* there is one.
Linked(x) ==
  (\E i \in 1 .. Len(opps) : opps[i].start = execs[x].start /\ opps[i].id = execs[x].id)
    => LET m == execs[x].opp
       IN  m \in 1 .. Len(opps) /\ opps[m].start = execs[x].start /\ opps[m].id = execs[x].id

LinkInv == /\ BundlesInOrder /\ OppsInOrder
           /\ \A x \in 1 .. Len(execs) : Linked(x)

LEMMA LinkInvLinks == LogType /\ LinkInv => Log!LinkedWhenWritten
<1> SUFFICES ASSUME LogType, LinkInv, NEW e \in Log!Range(execs),
                    NEW o \in Log!Range(opps), o.start = e.start, o.id = e.id
             PROVE  e.opp > 0 /\ opps[e.opp].start = e.start /\ opps[e.opp].id = e.id
  BY DEF Log!LinkedWhenWritten
<1>1. opps \in Seq(Opps) /\ execs \in Seq(Execs)
  BY DEF LogType, TableType
<1>2. PICK x \in 1 .. Len(execs) : e = execs[x]
  BY <1>1 DEF Log!Range
<1>3. PICK i \in 1 .. Len(opps) : o = opps[i]
  BY <1>1 DEF Log!Range
<1>4. Linked(x)
  BY DEF LinkInv
<1> QED BY <1>1, <1>2, <1>3, <1>4 DEF Linked

\* The threads that log move a bundle on, and a bundle that was sent stays so.
LEMMA SentStays ==
  ASSUME LogType, NEW e \in Events, Logs(e), NEW b \in Log!Bundles
  PROVE  /\ Sent(b) => Sent(b)' /\ ~(e.kind = "opportunity" /\ e.of = b)
         /\ e.kind = "execution" /\ e.of = b => Sent(b)'
         /\ e.kind = "opportunity" /\ e.of = b => ~Sent(b)
<1>1. stage \in [Log!Bundles -> {"new", "handed", "fast", "slow", "landed", "failed", "counted"}]
  BY DEF LogType, ProducerType
<1>2. e.kind = "update" => e.what[2] \in {"landed", "failed"}
  BY DEF Events
<1>3. e.kind = "execution" => e.what \in {"fast", "slow"}
  BY DEF Events
<1> QED BY <1>1, <1>2, <1>3 DEF Logs, Sent

LEMMA LinkLogStep == ASSUME LogType, LinkInv, LogStep PROVE LinkInv'
<1>1. PICK e \in Events : Logs(e) /\ Grows(e)
  BY LogStepType
<1>2. UNCHANGED <<start, opps, execs>>
  BY LogStepType DEF Log!tables
<1>4. /\ \A b \in Log!Bundles : Sent(b) => Sent(b)' /\ ~(e.kind = "opportunity" /\ e.of = b)
      /\ \A b \in Log!Bundles : e.kind = "execution" /\ e.of = b => Sent(b)'
      /\ \A b \in Log!Bundles : e.kind = "opportunity" /\ e.of = b => ~Sent(b)
  BY <1>1, SentStays
<1>5. e.kind = "opportunity" => e.of \in Log!Bundles
  BY DEF Events, Log!Bundles
<1>6. /\ \A x : Waiting("execution", x)' =>
                  Waiting("execution", x) \/ (e.kind = "execution" /\ e.of = x)
      /\ \A x : Waiting("opportunity", x)' =>
                  Waiting("opportunity", x) \/ (e.kind = "opportunity" /\ e.of = x)
      /\ Ahead("opportunity", "execution")
           /\ (e.kind = "opportunity" => ~Waiting("execution", e.of))
         => Ahead("opportunity", "execution")'
  BY <1>1, SentLast
<1>7. Ahead("opportunity", "execution")'
  BY <1>4, <1>5, <1>6 DEF LinkInv, BundlesInOrder
<1>8. \A b \in Log!Bundles : Waiting("execution", b)' => Sent(b)'
  BY <1>4, <1>6 DEF LinkInv, BundlesInOrder
<1>9. \A b \in Log!Bundles : Executed(b)' => Sent(b)' /\ ~Waiting("opportunity", b)'
  <2>1. \A b : Executed(b)' => Executed(b)
    BY <1>2 DEF Executed
  <2> QED BY <1>4, <1>6, <2>1 DEF LinkInv, BundlesInOrder
<1>10. BundlesInOrder'
  BY <1>7, <1>8, <1>9 DEF BundlesInOrder
<1> QED BY <1>2, <1>10 DEF LinkInv, OppsInOrder, Linked

\* The tables keep what LinkInv speaks of.
SameLinks == /\ SameOpps /\ Len(execs') = Len(execs)
             /\ \A x \in 1 .. Len(execs) : /\ execs'[x].start = execs[x].start
                                           /\ execs'[x].id = execs[x].id
                                           /\ execs'[x].opp = execs[x].opp

LEMMA LinkSame ==
  ASSUME LogType, LinkInv, Shrinks, SameLinks, start' = start,
         \A b \in Log!Bundles : Sent(b) => Sent(b)'
  PROVE  LinkInv'
<1>1. OppsInOrder' /\ (\A x \in 1 .. Len(execs) : Linked(x))'
  BY DEF LinkInv, OppsInOrder, Linked, SameLinks, SameOpps
<1>2. \A b : Executed(b)' => Executed(b)
  BY DEF SameLinks, Executed
<1>3. /\ \A x : Waiting("execution", x)' => Waiting("execution", x)
      /\ \A x : Waiting("opportunity", x)' => Waiting("opportunity", x)
      /\ Ahead("opportunity", "execution") => Ahead("opportunity", "execution")'
  BY WrittenFirst
<1>4. BundlesInOrder'
  BY <1>2, <1>3 DEF LinkInv, BundlesInOrder
<1> QED BY <1>1, <1>4 DEF LinkInv

LEMMA LinkOpportunity == ASSUME LogType, LinkInv, Log!InsertOpportunity PROVE LinkInv'
<1> DEFINE b == Event1.of
           n == Len(opps) + 1
<1>1. /\ Pending' = Pending /\ 1 \in DOMAIN Pending /\ Pending[1] = Event1
      /\ Event1 \in Events /\ Event1.kind = "opportunity"
      /\ opps' = Append(opps, [start |-> start, id |-> b, hops |-> FALSE])
      /\ UNCHANGED <<start, stage, execs>>
  BY OpportunityRow DEF Log!producers
<1>2. b \in Ids /\ b \in Log!Bundles
  BY <1>1 DEF Events, Log!Bundles
<1>3. /\ opps \in Seq(Opps) /\ Len(opps) \in Nat /\ start \in Nat
      /\ \A i \in 1 .. Len(opps) : opps[i].start <= start
  BY DEF LogType, TableType, ProducerType
<1>4. /\ Len(opps') = n /\ \A i \in 1 .. Len(opps) : opps'[i] = opps[i]
      /\ opps'[n].start = start /\ opps'[n].id = b
  BY <1>1, <1>3
<1>5. ~Executed(b)
  <2>1. Waiting("opportunity", b)
    BY <1>1 DEF Waiting
  <2> QED BY <1>2, <2>1 DEF LinkInv, BundlesInOrder
<1> HIDE DEF b
<1>6. OppsInOrder'
  <2> SUFFICES ASSUME NEW i \in 1 .. n, NEW j \in 1 .. n, i <= j
               PROVE  opps'[i].start <= opps'[j].start
    BY <1>4 DEF OppsInOrder
  <2>1. CASE j = n
    BY <1>3, <1>4, <2>1
  <2>2. CASE j # n
    <3>1. i \in 1 .. Len(opps) /\ j \in 1 .. Len(opps)
      BY <1>3, <2>2
    <3> QED BY <1>4, <3>1 DEF LinkInv, OppsInOrder
  <2> QED BY <2>1, <2>2
<1>7. (\A x \in 1 .. Len(execs) : Linked(x))'
  <2> SUFFICES ASSUME NEW x \in 1 .. Len(execs),
                      NEW i \in 1 .. n,
                      opps'[i].start = execs[x].start, opps'[i].id = execs[x].id
               PROVE  LET m == execs[x].opp
                      IN  m \in 1 .. n /\ opps'[m].start = execs[x].start
                                       /\ opps'[m].id = execs[x].id
    BY <1>1, <1>4 DEF Linked
  <2>1. i # n
    BY <1>4, <1>5 DEF Executed
  <2>2. i \in 1 .. Len(opps)
    BY <1>3, <2>1
  <2>3. LET m == execs[x].opp
        IN  m \in 1 .. Len(opps) /\ opps[m].start = execs[x].start /\ opps[m].id = execs[x].id
    BY <1>4, <2>2 DEF LinkInv, Linked
  <2> QED BY <1>3, <1>4, <2>3
<1>8. BundlesInOrder'
  <2>1. \A c : (Executed(c)' <=> Executed(c)) /\ (Sent(c)' <=> Sent(c))
    BY <1>1 DEF Executed, Sent
  <2>2. /\ \A k, x : Waiting(k, x)' <=> Waiting(k, x)
        /\ Ahead("opportunity", "execution")' <=> Ahead("opportunity", "execution")
    BY <1>1 DEF Waiting, Ahead
  <2> QED BY <2>1, <2>2 DEF LinkInv, BundlesInOrder
<1> QED BY <1>6, <1>7, <1>8 DEF LinkInv

LEMMA LinkExecution ==
  ASSUME LogType, LinkInv, writer = "writing", Log!InsertExecution PROVE LinkInv'
<1> DEFINE b == Event1.of
           n == Len(execs) + 1
           m == Log!OpportunityOf(b)
<1>1. /\ Shrinks /\ 1 \in DOMAIN Pending /\ Pending[1] = Event1
      /\ Event1 \in Events /\ Event1.kind = "execution"
      /\ UNCHANGED <<start, stage, opps>>
      /\ execs' = Append(execs, [start |-> start, id |-> b, opp |-> m,
                                 path |-> Event1.what, outcome |-> "none"])
  BY ExecutionRow DEF Written, Log!producers
<1>2. b \in Log!Bundles
  BY <1>1 DEF Events
<1>3. /\ execs \in Seq(Execs) /\ Len(execs) \in Nat /\ start \in Nat
      /\ Len(opps) \in Nat
      /\ \A i \in 1 .. Len(opps) : opps[i].start \in Nat /\ opps[i].start <= start
  <2>1. opps \in Seq(Opps) /\ execs \in Seq(Execs)
    BY DEF LogType, TableType
  <2>2. \A i \in 1 .. Len(opps) : opps[i] \in Opps
    BY <2>1
  <2> QED BY <2>1, <2>2 DEF LogType, TableType, ProducerType, Opps
<1>4. /\ m \in 0 .. Len(opps)
      /\ \A i \in 1 .. Len(opps) :
           opps[i].id = b => m \in 1 .. Len(opps) /\ opps[m].id = b /\ i <= m
  BY NewestOpportunity
<1> HIDE DEF m
<1>5. /\ Len(execs') = n /\ \A x \in 1 .. Len(execs) : execs'[x] = execs[x]
      /\ execs'[n].start = start /\ execs'[n].id = b /\ execs'[n].opp = m
  BY <1>1, <1>3
<1>6. Waiting("execution", b) /\ ~Waiting("opportunity", b)
  <2>1. Waiting("execution", b)
    BY <1>1 DEF Waiting
  <2>2. ~Waiting("opportunity", b)
    BY <1>1, FirstWaits DEF LinkInv, BundlesInOrder
  <2> QED BY <2>1, <2>2
<1> HIDE DEF b
<1>7. (\A x \in 1 .. Len(execs) : Linked(x))'
  <2> SUFFICES ASSUME NEW x \in 1 .. n,
                      NEW i \in 1 .. Len(opps),
                      opps[i].start = execs'[x].start, opps[i].id = execs'[x].id
               PROVE  LET k == execs'[x].opp
                      IN  k \in 1 .. Len(opps) /\ opps[k].start = execs'[x].start
                                               /\ opps[k].id = execs'[x].id
    BY <1>1, <1>5 DEF Linked
  <2>1. CASE x = n
    <3>1. m \in 1 .. Len(opps) /\ opps[m].id = b /\ i <= m /\ opps[i].start = start
      BY <1>4, <1>5, <2>1
    <3>2. opps[i].start <= opps[m].start
      BY <3>1 DEF LinkInv, OppsInOrder
    <3>3. opps[m].start = start
      BY <1>3, <3>1, <3>2
    <3> QED BY <1>5, <2>1, <3>1, <3>3
  <2>2. CASE x # n
    <3>1. x \in 1 .. Len(execs)
      BY <1>3, <2>2
    <3> QED BY <1>5, <3>1 DEF LinkInv, Linked
  <2> QED BY <2>1, <2>2
<1>8. \A c : Executed(c)' => Executed(c) \/ c = b
  <2> SUFFICES ASSUME NEW c, NEW x \in 1 .. n, execs'[x].start = start, execs'[x].id = c
               PROVE  Executed(c) \/ c = b
    BY <1>1, <1>5 DEF Executed
  <2>1. x = n \/ x \in 1 .. Len(execs)
    BY <1>3
  <2> QED BY <1>5, <2>1 DEF Executed
<1>9. /\ \A x : Waiting("execution", x)' => Waiting("execution", x)
      /\ \A x : Waiting("opportunity", x)' => Waiting("opportunity", x)
      /\ Ahead("opportunity", "execution") => Ahead("opportunity", "execution")'
  BY <1>1, WrittenFirst
<1>10. \A c : Sent(c)' <=> Sent(c)
  BY <1>1 DEF Sent
<1>11. BundlesInOrder'
  BY <1>2, <1>6, <1>8, <1>9, <1>10 DEF LinkInv, BundlesInOrder
<1>12. OppsInOrder'
  BY <1>1 DEF LinkInv, OppsInOrder
<1> QED BY <1>7, <1>11, <1>12 DEF LinkInv

LEMMA LinkRestart == ASSUME LogType, LinkInv, Log!Restart PROVE LinkInv'
<1>1. /\ DOMAIN Pending' = {} /\ start' = start + 1 /\ start \in Nat
      /\ UNCHANGED <<opps, execs>>
  BY RestartType DEF Log!tables
<1>2. \A x \in 1 .. Len(execs) : execs[x].start # start'
  <2>1. execs \in Seq(Execs)
    BY DEF LogType, TableType
  <2>2. \A x \in 1 .. Len(execs) : execs[x] \in Execs /\ execs[x].start <= start
    BY <2>1 DEF LogType, TableType
  <2> QED BY <1>1, <2>2 DEF Execs
<1>3. \A b : ~Executed(b)'
  BY <1>1, <1>2 DEF Executed
<1>4. (\A x : ~Waiting("execution", x)') /\ Ahead("opportunity", "execution")'
  BY <1>1 DEF Waiting, Ahead
<1>5. BundlesInOrder'
  BY <1>3, <1>4 DEF BundlesInOrder
<1>6. OppsInOrder' /\ (\A x \in 1 .. Len(execs) : Linked(x))'
  BY <1>1 DEF LinkInv, OppsInOrder, Linked
<1> QED BY <1>5, <1>6 DEF LinkInv

LEMMA LinkStep == LogType /\ LinkInv /\ [Log!Next]_(Log!vars) => LinkInv'
<1> SUFFICES ASSUME LogType, LinkInv, [Log!Next]_(Log!vars) PROVE LinkInv'
  OBVIOUS
<1>0. opps \in Seq(Opps)
  BY DEF LogType, TableType
<1>1. CASE QuietStep
  <2>1. Shrinks /\ SameLinks /\ start' = start
    BY <1>1, QuietSteps DEF SameLinks
  <2>2. \A b \in Log!Bundles : Sent(b) => Sent(b)'
    BY <1>1, QuietSteps DEF Sent
  <2> QED BY <2>1, <2>2, LinkSame
<1>2. CASE writer = "writing" /\ (Log!InsertSniper \/ Log!WriteSell \/ Log!UpsertPerf)
  <2>1. Written /\ UNCHANGED <<opps, execs>>
    BY <1>2, SnipeRow, SaleWritten, PerfWritten
  <2>2. Shrinks /\ SameLinks /\ start' = start /\ (\A b \in Log!Bundles : Sent(b) => Sent(b)')
    BY <1>0, <2>1 DEF Written, SameLinks, SameOpps, Log!producers, Sent
  <2> QED BY <2>2, LinkSame
<1>3. CASE writer = "writing" /\ Log!WriteUpdate
  <2>1. /\ Written /\ opps' = opps /\ Len(execs') = Len(execs)
        /\ \A i \in 1 .. Len(execs) : execs'[i] = SetOutcome(execs[i], Event1)
    BY <1>3, OutcomeWritten
  <2>2. \A i \in 1 .. Len(execs) : execs[i] \in Execs
    <3>1. execs \in Seq(Execs)
      BY DEF LogType, TableType
    <3> QED BY <3>1
  <2>3. SameLinks
    BY <1>0, <2>1, <2>2 DEF SameLinks, SameOpps, SetOutcome, Execs
  <2>4. Shrinks /\ start' = start /\ (\A b \in Log!Bundles : Sent(b) => Sent(b)')
    BY <2>1 DEF Written, Log!producers, Sent
  <2> QED BY <2>3, <2>4, LinkSame
<1> QED BY <1>1, <1>2, <1>3, NextSteps, LinkLogStep, LinkOpportunity, LinkExecution, LinkRestart

-----------------------------------------------------------------------------
(* Outcomes are those of their sends *)

\* Bundle b has the outcome o, and may be counted.
Ended(b, o) == stage[b] \in {o} \cup (IF o = "landed" THEN {"counted"} ELSE {})

\* OutcomesOfSends is not inductive: the outcome travels in an event.
OutcomeInv ==
  /\ \A i \in DOMAIN Pending :
       Pending[i].kind = "update" => Ended(Pending[i].of, Pending[i].what[2])
  /\ \A x \in 1 .. Len(execs) :
       execs[x].outcome # "none" =>
         execs[x].path = "fast" /\ (execs[x].start = start => Ended(execs[x].id, execs[x].outcome))

LEMMA OutcomeInvOutcomes == LogType /\ OutcomeInv => Log!OutcomesOfSends
<1> SUFFICES ASSUME LogType, OutcomeInv, NEW e \in Log!Range(execs), e.outcome # "none"
             PROVE  e.path = "fast" /\ (e.start = start => Ended(e.id, e.outcome))
  BY DEF Log!OutcomesOfSends, Ended
<1>1. execs \in Seq(Execs)
  BY DEF LogType, TableType
<1>2. PICK x \in 1 .. Len(execs) : e = execs[x]
  BY <1>1 DEF Log!Range
<1> QED BY <1>2 DEF OutcomeInv

\* What has ended stays so, in every process.
LEMMA EndedStays ==
  ASSUME LogType, NEW b \in Log!Bundles, NEW o \in {"landed", "failed"}, Ended(b, o),
         \/ \E e \in Events : Logs(e)
         \/ stage'[b] = stage[b]
         \/ stage[b] = "new"
  PROVE  Ended(b, o)'
<1>1. stage \in [Log!Bundles -> {"new", "handed", "fast", "slow", "landed", "failed", "counted"}]
  BY DEF LogType, ProducerType
<1>2. stage[b] \in {"landed", "failed", "counted"} /\ (stage[b] = "landed" => o = "landed")
  BY DEF Ended
<1>3. CASE stage'[b] = stage[b]
  BY <1>3 DEF Ended
<1>4. ASSUME NEW e \in Events, Logs(e)
      PROVE  stage'[b] = stage[b] \/ (stage[b] = "landed" /\ stage'[b] = "counted")
  BY <1>1, <1>2, <1>4 DEF Logs
<1> QED BY <1>2, <1>3, <1>4 DEF Ended

\* The rows keep what OutcomeInv speaks of, or have no outcome.
LEMMA OutcomeKept ==
  ASSUME LogType, OutcomeInv, start' = start,
         \A i \in DOMAIN Pending' : \/ \E j \in DOMAIN Pending : Pending'[i] = Pending[j]
                                    \/ Pending'[i].kind # "update"
                                    \/ Ended(Pending[i].of, Pending[i].what[2])',
         \A x \in 1 .. Len(execs') : \/ x \in 1 .. Len(execs) /\ execs'[x] = execs[x]
                                     \/ execs'[x].outcome = "none"
                                     \/ /\ execs'[x].path = "fast"
                                        /\ \E b, o : /\ execs'[x].id = b
                                                     /\ execs'[x].outcome = o
                                                     /\ Ended(b, o)',
         \A b \in Log!Bundles, o \in {"landed", "failed"} : Ended(b, o) => Ended(b, o)'
  PROVE  OutcomeInv'
<1>1. \A i \in DOMAIN Pending : Pending[i] \in Events
  BY PendingIs
<1>2. \A i \in DOMAIN Pending : Pending[i].kind = "update" =>
        Pending[i].of \in Log!Bundles /\ Pending[i].what[2] \in {"landed", "failed"}
  BY <1>1 DEF Events
<1>3. ASSUME NEW i \in DOMAIN Pending', Pending'[i].kind = "update"
      PROVE  Ended(Pending[i].of, Pending[i].what[2])'
  <2>1. CASE \E j \in DOMAIN Pending : Pending'[i] = Pending[j]
    <3>1. PICK j \in DOMAIN Pending : Pending'[i] = Pending[j]
      BY <2>1
    <3> DEFINE b == Pending[j].of
               o == Pending[j].what[2]
    <3>2. b \in Log!Bundles /\ o \in {"landed", "failed"} /\ Ended(b, o)
      BY <1>2, <1>3, <3>1 DEF OutcomeInv
    <3>3. stage'[b] \in {o} \cup (IF o = "landed" THEN {"counted"} ELSE {})
      <4> HIDE DEF b, o
      <4>1. \A c \in Log!Bundles, p \in {"landed", "failed"} :
              Ended(c, p) => stage'[c] \in {p} \cup (IF p = "landed" THEN {"counted"} ELSE {})
        BY DEF Ended
      <4> QED BY <3>2, <4>1
    <3> QED BY <3>1, <3>3 DEF Ended
  <2> QED BY <1>3, <2>1
<1>4. ASSUME NEW x \in 1 .. Len(execs'), execs'[x].outcome # "none"
      PROVE  /\ execs'[x].path = "fast"
             /\ execs'[x].start = start => Ended(execs[x].id, execs[x].outcome)'
  <2>1. CASE x \in 1 .. Len(execs) /\ execs'[x] = execs[x]
    <3>1. execs[x] \in Execs
      <4>1. execs \in Seq(Execs)
        BY DEF LogType, TableType
      <4> QED BY <2>1, <4>1
    <3>2. execs[x].id \in Log!Bundles /\ execs[x].outcome \in {"landed", "failed"}
      BY <1>4, <2>1, <3>1 DEF Execs
    <3>3. \A c \in Log!Bundles, p \in {"landed", "failed"} :
            Ended(c, p) => stage'[c] \in {p} \cup (IF p = "landed" THEN {"counted"} ELSE {})
      BY DEF Ended
    <3> QED BY <1>4, <2>1, <3>2, <3>3 DEF OutcomeInv, Ended
  <2>2. CASE /\ execs'[x].path = "fast"
             /\ \E b, o : execs'[x].id = b /\ execs'[x].outcome = o /\ Ended(b, o)'
    BY <2>2 DEF Ended
  <2> QED BY <1>4, <2>1, <2>2
<1> QED BY <1>3, <1>4 DEF OutcomeInv

LEMMA OutcomeStep == LogType /\ OutcomeInv /\ [Log!Next]_(Log!vars) => OutcomeInv'
<1> SUFFICES ASSUME LogType, OutcomeInv, [Log!Next]_(Log!vars) PROVE OutcomeInv'
  OBVIOUS
<1>0. /\ execs \in Seq(Execs) /\ Len(execs) \in Nat
      /\ DOMAIN Pending \subseteq Nat
      /\ \A i \in 1 .. Len(execs) : execs[i] \in Execs
  <2>1. execs \in Seq(Execs)
    BY DEF LogType, TableType
  <2> QED BY <2>1, PendingIs
<1>1. Shrinks => \A i \in DOMAIN Pending' : \E j \in DOMAIN Pending : Pending'[i] = Pending[j]
  BY DEF Shrinks
<1>2. CASE LogStep
  <2>1. PICK e \in Events : Logs(e) /\ Grows(e)
    BY <1>2, LogStepType
  <2>2. UNCHANGED <<start, execs>>
    BY <1>2, LogStepType DEF Log!tables
  <2>3. \A b \in Log!Bundles, o \in {"landed", "failed"} : Ended(b, o) => Ended(b, o)'
    BY <2>1, EndedStays
  <2>4. e.kind = "update" => Ended(e.of, e.what[2])'
    <3> SUFFICES ASSUME e.kind = "update" PROVE stage'[e.of] = e.what[2]
      BY DEF Ended
    <3>1. e.of \in Log!Bundles
      BY DEF Events
    <3> QED BY <2>1, <3>1 DEF Logs, LogType, ProducerType
  <2>5. \A i \in DOMAIN Pending' : \/ \E j \in DOMAIN Pending : Pending'[i] = Pending[j]
                                   \/ Pending'[i].kind # "update"
                                   \/ Ended(Pending[i].of, Pending[i].what[2])'
    <3> SUFFICES ASSUME NEW i \in DOMAIN Pending',
                        Pending'[i] = e, e.kind = "update"
                 PROVE  Ended(Pending[i].of, Pending[i].what[2])'
      BY <2>1 DEF Grows
    <3> QED BY <2>4 DEF Ended
  <2> QED BY <2>2, <2>3, <2>5, OutcomeKept
<1>3. CASE QuietStep
  <2>1. /\ Shrinks /\ UNCHANGED <<start, execs>>
        /\ \A b \in Log!Bundles : stage'[b] = stage[b] \/ stage[b] = "new"
    BY <1>3, QuietSteps
  <2>2. \A b \in Log!Bundles, o \in {"landed", "failed"} : Ended(b, o) => Ended(b, o)'
    BY <2>1, EndedStays
  <2> QED BY <1>1, <2>1, <2>2, OutcomeKept
<1>4. CASE Log!InsertOpportunity \/ (writer = "writing" /\ (Log!InsertSniper \/ Log!WriteSell \/ Log!UpsertPerf))
  <2>1. /\ (Pending' = Pending \/ Shrinks) /\ UNCHANGED <<start, stage, execs>>
    BY <1>4, OpportunityRow, SnipeRow, SaleWritten, PerfWritten DEF Written, Log!producers
  <2>2. \A b \in Log!Bundles, o \in {"landed", "failed"} : Ended(b, o) => Ended(b, o)'
    BY <2>1, EndedStays
  <2> QED BY <1>1, <2>1, <2>2, OutcomeKept
<1>5. CASE writer = "writing" /\ Log!InsertExecution
  <2>1. /\ Shrinks /\ UNCHANGED <<start, stage>>
        /\ execs' = Append(execs, [start |-> start, id |-> Event1.of,
                                   opp |-> Log!OpportunityOf(Event1.of),
                                   path |-> Event1.what, outcome |-> "none"])
    BY <1>5, ExecutionRow DEF Written, Log!producers
  <2>2. \A b \in Log!Bundles, o \in {"landed", "failed"} : Ended(b, o) => Ended(b, o)'
    BY <2>1, EndedStays
  <2>3. \A x \in 1 .. Len(execs') :
          \/ x \in 1 .. Len(execs) /\ execs'[x] = execs[x]
          \/ execs'[x].outcome = "none"
    <3> DEFINE y == [start |-> start, id |-> Event1.of, opp |-> Log!OpportunityOf(Event1.of),
                     path |-> Event1.what, outcome |-> "none"]
    <3>1. y.outcome = "none"
      OBVIOUS
    <3> HIDE DEF y
    <3>2. execs' = Append(execs, y)
      BY <2>1 DEF y
    <3>3. /\ Len(execs') = Len(execs) + 1 /\ execs'[Len(execs) + 1] = y
          /\ \A x \in 1 .. Len(execs) : execs'[x] = execs[x]
      BY <1>0, <3>2
    <3> QED BY <1>0, <3>1, <3>3
  <2> QED BY <1>1, <2>1, <2>2, <2>3, OutcomeKept
<1>6. CASE writer = "writing" /\ Log!WriteUpdate
  <2>1. /\ Shrinks /\ UNCHANGED <<start, stage>> /\ 1 \in DOMAIN Pending
        /\ Pending[1] = Event1 /\ Event1 \in Events /\ Event1.kind = "update"
        /\ Len(execs') = Len(execs)
        /\ \A i \in 1 .. Len(execs) : execs'[i] = SetOutcome(execs[i], Event1)
    BY <1>6, OutcomeWritten DEF Written, Log!producers
  <2>2. \A b \in Log!Bundles, o \in {"landed", "failed"} : Ended(b, o) => Ended(b, o)'
    BY <2>1, EndedStays
  <2>3. Ended(Event1.of, Event1.what[2])
    BY <2>1 DEF OutcomeInv
  <2>4. ASSUME NEW x \in 1 .. Len(execs'), execs'[x] # execs[x]
        PROVE  /\ execs'[x].path = "fast"
               /\ \E b, o : execs'[x].id = b /\ execs'[x].outcome = o /\ Ended(b, o)'
    <3> DEFINE b == Event1.of
               o == Event1.what[2]
    <3>1. execs[x] \in Execs /\ execs'[x] = SetOutcome(execs[x], Event1)
      BY <1>0, <2>1
    <3>2. execs'[x].path = "fast" /\ execs'[x].id = b /\ execs'[x].outcome = o
      BY <2>4, <3>1 DEF SetOutcome, Execs
    <3>3. stage'[b] \in {o} \cup (IF o = "landed" THEN {"counted"} ELSE {})
      BY <2>1, <2>3 DEF Ended
    <3> HIDE DEF b, o
    <3> QED BY <3>2, <3>3 DEF Ended
  <2> QED BY <1>0, <1>1, <2>1, <2>2, <2>4, OutcomeKept
<1>7. CASE Log!Restart
  <2>1. /\ DOMAIN Pending' = {} /\ start' = start + 1 /\ start \in Nat /\ execs' = execs
    BY <1>7, RestartType DEF Log!tables
  <2>2. \A x \in 1 .. Len(execs) : execs[x].start # start'
    BY <1>0, <2>1 DEF LogType, TableType, Execs
  <2> QED BY <2>1, <2>2 DEF OutcomeInv
<1> QED BY <1>2, <1>3, <1>4, <1>5, <1>6, <1>7, NextSteps

-----------------------------------------------------------------------------
(* Only landings are counted *)

PerfInv == /\ Log!OnlyLandingsCounted
           /\ \A i \in DOMAIN Pending : Pending[i].kind = "perf" => Pending[i].what = "landed"

LEMMA PerfStep == LogType /\ PerfInv /\ [Log!Next]_(Log!vars) => PerfInv'
<1> SUFFICES ASSUME LogType, PerfInv, [Log!Next]_(Log!vars) PROVE PerfInv'
  OBVIOUS
<1>1. Shrinks => \A i \in DOMAIN Pending' : \E j \in DOMAIN Pending : Pending'[i] = Pending[j]
  BY DEF Shrinks
<1>2. CASE LogStep
  <2>1. PICK e \in Events : Logs(e) /\ Grows(e)
    BY <1>2, LogStepType
  <2>2. perf' = perf
    BY <1>2, LogStepType DEF Log!tables
  <2>3. e.kind = "perf" => e.what = "landed"
    BY <2>1 DEF Logs
  <2> QED BY <2>1, <2>2, <2>3 DEF PerfInv, Log!OnlyLandingsCounted, Grows
<1>3. CASE writer = "writing" /\ Log!UpsertPerf
  <2>1. /\ Shrinks /\ 1 \in DOMAIN Pending /\ Pending[1] = Event1 /\ Event1.kind = "perf"
        /\ perf' = [opps |-> perf.opps + 1,
                    landed |-> perf.landed + (IF Event1.what = "landed" THEN 1 ELSE 0)]
    BY <1>3, PerfWritten DEF Written
  <2>2. Event1.what = "landed"
    BY <2>1 DEF PerfInv
  <2> QED BY <1>1, <2>1, <2>2 DEF PerfInv, Log!OnlyLandingsCounted
<1>4. CASE \/ QuietStep \/ Log!InsertOpportunity \/ Log!Restart
           \/ writer = "writing" /\ (Log!InsertExecution \/ Log!WriteUpdate \/ Log!InsertSniper \/ Log!WriteSell)
  <2>1. perf' = perf /\ (Shrinks \/ Pending' = Pending \/ DOMAIN Pending' = {})
    BY <1>4, QuietSteps, OpportunityRow, RestartType, ExecutionRow, OutcomeWritten, SnipeRow,
       SaleWritten DEF Written, Log!tables
  <2> QED BY <1>1, <2>1 DEF PerfInv, Log!OnlyLandingsCounted
<1> QED BY <1>2, <1>3, <1>4, NextSteps

-----------------------------------------------------------------------------
(* Sales are on the rows of their snipes *)

\* SalesPlaced is not inductive: that no row of a snipe comes after its sale
\* follows from the order the two events wait in.
SoldRow(n) == \E i \in 1 .. Len(events) : events[i].sale = <<start, n>>

SnipesInOrder ==
  /\ Ahead("snipe", "sell")
  /\ \A n \in Snipes : Waiting("sell", n) => sniped[n] = "sold"
  /\ \A n \in Snipes : SoldRow(n) => sniped[n] = "sold" /\ ~Waiting("snipe", n)

SaleInv == SnipesInOrder /\ Log!SalesPlaced

\* Steps that leave the table of the snipes alone.
LEMMA SaleSame ==
  ASSUME LogType, SaleInv, Shrinks \/ Pending' = Pending, UNCHANGED <<start, sniped, events>>
  PROVE  SaleInv'
<1>1. \A n : SoldRow(n)' <=> SoldRow(n)
  BY DEF SoldRow
<1>2. /\ \A x : Waiting("sell", x)' => Waiting("sell", x)
      /\ \A x : Waiting("snipe", x)' => Waiting("snipe", x)
      /\ Ahead("snipe", "sell") => Ahead("snipe", "sell")'
  <2>1. Shrinks
    BY StaysShrinks
  <2> QED BY <2>1, WrittenFirst
<1> QED BY <1>1, <1>2 DEF SaleInv, SnipesInOrder, Log!SalesPlaced

LEMMA SaleLogStep == ASSUME LogType, SaleInv, LogStep PROVE SaleInv'
<1>1. PICK e \in Events : Logs(e) /\ Grows(e)
  BY LogStepType
<1>2. UNCHANGED <<start, events>>
  BY LogStepType DEF Log!tables
<1>3. sniped \in [Snipes -> {"new", "held", "sold"}]
  BY DEF LogType, ProducerType
<1>4. e.kind \in {"snipe", "sell"} => e.of \in Snipes
  BY DEF Events
<1>5. /\ \A x : Waiting("sell", x)' => Waiting("sell", x) \/ (e.kind = "sell" /\ e.of = x)
      /\ \A x : Waiting("snipe", x)' => Waiting("snipe", x) \/ (e.kind = "snipe" /\ e.of = x)
      /\ Ahead("snipe", "sell") /\ (e.kind = "snipe" => ~Waiting("sell", e.of))
           => Ahead("snipe", "sell")'
  BY <1>1, SentLast
<1>6. /\ e.kind = "snipe" => sniped[e.of] = "new"
      /\ e.kind = "sell" => sniped'[e.of] = "sold"
      /\ \A n \in Snipes : sniped[n] = "sold" => sniped'[n] = "sold"
  BY <1>1, <1>3, <1>4 DEF Logs
<1>7. \A n : SoldRow(n)' <=> SoldRow(n)
  BY <1>2 DEF SoldRow
<1>8. SnipesInOrder'
  BY <1>4, <1>5, <1>6, <1>7 DEF SaleInv, SnipesInOrder
<1> QED BY <1>2, <1>8 DEF SaleInv, Log!SalesPlaced

LEMMA SaleSnipeRow ==
  ASSUME LogType, SaleInv, writer = "writing", Log!InsertSniper PROVE SaleInv'
<1> DEFINE b == Event1.of
           n == Len(events) + 1
           y == [start |-> start, n |-> b, sale |-> <<>>]
<1>1. /\ Shrinks /\ 1 \in DOMAIN Pending /\ Pending[1] = Event1
      /\ Event1 \in Events /\ Event1.kind = "snipe"
      /\ UNCHANGED <<start, sniped>> /\ events' = Append(events, y)
  BY SnipeRow DEF Written, Log!producers
<1>2. b \in Snipes /\ Waiting("snipe", b)
  BY <1>1 DEF Events, Waiting
<1>3. y.start = start /\ y.n = b /\ y.sale = <<>>
  OBVIOUS
<1> HIDE DEF y
<1>4. events \in Seq(Sales) /\ Len(events) \in Nat
  BY DEF LogType, TableType
<1>5. /\ DOMAIN events = 1 .. Len(events) /\ DOMAIN events' = 1 .. n
      /\ \A i \in 1 .. Len(events) : events'[i] = events[i]
      /\ events'[n] = y
  BY <1>1, <1>4
<1>6. Len(events') = n
  BY <1>1, <1>4
<1>7. \A c : <<>> # <<start, c>>
  OBVIOUS
<1>8. \A c : SoldRow(c)' => SoldRow(c)
  <2> SUFFICES ASSUME NEW c, NEW i \in 1 .. n, events'[i].sale = <<start, c>>
               PROVE  SoldRow(c)
    BY <1>1, <1>6 DEF SoldRow
  <2>1. i # n
    <3>1. y.sale # <<start, c>>
      BY <1>3, <1>7
    <3> QED BY <1>5, <3>1
  <2>2. i \in 1 .. Len(events)
    BY <1>4, <2>1
  <2> QED BY <1>5, <2>2 DEF SoldRow
<1>9. ~SoldRow(b)
  BY <1>2 DEF SaleInv, SnipesInOrder
<1>10. Log!SalesPlaced'
  <2> SUFFICES ASSUME NEW i \in 1 .. n, events'[i].sale # <<>>, NEW j \in 1 .. n,
                      <<events'[j].start, events'[j].n>> = events'[i].sale
               PROVE  j <= i
    BY <1>5 DEF Log!SalesPlaced
  <2>1. i \in 1 .. Len(events) /\ events'[i] = events[i]
    BY <1>3, <1>4, <1>5
  <2>2. CASE j = n
    <3>1. events[i].sale = <<start, b>>
      BY <1>3, <1>5, <2>1, <2>2
    <3> QED BY <1>9, <2>1, <3>1 DEF SoldRow
  <2>3. CASE j # n
    <3>1. j \in 1 .. Len(events) /\ events'[j] = events[j]
      BY <1>4, <1>5, <2>3
    <3> QED BY <1>5, <2>1, <3>1 DEF SaleInv, Log!SalesPlaced
  <2> QED BY <2>2, <2>3
<1>11. /\ \A x : Waiting("sell", x)' => Waiting("sell", x)
       /\ \A x : Waiting("snipe", x)' => Waiting("snipe", x)
       /\ Ahead("snipe", "sell") => Ahead("snipe", "sell")'
  BY <1>1, WrittenFirst
<1>12. SnipesInOrder'
  BY <1>1, <1>8, <1>11 DEF SaleInv, SnipesInOrder
<1> QED BY <1>10, <1>12 DEF SaleInv

LEMMA SaleSold ==
  ASSUME LogType, SaleInv, writer = "writing", Log!WriteSell PROVE SaleInv'
<1> DEFINE b == Event1.of
           n == Len(events)
<1>1. /\ Shrinks /\ 1 \in DOMAIN Pending /\ Pending[1] = Event1
      /\ Event1 \in Events /\ Event1.kind = "sell" /\ Event1.start = start
      /\ UNCHANGED <<start, sniped>> /\ Len(events') = n
      /\ \A i \in 1 .. n : events'[i] = SetSale(events[i], i, Event1)
  BY SaleWritten DEF Written, Log!producers
<1>2. /\ events \in Seq(Sales) /\ events' \in Seq(Sales) /\ n \in Nat
  BY SaleWritten DEF Written, LogType, TableType
<1>3. /\ DOMAIN events = 1 .. n /\ DOMAIN events' = 1 .. n
      /\ \A i \in 1 .. n : events[i] \in Sales
  BY <1>1, <1>2
<1>4. b \in Snipes /\ Waiting("sell", b) /\ ~Waiting("snipe", b) /\ sniped[b] = "sold"
  <2>1. b \in Snipes /\ Waiting("sell", b)
    BY <1>1 DEF Events, Waiting
  <2>2. ~Waiting("snipe", b)
    BY <1>1, FirstWaits DEF SaleInv, SnipesInOrder
  <2> QED BY <2>1, <2>2 DEF SaleInv, SnipesInOrder
<1>5. \A i \in 1 .. n : /\ events'[i].start = events[i].start /\ events'[i].n = events[i].n
                        /\ events'[i].sale = IF i = n THEN <<start, b>> ELSE events[i].sale
  BY <1>1, <1>3 DEF SetSale, Sales
<1> HIDE DEF b
<1>6. \A c : SoldRow(c)' => SoldRow(c) \/ c = b
  BY <1>1, <1>5 DEF SoldRow
<1>7. Log!SalesPlaced'
  <2> SUFFICES ASSUME NEW i \in 1 .. n, events'[i].sale # <<>>, NEW j \in 1 .. n,
                      <<events'[j].start, events'[j].n>> = events'[i].sale
               PROVE  j <= i
    BY <1>3 DEF Log!SalesPlaced
  <2>1. CASE i = n
    BY <2>1
  <2>2. CASE i # n
    BY <1>3, <1>5, <2>2 DEF SaleInv, Log!SalesPlaced
  <2> QED BY <2>1, <2>2
<1>8. /\ \A x : Waiting("sell", x)' => Waiting("sell", x)
      /\ \A x : Waiting("snipe", x)' => Waiting("snipe", x)
      /\ Ahead("snipe", "sell") => Ahead("snipe", "sell")'
  BY <1>1, WrittenFirst
<1>9. SnipesInOrder'
  BY <1>1, <1>4, <1>6, <1>8 DEF SaleInv, SnipesInOrder
<1> QED BY <1>7, <1>9 DEF SaleInv

LEMMA SaleRestart == ASSUME LogType, SaleInv, Log!Restart PROVE SaleInv'
<1>1. DOMAIN Pending' = {} /\ start' = start + 1 /\ start \in Nat /\ events' = events
  BY RestartType DEF Log!tables
<1>2. events \in Seq(Sales)
  BY DEF LogType, TableType
<1>3. \A i \in 1 .. Len(events) :
        events[i].sale # <<>> => events[i].sale[1] \in Nat /\ events[i].sale[1] <= start
  <2>1. \A i \in 1 .. Len(events) : events[i] \in Sales
    BY <1>2
  <2> QED BY <2>1 DEF Sales, LogType, TableType
<1>4. \A n : ~SoldRow(n)'
  <2> SUFFICES ASSUME NEW n, NEW i \in 1 .. Len(events), events[i].sale = <<start', n>>
               PROVE  FALSE
    BY <1>1 DEF SoldRow
  <2> DEFINE z == <<start', n>>
  <2>1. z # <<>> /\ z[1] = start'
    OBVIOUS
  <2>2. events[i].sale = z
    OBVIOUS
  <2> HIDE DEF z
  <2>3. events[i].sale # <<>> /\ events[i].sale[1] = start'
    BY <2>1, <2>2
  <2>4. start' <= start
    BY <1>3, <2>3
  <2> QED BY <1>1, <2>4
<1>5. (\A x : ~Waiting("sell", x)') /\ Ahead("snipe", "sell")'
  BY <1>1 DEF Waiting, Ahead
<1> QED BY <1>1, <1>4, <1>5 DEF SaleInv, SnipesInOrder, Log!SalesPlaced

LEMMA SaleStep == LogType /\ SaleInv /\ [Log!Next]_(Log!vars) => SaleInv'
<1> SUFFICES ASSUME LogType, SaleInv, [Log!Next]_(Log!vars) PROVE SaleInv'
  OBVIOUS
<1>1. CASE \/ QuietStep \/ Log!InsertOpportunity
           \/ writer = "writing" /\ (Log!InsertExecution \/ Log!WriteUpdate \/ Log!UpsertPerf)
  <2>1. (Shrinks \/ Pending' = Pending) /\ UNCHANGED <<start, sniped, events>>
    BY <1>1, QuietSteps, OpportunityRow, ExecutionRow, OutcomeWritten, PerfWritten
       DEF Written, Log!producers
  <2> QED BY <2>1, SaleSame
<1> QED BY <1>1, NextSteps, SaleLogStep, SaleSnipeRow, SaleSold, SaleRestart

-----------------------------------------------------------------------------
LogInv == LogType /\ Log!EventsAccounted /\ LinkInv /\ OutcomeInv /\ PerfInv /\ SaleInv

LEMMA InitLogInv == Log!Init => LogInv
<1> SUFFICES ASSUME Log!Init PROVE LogInv
  OBVIOUS
<1>1. LogType
  BY InitLogType
<1>2. queue = <<>> /\ batch = <<>> /\ opps = <<>> /\ execs = <<>> /\ events = <<>>
  BY DEF Log!Init
<1>3. DOMAIN Pending = {} /\ 1 .. Len(opps) = {} /\ 1 .. Len(execs) = {}
      /\ 1 .. Len(events) = {} /\ DOMAIN events = {} /\ Len(queue) = 0 /\ Len(batch) = 0
  BY <1>2 DEF Pending
<1>4. Log!EventsAccounted
  BY <1>3 DEF Log!Init, Log!EventsAccounted
<1>5. LinkInv
  BY <1>3 DEF LinkInv, BundlesInOrder, OppsInOrder, Executed, Waiting, Ahead
<1>6. OutcomeInv
  BY <1>3 DEF OutcomeInv
<1>7. PerfInv
  BY <1>3 DEF Log!Init, PerfInv, Log!OnlyLandingsCounted
<1>8. SaleInv
  BY <1>3 DEF SaleInv, SnipesInOrder, SoldRow, Log!SalesPlaced, Waiting, Ahead
<1> QED BY <1>1, <1>4, <1>5, <1>6, <1>7, <1>8 DEF LogInv

LEMMA NextLogInv == LogInv /\ [Log!Next]_(Log!vars) => LogInv'
BY NextLogType, AccountStep, LinkStep, OutcomeStep, PerfStep, SaleStep DEF LogInv

LEMMA LogInvTrue == LogInv => Log!TypeOK /\ Log!LogIsTrue
BY LogTypeIsTypeOK, LinkInvLinks, OutcomeInvOutcomes DEF LogInv, Log!LogIsTrue, PerfInv, SaleInv

\* The log of StrategyLogger tells the truth, whatever its senders do: no event
\* is lost without being counted while the writer lives, executions are linked
\* to their own opportunity whenever it was written, and outcomes and sales are
\* on the right rows, for any bundles, snipes, capacity, batch size and number
\* of restarts (send, run_writer, insert_execution, update_execution,
\* update_sniper_sell).
THEOREM LogTellsTheTruth == Log!Spec => [](Log!TypeOK /\ Log!LogIsTrue)
BY InitLogInv, NextLogInv, LogInvTrue, PTL DEF Log!Spec

\* So does the log the executor's outcomes end in, whichever part of it runs
\* (executor/src/lib.rs hands its events to strategy-logger).
THEOREM LogStaysTrue == MCSpec => []LogIsTrue
<1>1. MCInit => LogInv
  BY InitLogInv DEF MCInit
<1>2. LogInv /\ [MCNext]_<<part, vars, logState>> => LogInv'
  <2>1. ASSUME [MCNext]_<<part, vars, logState>> PROVE [Log!Next]_(Log!vars)
    BY <2>1 DEF MCNext, logState, Log!vars, Log!producers, Log!tables
  <2> QED BY <2>1, NextLogInv
<1>3. LogInv => LogIsTrue
  BY LogInvTrue DEF LogIsTrue
<1> QED BY <1>1, <1>2, <1>3, PTL DEF MCSpec
=============================================================================
