---------------------------- MODULE ExecutorProofs ----------------------------
(***************************************************************************)
(* TLAPS proofs about Executor: sends of a route stay apart and a          *)
(* blacklisted route stays blacklisted although retain drops entries and   *)
(* send tasks overwrite them; what the bot learns from its sends is what   *)
(* happened; and no path forgets JITO_ONLY or DRY_RUN, across restarts.    *)
(***************************************************************************)
EXTENDS Executor, TLAPS

\* The values of a send task.
TaskType == [route : Routes \cup {None}, failures : Nat,
             path : {"none", "fast", "slow"},
             pc : {"none", "send", "poll", "done", "lost"},
             polls : 0 .. NumPolls - 1,
             chain : {"unseen", "failed", "landed"},
             record : {"none", "failed", "landed", "expired"}]

EntryType == [at : Nat, cool : Nat, failures : Nat]

\* TypeOK in the parts that change together.
ProcessType == /\ clock \in Nat /\ env \in {"dry", "live"}
               /\ proc \in [fast : BOOLEAN, jitoOnly : BOOLEAN, dry : BOOLEAN]
               /\ restart \in BOOLEAN /\ hasHash \in BOOLEAN
               /\ simPassed \in BOOLEAN /\ bornDry \in BOOLEAN

ThreadType == /\ pc \in {"idle", "read", "claim", "fast", "slow", "build", "rebuilt"}
              /\ cur \in [route : Routes \cup {None}, now : Nat, failures : Nat]
              /\ (pc # "idle") => cur.route \in Routes

RouteType == /\ dedup \in [Routes -> EntryType]
             /\ sentAt \in [Routes -> Nat] /\ missed \in [Routes -> Nat]
             /\ failures \in [Routes -> Nat] /\ evicted \subseteq Routes

SendType == /\ task \in [Sends -> TaskType]
            /\ wire \subseteq [kind : {"trade", "ata"}, via : {"bundle", "tpu", "rpc"}]

-----------------------------------------------------------------------------
(* The operators of the thread and of the tasks *)

\* 2u64.pow(f.min(5)) is one of six powers.
LEMMA PowerOfTwo ==
  ASSUME NEW n \in 0 .. 5
  PROVE  2 ^ n \in Nat /\ 2 ^ n >= 1
<1>1. 2^0 = 1 /\ 2^1 = 2 /\ 2^2 = 4 /\ 2^3 = 8 /\ 2^4 = 16 /\ 2^5 = 32
  BY SMT
<1>2. n = 0 \/ n = 1 \/ n = 2 \/ n = 3 \/ n = 4 \/ n = 5
  OBVIOUS
<1>3. 2 ^ n \in {1, 2, 4, 8, 16, 32}
  BY <1>1, <1>2, Zenon
<1> QED BY <1>3

\* A backoff is never shorter than the cooldown the route was claimed for.
LEMMA BackoffLong ==
  ASSUME NEW f \in Nat
  PROVE  Backoff(f) \in Nat /\ Backoff(f) >= Cooldown
<1> DEFINE n == IF f < 5 THEN f ELSE 5
           k == 2 ^ n
<1>1. k \in Nat /\ k >= 1
  <2>1. n \in 0 .. 5
    OBVIOUS
  <2> QED BY <2>1, PowerOfTwo
<1> HIDE DEF k
<1>2. BackoffUnit \in Nat /\ BackoffCap \in Nat /\ Cooldown \in Nat
      /\ Cooldown <= BackoffUnit /\ Cooldown <= BackoffCap
  BY DurationAssumption
<1>3. BackoffUnit * k \in Nat /\ Cooldown <= BackoffUnit * k
  BY <1>1, <1>2
<1>4. Backoff(f) = IF BackoffUnit * k < BackoffCap THEN BackoffUnit * k ELSE BackoffCap
  BY DEF Backoff, k, n
<1> QED BY <1>2, <1>3, <1>4

\* `continue` after an insert gives the route of the thread its entry.
LEMMA PostponeWrites ==
  ASSUME TypeOK, pc # "idle", NEW cool \in Nat, NEW failed \in BOOLEAN,
         Postpone(cool, failed)
  PROVE  /\ pc' = "idle" /\ cur' = Nothing
         /\ dedup' \in [Routes -> EntryType]
         /\ failures' \in [Routes -> Nat]
         /\ \A r \in Routes :
              IF r = cur.route
              THEN /\ dedup'[r].at = cur.now /\ dedup'[r].cool = cool
                   /\ dedup'[r].failures = cur.failures + (IF failed THEN 1 ELSE 0)
                   /\ failures'[r] = failures[r] + (IF failed THEN 1 ELSE 0)
              ELSE dedup'[r] = dedup[r] /\ failures'[r] = failures[r]
<1>1. /\ cur.route \in Routes /\ cur.now \in Nat /\ cur.failures \in Nat
      /\ dedup \in [Routes -> EntryType] /\ failures \in [Routes -> Nat]
  BY DEF TypeOK, EntryType
<1> DEFINE e == Entry(cur.now, cool, cur.failures + (IF failed THEN 1 ELSE 0))
<1>2. e \in EntryType /\ e.at = cur.now /\ e.cool = cool
      /\ e.failures = cur.failures + (IF failed THEN 1 ELSE 0)
  BY <1>1 DEF Entry, EntryType
<1>3. /\ dedup' = [dedup EXCEPT ![cur.route] = e]
      /\ failures' = [failures EXCEPT ![cur.route] = @ + (IF failed THEN 1 ELSE 0)]
  BY DEF Postpone
<1> HIDE DEF e
<1> QED BY <1>1, <1>2, <1>3 DEF Postpone, Continue

\* A spawned task carries the thread's route and failure count.
LEMMA SpawnTask ==
  ASSUME TypeOK, pc # "idle", NEW i \in Sends, NEW path \in {"fast", "slow"},
         Spawn(i, path)
  PROVE  /\ task' \in [Sends -> TaskType]
         /\ sentAt' \in [Routes -> Nat]
         /\ \A j \in Sends \ {i} : task'[j] = task[j]
         /\ task'[i].route = cur.route /\ task'[i].failures = cur.failures
         /\ task'[i].path = path /\ task'[i].pc = "send" /\ task'[i].record = "none"
         /\ \A r \in Routes : sentAt'[r] = IF r = cur.route THEN cur.now ELSE sentAt[r]
<1>1. /\ cur.route \in Routes /\ cur.now \in Nat /\ cur.failures \in Nat
      /\ task \in [Sends -> TaskType] /\ sentAt \in [Routes -> Nat]
  BY DEF TypeOK, TaskType
<1> DEFINE n == [NoTask EXCEPT !.route = cur.route, !.path = path,
                               !.failures = cur.failures, !.pc = "send"]
<1>2. /\ n \in TaskType /\ n.route = cur.route /\ n.failures = cur.failures
      /\ n.path = path /\ n.pc = "send" /\ n.record = "none"
  <2>1. 0 \in 0 .. NumPolls - 1
    BY BoundAssumption
  <2>2. NoTask \in TaskType
    BY <2>1 DEF NoTask, TaskType
  <2>3. n \in TaskType
    BY <1>1, <2>2 DEF TaskType
  <2> QED BY <2>2, <2>3 DEF TaskType, NoTask
<1>3. task' = [task EXCEPT ![i] = n] /\ sentAt' = [sentAt EXCEPT ![cur.route] = cur.now]
  BY DEF Spawn
<1> HIDE DEF n
<1> QED BY <1>1, <1>2, <1>3

\* A step of a task moves that task alone, forwards, and keeps what it is for.
LEMMA TaskMoves ==
  ASSUME TypeOK, NEW i \in Sends,
         TaskNext(i) \/ Execute(i, "failed") \/ Execute(i, "landed")
  PROVE  /\ task' \in [Sends -> TaskType]
         /\ \A j \in Sends \ {i} : task'[j] = task[j]
         /\ task[i].pc \in {"send", "poll"} /\ task'[i].pc \in {"poll", "done"}
         /\ task'[i].route = task[i].route /\ task'[i].path = task[i].path
         /\ task'[i].failures = task[i].failures
         /\ \/ /\ task[i].pc = "poll"
               /\ task'[i].record = task[i].record
               /\ task[i].chain = "unseen"
            \/ task'[i].chain = task[i].chain
         /\ \/ task'[i].record \in {task[i].record, "none", "expired"}
            \/ task'[i].record = task[i].chain
<1>1. task \in [Sends -> TaskType]
  BY DEF TypeOK, TaskType
<1>2. CASE TurboSend(i)
  BY <1>1, <1>2 DEF TurboSend, At, TaskType
<1>3. CASE SlowDeliver(i)
  BY <1>1, <1>3 DEF SlowDeliver, At, TaskType
<1>4. CASE FastSeesFailure(i) \/ SlowSeesFailure(i)
  BY <1>1, <1>4 DEF FastSeesFailure, SlowSeesFailure, Finish, At, TaskType
<1>5. CASE SeesLanded(i)
  BY <1>1, <1>5 DEF SeesLanded, Finish, TaskType
<1>6. CASE PollNothing(i)
  <2>1. task[i].polls \in 0 .. NumPolls - 1 /\ NumPolls \in Nat
    BY <1>1, BoundAssumption DEF TaskType
  <2>2. CASE task[i].polls + 1 < NumPolls
    <3>1. task' = [task EXCEPT ![i].polls = @ + 1] /\ task[i].pc = "poll"
      BY <1>6, <2>2 DEF PollNothing
    <3>2. task[i].polls + 1 \in 0 .. NumPolls - 1
      BY <2>1, <2>2
    <3> QED BY <1>1, <3>1, <3>2 DEF TaskType
  <2>3. CASE ~(task[i].polls + 1 < NumPolls)
    BY <1>1, <1>6, <2>3 DEF PollNothing, Finish, TaskType
  <2> QED BY <2>2, <2>3
<1>7. CASE Execute(i, "failed") \/ Execute(i, "landed")
  BY <1>1, <1>7 DEF Execute, TaskType
<1> QED BY <1>2, <1>3, <1>4, <1>5, <1>6, <1>7 DEF TaskNext

-----------------------------------------------------------------------------
(* Types *)

\* The parts are all of TypeOK.
LEMMA TypeParts ==
  /\ TypeOK <=> ProcessType /\ ThreadType /\ RouteType /\ SendType
  /\ TypeOK' <=> ProcessType' /\ ThreadType' /\ RouteType' /\ SendType'
<1>1. TypeOK <=> ProcessType /\ ThreadType /\ RouteType /\ SendType
  BY Zenon DEF TypeOK, ProcessType, ThreadType, RouteType, SendType, TaskType, EntryType
<1>2. TypeOK' <=> ProcessType' /\ ThreadType' /\ RouteType' /\ SendType'
  BY Zenon DEF TypeOK, ProcessType, ThreadType, RouteType, SendType, TaskType, EntryType
<1> QED BY <1>1, <1>2

\* Values that stand for nothing have their types too.
LEMMA EmptyValues ==
  /\ NoTask \in TaskType /\ NoEntry \in EntryType
  /\ Nothing \in [route : Routes \cup {None}, now : Nat, failures : Nat]
<1>1. 0 \in 0 .. NumPolls - 1
  BY BoundAssumption
<1> QED BY <1>1 DEF NoTask, TaskType, NoEntry, EntryType, Nothing

\* Everything but the clock starts empty.
LEMMA InitType == Init => TypeOK
<1> SUFFICES ASSUME Init PROVE TypeOK
  OBVIOUS
<1>1. ProcessType
  BY BoundAssumption DEF Init, ProcessType
<1>2. ThreadType /\ RouteType /\ SendType
  BY EmptyValues DEF Init, ThreadType, RouteType, SendType
<1> QED BY <1>1, <1>2, TypeParts

\* The thread's own steps.
LEMMA ExecutorType ==
  ASSUME TypeOK, ExecutorNext
  PROVE  TypeOK'
<1>0. ProcessType /\ ThreadType /\ RouteType /\ SendType
  BY TypeParts
<1>1. ProcessType'
  BY <1>0 DEF ProcessType, ExecutorNext, Check, ReadFailures, Claim, FastUnprofitable,
              FastNoBlockhash, FastBuildFails, SlowNoBlockhash, EnsureRouteAtas, Miss,
              PreflightRejects, SimulationPasses, RebuildFails, FlipToLive, FastSend, SlowSend,
              config, history
<1>2. CASE (\E r \in Routes : Check(r)) \/ ReadFailures
  <2>1. ThreadType'
    BY <1>0, <1>2 DEF Check, ReadFailures, ProcessType, ThreadType, RouteType, EntryType, config
  <2>2. UNCHANGED <<dedup, task, wire, sentAt, missed, evicted, failures>>
    BY <1>2 DEF Check, ReadFailures, history
  <2> QED BY <1>0, <1>1, <2>1, <2>2, TypeParts DEF RouteType, SendType
<1>3. CASE FastNoBlockhash \/ SlowNoBlockhash \/ PreflightRejects \/ RebuildFails
           \/ FlipToLive \/ SimulationPasses
  BY <1>0, <1>1, <1>3, TypeParts, EmptyValues
     DEF FastNoBlockhash, SlowNoBlockhash, PreflightRejects, RebuildFails, FlipToLive,
         SimulationPasses, Continue, ThreadType, RouteType, SendType, history
<1>4. CASE EnsureRouteAtas
  BY <1>0, <1>1, <1>4, TypeParts
     DEF EnsureRouteAtas, ThreadType, RouteType, SendType, history
<1>5. CASE Claim
  <2>1. /\ cur.route \in Routes /\ cur.now \in Nat /\ cur.failures \in Nat
        /\ evicted' \subseteq Routes
    BY <1>0, <1>5 DEF Claim, ThreadType, RouteType, Dropped
  <2>2. dedup' \in [Routes -> EntryType]
    BY <1>0, <1>5, <2>1, DurationAssumption, EmptyValues DEF Claim, RouteType, EntryType, Entry
  <2>3. ThreadType'
    BY <1>0, <1>5, <2>1, EmptyValues DEF Claim, ThreadType
  <2> QED BY <1>0, <1>1, <1>5, <2>1, <2>2, <2>3, TypeParts DEF Claim, RouteType, SendType
<1>6. CASE FastUnprofitable \/ FastBuildFails \/ Miss
  <2>1. /\ pc # "idle"
        /\ \E cool \in Nat, failed \in BOOLEAN : Postpone(cool, failed)
        /\ UNCHANGED <<task, wire, sentAt>>
    BY <1>6, DurationAssumption DEF FastUnprofitable, FastBuildFails, Miss
  <2>2. missed' \in [Routes -> Nat] /\ evicted' \subseteq Routes
    <3>1. CASE Miss
      <4>1. cur.now + Blacklist \in Nat
        BY <1>0, DurationAssumption DEF ThreadType
      <4> QED BY <1>0, <3>1, <4>1 DEF Miss, RouteType
    <3>2. CASE FastUnprofitable \/ FastBuildFails
      BY <1>0, <3>2 DEF FastUnprofitable, FastBuildFails, RouteType
    <3> QED BY <1>6, <3>1, <3>2
  <2> QED BY <1>0, <1>1, <2>1, <2>2, PostponeWrites, TypeParts, EmptyValues
          DEF RouteType, SendType, ThreadType
<1>7. ASSUME NEW i \in Sends, FastSend(i) \/ SlowSend(i)
      PROVE  TypeOK'
  <2>1. /\ pc # "idle" /\ (Spawn(i, "fast") \/ Spawn(i, "slow"))
        /\ Continue
        /\ UNCHANGED <<dedup, missed, evicted, failures>>
    BY <1>7 DEF FastSend, SlowSend
  <2>2. wire' \subseteq [kind : {"trade", "ata"}, via : {"bundle", "tpu", "rpc"}]
    BY <1>0, <1>7 DEF FastSend, SlowSend, SendType, Trade
  <2> QED BY <1>0, <1>1, <2>1, <2>2, SpawnTask, TypeParts, EmptyValues
          DEF RouteType, SendType, ThreadType, Continue
<1> QED BY <1>2, <1>3, <1>4, <1>5, <1>6, <1>7 DEF ExecutorNext

\* The tasks, the clock and a restart.
LEMMA OtherType ==
  ASSUME TypeOK,
         \/ Tick \/ BhRefresh \/ Restart
         \/ \E i \in Sends : TaskNext(i) \/ Execute(i, "failed") \/ Execute(i, "landed")
  PROVE  TypeOK'
<1>0. ProcessType /\ ThreadType /\ RouteType /\ SendType
  BY TypeParts
<1>1. CASE Tick \/ BhRefresh
  <2>1. ProcessType'
    <3>1. CASE Tick
      <4>1. clock' = clock + 1 /\ UNCHANGED <<env, proc, restart, hasHash, simPassed, bornDry>>
        BY <3>1 DEF Tick, history
      <4> QED BY <1>0, <4>1 DEF ProcessType
    <3>2. CASE BhRefresh
      <4>1. hasHash' = TRUE /\ UNCHANGED <<clock, env, proc, restart, simPassed, bornDry>>
        BY <3>2 DEF BhRefresh, config, history
      <4> QED BY <1>0, <4>1 DEF ProcessType
    <3> QED BY <1>1, <3>1, <3>2
  <2>2. ThreadType' /\ RouteType' /\ SendType'
    BY <1>0, <1>1 DEF Tick, BhRefresh, ThreadType, RouteType, SendType, thread, history
  <2> QED BY <2>1, <2>2, TypeParts
<1>2. CASE Restart
  <2>1. task' \in [Sends -> TaskType]
    <3>1. \A i \in Sends : task[i] \in TaskType /\ [task[i] EXCEPT !.pc = "lost"] \in TaskType
      BY <1>0 DEF SendType, TaskType
    <3> QED BY <1>2, <3>1 DEF Restart
  <2>2. ProcessType'
    <3>1. (env = "dry") \in BOOLEAN
      OBVIOUS
    <3>2. proc' \in [fast : BOOLEAN, jitoOnly : BOOLEAN, dry : BOOLEAN]
      BY <1>0, <1>2, <3>1, Zenon DEF Restart, ProcessType
    <3>3. clock' = clock /\ env' = env /\ simPassed' = simPassed /\ bornDry' = bornDry
          /\ restart' = FALSE /\ hasHash' = FALSE
      BY <1>2 DEF Restart
    <3> QED BY <1>0, <3>2, <3>3 DEF ProcessType
  <2> QED BY <1>0, <1>2, <2>1, <2>2, TypeParts, EmptyValues
          DEF Restart, Continue, ThreadType, RouteType, SendType
<1>3. ASSUME NEW i \in Sends, TaskNext(i) \/ Execute(i, "failed") \/ Execute(i, "landed")
      PROVE  TypeOK'
  <2>1. task' \in [Sends -> TaskType]
    BY <1>3, TaskMoves
  <2>2. CASE FastSeesFailure(i)
    <3>1. task[i].failures + 1 \in Nat /\ clock \in Nat
      BY <1>0 DEF ProcessType, SendType, TaskType
    <3> DEFINE e == Entry(clock, Backoff(task[i].failures + 1), task[i].failures + 1)
    <3>2. e \in EntryType
      BY <3>1, BackoffLong DEF EntryType, Entry
    <3>3. /\ dedup' = [dedup EXCEPT ![task[i].route] = e]
          /\ failures' = [failures EXCEPT ![task[i].route] = @ + 1]
          /\ UNCHANGED <<sentAt, missed, evicted>>
      BY <2>2 DEF FastSeesFailure
    <3> HIDE DEF e
    <3>4. RouteType'
      <4>1. dedup' \in [Routes -> EntryType]
        BY <1>0, <3>2, <3>3 DEF RouteType
      <4>2. failures' \in [Routes -> Nat]
        <5>1. failures' = [r \in Routes |-> IF r = task[i].route THEN failures[r] + 1
                                                                ELSE failures[r]]
          BY <1>0, <3>3 DEF RouteType
        <5> QED BY <1>0, <5>1 DEF RouteType
      <4> QED BY <1>0, <3>3, <4>1, <4>2 DEF RouteType
    <3> QED BY <1>0, <2>1, <2>2, <3>4, TypeParts
            DEF FastSeesFailure, ProcessType, ThreadType, SendType, config, thread
  <2>3. CASE ~FastSeesFailure(i)
    <3>1. /\ UNCHANGED <<config, hasHash, dedup, thread, history>>
          /\ wire' \subseteq [kind : {"trade", "ata"}, via : {"bundle", "tpu", "rpc"}]
      BY <1>0, <1>3, <2>3 DEF TaskNext, TurboSend, SlowDeliver, SlowSeesFailure, SeesLanded,
                        PollNothing, Execute, Trade, TurboEndpoints, SendType
    <3> QED BY <1>0, <2>1, <3>1, TypeParts
            DEF ProcessType, ThreadType, RouteType, SendType, config, thread, history
  <2> QED BY <2>2, <2>3
<1> QED BY <1>1, <1>2, <1>3

\* The thread, its tasks and a restart only take the values of their types; a
\* task polls at most NumPolls times (the polling loop of the send tasks).
THEOREM ExecutorTypeCorrect == Spec => []TypeOK
<1>1. TypeOK /\ [Next]_vars => TypeOK'
  <2> SUFFICES ASSUME TypeOK, [Next]_vars PROVE TypeOK'
    OBVIOUS
  <2>1. CASE UNCHANGED vars
    BY <2>1, TypeParts DEF vars, thread, ProcessType, ThreadType, RouteType, SendType
  <2>2. CASE Next
    BY <2>2, ExecutorType, OtherType DEF Next
  <2> QED BY <2>1, <2>2
<1> QED BY <1>1, InitType, PTL DEF Spec

-----------------------------------------------------------------------------
(* What the bot learns *)

\* OutcomesTrue is not inductive: a count is read by the thread and carried by
\* a task before it is written back, and failures may be counted meanwhile.
CarriedCounts ==
  /\ pc # "idle" => cur.failures <= failures[cur.route]
  /\ \A i \in Sends : task[i].pc \in {"send", "poll"} =>
                        /\ task[i].route \in Routes
                        /\ task[i].failures <= failures[task[i].route]

LearnInv == OutcomesTrue /\ CarriedCounts

\* The steps that touch neither entries, counts nor tasks.
QuietStep ==
  \/ Tick \/ BhRefresh \/ FastNoBlockhash \/ SlowNoBlockhash \/ EnsureRouteAtas
  \/ PreflightRejects \/ SimulationPasses \/ RebuildFails \/ FlipToLive
  \/ UNCHANGED vars

\* A quiet step keeps the opportunity of the thread or drops it.
LEMMA QuietKeeps ==
  ASSUME QuietStep
  PROVE  /\ UNCHANGED <<dedup, failures, task, sentAt, missed, evicted, proc>>
         /\ clock' = clock \/ Tick
         /\ \/ pc' = "idle"
            \/ /\ cur' = cur
               /\ \/ pc' = pc
                  \/ pc = "slow" /\ pc' = "build"
                  \/ pc = "build" /\ pc' = "rebuilt"
  BY DEF QuietStep, Tick, BhRefresh, FastNoBlockhash, SlowNoBlockhash, EnsureRouteAtas,
         PreflightRejects, SimulationPasses, RebuildFails, FlipToLive, Continue,
         config, thread, history, vars

\* The other steps, one kind after the other.
LEMMA NextSteps ==
  ASSUME [Next]_vars
  PROVE  \/ QuietStep
         \/ \E r \in Routes : Check(r)
         \/ ReadFailures \/ Claim \/ Restart
         \/ FastUnprofitable \/ FastBuildFails \/ Miss
         \/ \E i \in Sends : \/ FastSend(i) \/ SlowSend(i)
                             \/ TaskNext(i) \/ Execute(i, "failed") \/ Execute(i, "landed")
  BY DEF Next, ExecutorNext, QuietStep

\* The types of what the invariants speak of.
LEMMA Typed ==
  ASSUME TypeOK
  PROVE  /\ clock \in Nat
         /\ \A r \in Routes : /\ dedup[r] \in EntryType /\ dedup[r].at \in Nat
                              /\ dedup[r].cool \in Nat /\ dedup[r].failures \in Nat
                              /\ sentAt[r] \in Nat /\ missed[r] \in Nat /\ failures[r] \in Nat
         /\ cur.now \in Nat /\ cur.failures \in Nat
         /\ (pc # "idle") => cur.route \in Routes
         /\ \A i \in Sends : task[i] \in TaskType /\ task[i].failures \in Nat
  BY TypeParts DEF ProcessType, ThreadType, RouteType, SendType, EntryType, TaskType

\* Claiming a route writes its entry and drops old entries of other routes.
LEMMA ClaimWrites ==
  ASSUME TypeOK, Claim
  PROVE  /\ cur.route \in Routes
         /\ dedup'[cur.route] = Entry(cur.now, Cooldown, cur.failures)
         /\ \A r \in Routes \ {cur.route} :
              \/ dedup'[r] = dedup[r]
              \/ /\ dedup'[r] = NoEntry /\ r \in evicted'
                 /\ dedup[r].cool > 0 /\ dedup[r].at + RetainWindow <= cur.now
         /\ evicted \subseteq evicted'
         /\ cur.route \in evicted' => cur.route \in evicted
         /\ \/ pc' = "idle"
            \/ pc' \in {"fast", "slow"} /\ cur' = cur
<1> DEFINE d == [dedup EXCEPT ![cur.route] = Entry(cur.now, Cooldown, cur.failures)]
           gone == Dropped(d, cur.now)
<1>1. /\ cur.route \in Routes /\ cur.now \in Nat /\ cur.failures \in Nat
      /\ dedup \in [Routes -> EntryType] /\ pc = "claim"
  BY TypeParts DEF Claim, ThreadType, RouteType
<1>2. /\ d[cur.route] = Entry(cur.now, Cooldown, cur.failures)
      /\ d[cur.route].at = cur.now
      /\ \A r \in Routes \ {cur.route} : d[r] = dedup[r]
  BY <1>1 DEF Entry
<1>3. /\ dedup' = [r \in Routes |-> IF r \in gone THEN NoEntry ELSE d[r]]
      /\ evicted' = evicted \cup gone
      /\ pc' \in {"idle", IF proc.fast /\ ~proc.dry THEN "fast" ELSE "slow"}
      /\ cur' = IF pc' = "idle" THEN Nothing ELSE cur
  BY DEF Claim
<1> HIDE DEF d
<1>4. /\ gone \subseteq Routes
      /\ \A r \in gone : d[r].cool > 0 /\ ~(cur.now < d[r].at + RetainWindow)
  BY DEF Dropped
<1>5. cur.route \notin gone
  <2>1. cur.now < cur.now + RetainWindow
    BY <1>1, DurationAssumption
  <2> QED BY <1>2, <1>4, <2>1
<1>6. \A r \in gone : dedup[r].cool > 0 /\ dedup[r].at + RetainWindow <= cur.now
  <2> SUFFICES ASSUME NEW r \in gone
               PROVE  dedup[r].cool > 0 /\ dedup[r].at + RetainWindow <= cur.now
    OBVIOUS
  <2>1. r \in Routes /\ d[r] = dedup[r] /\ dedup[r].at \in Nat
    BY <1>1, <1>2, <1>4, <1>5, Typed
  <2> QED BY <1>1, <1>4, <2>1, DurationAssumption
<1> HIDE DEF gone
<1> QED BY <1>1, <1>2, <1>3, <1>4, <1>5, <1>6

\* What a step that sends an opportunity does to the other state.
LEMMA SendWrites ==
  ASSUME TypeOK, NEW i \in Sends, FastSend(i) \/ SlowSend(i)
  PROVE  /\ pc \in {"fast", "rebuilt"} /\ pc' = "idle" /\ cur.route \in Routes
         /\ UNCHANGED <<clock, proc, dedup, missed, evicted, failures>>
         /\ \A j \in Sends \ {i} : task'[j] = task[j]
         /\ task'[i].route = cur.route /\ task'[i].failures = cur.failures
         /\ task'[i].pc = "send" /\ task'[i].record = "none"
         /\ task'[i].path = IF pc = "fast" THEN "fast" ELSE "slow"
         /\ \A r \in Routes : sentAt'[r] = IF r = cur.route THEN cur.now ELSE sentAt[r]
<1>1. /\ pc \in {"fast", "rebuilt"} /\ pc # "idle" /\ pc' = "idle"
      /\ UNCHANGED <<clock, proc, dedup, missed, evicted, failures>>
      /\ Spawn(i, IF pc = "fast" THEN "fast" ELSE "slow")
  BY DEF FastSend, SlowSend, Continue, config
<1>2. cur.route \in Routes
  BY <1>1, Typed
<1> QED BY <1>1, <1>2, SpawnTask

\* A blind transaction that failed on chain gives its route an entry from now on.
LEMMA FailureWrites ==
  ASSUME TypeOK, NEW i \in Sends, task[i].route \in Routes, FastSeesFailure(i)
  PROVE  /\ At(i, "fast", "poll")
         /\ UNCHANGED <<clock, proc, pc, cur, sentAt, missed, evicted>>
         /\ dedup'[task[i].route].at = clock
         /\ dedup'[task[i].route].cool = Backoff(task[i].failures + 1)
         /\ dedup'[task[i].route].failures = task[i].failures + 1
         /\ failures'[task[i].route] = failures[task[i].route] + 1
         /\ \A r \in Routes \ {task[i].route} :
              dedup'[r] = dedup[r] /\ failures'[r] = failures[r]
<1> DEFINE e == Entry(clock, Backoff(task[i].failures + 1), task[i].failures + 1)
<1>1. dedup \in [Routes -> EntryType] /\ failures \in [Routes -> Nat]
  BY TypeParts DEF RouteType
<1>2. /\ e.at = clock /\ e.cool = Backoff(task[i].failures + 1)
      /\ e.failures = task[i].failures + 1
  BY DEF Entry
<1>3. /\ dedup' = [dedup EXCEPT ![task[i].route] = e]
      /\ failures' = [failures EXCEPT ![task[i].route] = @ + 1]
      /\ At(i, "fast", "poll")
      /\ UNCHANGED <<clock, proc, pc, cur, sentAt, missed, evicted>>
  BY DEF FastSeesFailure, config, thread
<1> HIDE DEF e
<1> QED BY <1>1, <1>2, <1>3

\* The other steps of a task leave the routes and the thread alone.
LEMMA TaskKeeps ==
  ASSUME NEW i \in Sends, ~FastSeesFailure(i),
         TaskNext(i) \/ Execute(i, "failed") \/ Execute(i, "landed")
  PROVE  UNCHANGED <<clock, env, proc, restart, dedup, pc, cur, sentAt, missed, evicted,
                     failures, simPassed, bornDry>>
  BY DEF TaskNext, TurboSend, SlowDeliver, SlowSeesFailure, SeesLanded, PollNothing, Execute,
         config, thread, history

\* A restart forgets the routes and kills the tasks that were under way.
LEMMA RestartForgets ==
  ASSUME TypeOK, Restart
  PROVE  /\ clock' = clock /\ pc' = "idle"
         /\ \A r \in Routes : /\ dedup'[r] = NoEntry
                              /\ sentAt'[r] = 0 /\ missed'[r] = 0 /\ failures'[r] = 0
         /\ \A i \in Sends : /\ task'[i].pc \notin {"send", "poll"}
                             /\ task'[i].record = task[i].record
                             /\ task'[i].chain = task[i].chain
<1>1. task \in [Sends -> TaskType]
  BY TypeParts DEF SendType
<1> QED BY <1>1 DEF Restart, Continue, TaskType

\* A postponed opportunity, of either path.
LEMMA PostponeSteps ==
  ASSUME FastUnprofitable \/ FastBuildFails \/ Miss
  PROVE  /\ pc \in {"fast", "build"} /\ pc # "idle"
         /\ \E cool \in Nat, failed \in BOOLEAN : Postpone(cool, failed)
         /\ UNCHANGED <<clock, proc, task, sentAt>>
  BY DurationAssumption DEF FastUnprofitable, FastBuildFails, Miss, config

\* Every count is at most the failures there have been when it was read.
LEMMA LearnStep ==
  ASSUME TypeOK, LearnInv, [Next]_vars
  PROVE  LearnInv'
<1>0. /\ \A r \in Routes : dedup[r].failures <= failures[r]
      /\ pc # "idle" => cur.failures <= failures[cur.route]
      /\ \A i \in Sends : task[i].pc \in {"send", "poll"} =>
           task[i].route \in Routes /\ task[i].failures <= failures[task[i].route]
      /\ \A i \in Sends : /\ task[i].record = "landed" => task[i].chain = "landed"
                          /\ task[i].record = "failed" => task[i].chain = "failed"
  BY DEF LearnInv, OutcomesTrue, FailuresNotInvented, RecordsTrue, CarriedCounts
<1> USE DEF LearnInv, OutcomesTrue, FailuresNotInvented, RecordsTrue, CarriedCounts
<1>1. CASE QuietStep
  BY <1>0, <1>1, QuietKeeps
<1>2. CASE \E r \in Routes : Check(r)
  BY <1>0, <1>2, Typed DEF Check, history
<1>3. CASE ReadFailures
  <2>1. /\ pc # "idle" /\ cur'.failures = dedup[cur.route].failures /\ cur'.route = cur.route
        /\ UNCHANGED <<dedup, failures, task>>
    BY <1>3, TypeParts DEF ReadFailures, ThreadType, history
  <2> QED BY <1>0, <2>1, Typed
<1>4. CASE Claim
  <2>1. UNCHANGED <<failures, task>> /\ pc = "claim"
    BY <1>4 DEF Claim
  <2>2. dedup'[cur.route].failures = cur.failures
    BY <1>4, ClaimWrites DEF Entry
  <2>3. \A r \in Routes : dedup'[r].failures <= failures[r]
    BY <1>0, <1>4, <2>1, <2>2, ClaimWrites, Typed DEF NoEntry
  <2> QED BY <1>0, <1>4, <2>1, <2>3, ClaimWrites
<1>5. CASE Restart
  BY <1>0, <1>5, RestartForgets DEF NoEntry
<1>6. CASE FastUnprofitable \/ FastBuildFails \/ Miss
  BY <1>0, <1>6, PostponeSteps, PostponeWrites, Typed
<1>7. ASSUME NEW i \in Sends, FastSend(i) \/ SlowSend(i)
      PROVE  LearnInv'
  BY <1>0, <1>7, SendWrites
<1>8. ASSUME NEW i \in Sends, TaskNext(i) \/ Execute(i, "failed") \/ Execute(i, "landed")
      PROVE  LearnInv'
  <2>1. RecordsTrue'
    BY <1>0, <1>8, TaskMoves
  <2>2. task[i].route \in Routes /\ task[i].failures <= failures[task[i].route]
    BY <1>0, <1>8, TaskMoves
  <2>3. CASE FastSeesFailure(i)
    BY <1>0, <1>8, <2>1, <2>2, <2>3, FailureWrites, TaskMoves, Typed
  <2>4. CASE ~FastSeesFailure(i)
    BY <1>0, <1>8, <2>1, <2>2, <2>4, TaskKeeps, TaskMoves
  <2> QED BY <2>3, <2>4
<1> QED BY <1>1, <1>2, <1>3, <1>4, <1>5, <1>6, <1>7, <1>8, NextSteps

\* Neither the backoff nor the records know of an outcome that was another
\* one: however often retain drops an entry or a task writes back a count that
\* is out of date, for any number of routes and sends (update of route_dedup).
THEOREM OutcomesAreTrue == Spec => []OutcomesTrue
<1>1. Init => LearnInv
  BY DEF Init, LearnInv, OutcomesTrue, FailuresNotInvented, RecordsTrue, CarriedCounts,
         NoEntry, NoTask
<1>2. TypeOK /\ LearnInv /\ [Next]_vars => LearnInv'
  BY LearnStep
<1>3. LearnInv => OutcomesTrue
  BY DEF LearnInv
<1> QED BY <1>1, <1>2, <1>3, ExecutorTypeCorrect, PTL DEF Spec

-----------------------------------------------------------------------------
(* The modes of the environment *)

\* LiveAfterSimulation is not inductive: that nothing was sent follows from the
\* process still being the dry one, with no restart under way and no thread or
\* task on a path that sends.
DryFromBirth ==
  bornDry /\ ~simPassed =>
    /\ proc.dry /\ ~restart
    /\ pc \notin {"fast", "rebuilt"}
    /\ wire = {} /\ \A i \in Sends : task[i] = NoTask

ModeInv == JitoOnlyTrades /\ DryFromBirth

\* JITO_ONLY is tested on both paths: the channels a step adds are bundles.
LEMMA JitoStep ==
  ASSUME TypeOK, JitoOnlyTrades, [Next]_vars
  PROVE  JitoOnlyTrades'
<1>1. CASE \/ Tick \/ BhRefresh \/ UNCHANGED vars
           \/ \E r \in Routes : Check(r)
           \/ ReadFailures \/ Claim \/ FastUnprofitable \/ FastNoBlockhash \/ FastBuildFails
           \/ SlowNoBlockhash \/ Miss \/ PreflightRejects
           \/ SimulationPasses \/ RebuildFails \/ FlipToLive
           \/ \E i \in Sends : \/ SlowSend(i) \/ FastSeesFailure(i) \/ SlowSeesFailure(i)
                               \/ SeesLanded(i) \/ PollNothing(i)
                               \/ Execute(i, "failed") \/ Execute(i, "landed")
  <2>1. UNCHANGED <<proc, wire>>
    BY <1>1 DEF Tick, BhRefresh, vars, Check, ReadFailures, Claim, FastUnprofitable,
                FastNoBlockhash, FastBuildFails, SlowNoBlockhash, Miss, PreflightRejects,
                SimulationPasses, RebuildFails, FlipToLive, SlowSend, FastSeesFailure,
                SlowSeesFailure, SeesLanded, PollNothing, Execute, config
  <2> QED BY <2>1 DEF JitoOnlyTrades
<1>2. CASE EnsureRouteAtas
  BY <1>2 DEF EnsureRouteAtas, JitoOnlyTrades, config
<1>3. CASE Restart
  <2>1. proc'.jitoOnly = proc.jitoOnly /\ wire' = wire
    BY <1>3, TypeParts DEF Restart, ProcessType
  <2> QED BY <2>1 DEF JitoOnlyTrades
<1>4. ASSUME NEW i \in Sends, FastSend(i) \/ TurboSend(i) \/ SlowDeliver(i)
      PROVE  JitoOnlyTrades'
  BY <1>4 DEF FastSend, TurboSend, SlowDeliver, TurboEndpoints, Trade, JitoOnlyTrades, config
<1> QED BY <1>1, <1>2, <1>3, <1>4 DEF Next, ExecutorNext, TaskNext

\* Nothing leads from a dry start to a channel but a passed simulation.
LEMMA DryStep ==
  ASSUME TypeOK, DryFromBirth, [Next]_vars
  PROVE  DryFromBirth'
<1> SUFFICES ASSUME bornDry', ~simPassed'
             PROVE  /\ proc'.dry /\ ~restart'
                    /\ pc' \notin {"fast", "rebuilt"}
                    /\ wire' = {} /\ \A i \in Sends : task'[i] = NoTask
  BY DEF DryFromBirth
<1>1. bornDry' = bornDry /\ ~simPassed /\ ~SimulationPasses
  <2>1. CASE SimulationPasses
    <3>1. simPassed' = TRUE
      BY <2>1 DEF SimulationPasses
    <3> QED BY <3>1, Zenon
  <2>2. CASE Restart
    <3>1. UNCHANGED <<bornDry, simPassed>> /\ pc' = "idle"
      BY <2>2 DEF Restart, Continue
    <3>2. ~SimulationPasses
      BY <3>1 DEF SimulationPasses
    <3> QED BY <3>1, <3>2
  <2>3. CASE ~SimulationPasses /\ ~Restart
    <3>1. UNCHANGED <<bornDry, simPassed>>
      BY <2>3 DEF Next, ExecutorNext, TaskNext, Tick, BhRefresh, vars, Check, ReadFailures,
           Claim, FastUnprofitable, FastNoBlockhash, FastBuildFails, SlowNoBlockhash,
           EnsureRouteAtas, Miss, PreflightRejects, RebuildFails, FlipToLive, FastSend,
           SlowSend, TurboSend, SlowDeliver, FastSeesFailure, SlowSeesFailure,
           SeesLanded, PollNothing, Execute, history
    <3> QED BY <2>3, <3>1
  <2> QED BY <2>1, <2>2, <2>3 DEF SimulationPasses
<1>2. /\ proc.dry /\ ~restart /\ pc \notin {"fast", "rebuilt"}
      /\ wire = {} /\ \A i \in Sends : task[i] = NoTask
  BY <1>1 DEF DryFromBirth
<1>3. \A i \in Sends : /\ ~(TaskNext(i) \/ Execute(i, "failed") \/ Execute(i, "landed"))
                       /\ ~FastSend(i) /\ ~SlowSend(i)
  <2>1. \A i \in Sends : task[i].pc = "none"
    BY <1>2 DEF NoTask
  <2> QED BY <1>2, <2>1, TaskMoves, SendWrites
<1>4. ~Restart /\ ~FlipToLive /\ ~FastUnprofitable /\ ~FastBuildFails
  BY <1>2 DEF Restart, FlipToLive, FastUnprofitable, FastBuildFails
<1>5. UNCHANGED <<proc, restart, wire, task>> /\ pc' \notin {"fast", "rebuilt"}
  BY <1>1, <1>2, <1>3, <1>4
     DEF Next, ExecutorNext, Tick, BhRefresh, vars, Check, ReadFailures, Claim,
         FastNoBlockhash, SlowNoBlockhash, EnsureRouteAtas, Miss, PreflightRejects,
         RebuildFails, Postpone, Continue, config, thread
<1> QED BY <1>2, <1>5

\* No path forgets the modes the service was started with, whatever restarts
\* the flip to live causes (JITO_ONLY, DRY_RUN, flip_to_live).
THEOREM ModesAreKept == Spec => []ModesKept
<1>1. Init => ModeInv
  BY DEF Init, ModeInv, JitoOnlyTrades, DryFromBirth
<1>2. TypeOK /\ ModeInv /\ [Next]_vars => ModeInv'
  BY JitoStep, DryStep DEF ModeInv
<1>3. ModeInv => ModesKept
  BY DEF ModeInv, ModesKept, LiveAfterSimulation, DryFromBirth
<1> QED BY <1>1, <1>2, <1>3, ExecutorTypeCorrect, PTL DEF Spec

-----------------------------------------------------------------------------
(* The entries of route_dedup *)

\* The entry of r keeps it from being started until t, or t has come.
Barred(r, t) == dedup[r].at + dedup[r].cool >= t \/ clock >= t

Working == {"fast", "slow", "build", "rebuilt"}

\* After a send of a route its entry bars it for Cooldown: the claim wrote an
\* entry of that length before the send, retain only drops entries older than
\* that, and what a task writes later lasts longer.
SpaceInv ==
  /\ \A r \in Routes :
       /\ sentAt[r] <= clock
       /\ dedup[r].cool > 0 => dedup[r].at >= sentAt[r]
       /\ sentAt[r] > 0 => Barred(r, sentAt[r] + Cooldown)
  /\ pc # "idle" =>
       /\ cur.now <= clock
       /\ sentAt[cur.route] > 0 => cur.now >= sentAt[cur.route] + Cooldown
  /\ pc \in Working =>
       /\ Barred(cur.route, cur.now + Cooldown)
       /\ dedup[cur.route].cool > 0 => dedup[cur.route].at >= cur.now

\* A route that is not barred can be started: the cooldown test has passed.
LEMMA CheckPasses ==
  ASSUME TypeOK, NEW q \in Routes, Check(q)
  PROVE  /\ pc' = "read" /\ cur'.route = q /\ cur'.now = clock
         /\ UNCHANGED <<clock, proc, dedup, task, sentAt, missed, evicted>>
         /\ \A t \in Nat : Barred(q, t) => clock >= t
<1>1. clock \in Nat /\ dedup[q].at \in Nat /\ dedup[q].cool \in Nat
  BY Typed
<1>2. ~(clock < dedup[q].at + dedup[q].cool)
  BY DEF Check, InCooldown
<1>3. \A t \in Nat : Barred(q, t) => clock >= t
  BY <1>1, <1>2 DEF Barred
<1> QED BY <1>3 DEF Check, config, history

\* An entry dropped, replaced by a longer one or overtaken by the clock bars
\* its route no less than needed.
LEMMA SpaceStep ==
  ASSUME TypeOK, TypeOK', SpaceInv, [Next]_vars
  PROVE  SpaceInv'
<1> USE DEF SpaceInv, Barred, Working
<1>0. /\ clock \in Nat /\ clock' \in Nat /\ Cooldown \in Nat /\ Cooldown > 0
      /\ cur.now \in Nat
      /\ \A r \in Routes : /\ dedup[r].at \in Nat /\ dedup[r].cool \in Nat /\ sentAt[r] \in Nat
                           /\ dedup'[r].at \in Nat /\ dedup'[r].cool \in Nat
      /\ (pc # "idle") => cur.route \in Routes
      /\ pc \in {"idle", "read", "claim", "fast", "slow", "build", "rebuilt"}
  BY DurationAssumption, TypeParts DEF ProcessType, ThreadType, RouteType, EntryType
<1>1. CASE QuietStep
  <2>1. clock' >= clock
    BY <1>0, <1>1, QuietKeeps DEF Tick
  <2>2. UNCHANGED <<dedup, sentAt>>
    BY <1>1, QuietKeeps
  <2>3. \/ pc' = "idle"
        \/ cur' = cur /\ pc' # "idle" /\ pc # "idle" /\ (pc' \in Working => pc \in Working)
    BY <1>1, QuietKeeps
  <2> QED BY <1>0, <2>1, <2>2, <2>3
<1>2. ASSUME NEW q \in Routes, Check(q)
      PROVE  SpaceInv'
  <2>1. sentAt[q] > 0 => clock >= sentAt[q] + Cooldown
    BY <1>0, <1>2, CheckPasses
  <2> QED BY <1>0, <1>2, <2>1, CheckPasses
<1>3. CASE ReadFailures
  <2>1. /\ pc # "idle" /\ pc' = "claim" /\ cur'.route = cur.route /\ cur'.now = cur.now
        /\ UNCHANGED <<clock, dedup, sentAt>>
    BY <1>3, TypeParts DEF ReadFailures, ThreadType, history, config
  <2> QED BY <1>0, <2>1
<1>4. CASE Claim
  <2>1. UNCHANGED <<clock, sentAt>> /\ pc = "claim"
    BY <1>4 DEF Claim, config
  <2>2. dedup'[cur.route].at = cur.now /\ dedup'[cur.route].cool = Cooldown
    BY <1>4, ClaimWrites DEF Entry
  <2>3. \A r \in Routes :
           /\ sentAt[r] <= clock
           /\ dedup'[r].cool > 0 => dedup'[r].at >= sentAt[r]
           /\ sentAt[r] > 0 => (dedup'[r].at + dedup'[r].cool >= sentAt[r] + Cooldown
                                \/ clock >= sentAt[r] + Cooldown)
    <3> SUFFICES ASSUME NEW r \in Routes
                 PROVE  /\ dedup'[r].cool > 0 => dedup'[r].at >= sentAt[r]
                        /\ sentAt[r] > 0 =>
                             (dedup'[r].at + dedup'[r].cool >= sentAt[r] + Cooldown
                              \/ clock >= sentAt[r] + Cooldown)
      OBVIOUS
    <3>1. CASE r = cur.route
      BY <1>0, <2>1, <2>2, <3>1
    <3>2. CASE r # cur.route /\ dedup'[r] = dedup[r]
      BY <1>0, <3>2
    <3>3. CASE /\ r # cur.route /\ dedup'[r] = NoEntry
               /\ dedup[r].cool > 0 /\ dedup[r].at + RetainWindow <= cur.now
      <4>1. dedup[r].at >= sentAt[r] /\ cur.now <= clock
        BY <2>1, <3>3
      <4>2. clock >= sentAt[r] + Cooldown
        BY <1>0, <3>3, <4>1, DurationAssumption
      <4> QED BY <3>3, <4>2 DEF NoEntry
    <3> QED BY <1>4, <3>1, <3>2, <3>3, ClaimWrites
  <2>4. pc' = "idle" \/ (pc' \in {"fast", "slow"} /\ cur' = cur)
    BY <1>4, ClaimWrites
  <2> QED BY <1>0, <2>1, <2>2, <2>3, <2>4
<1>5. CASE Restart
  BY <1>0, <1>5, RestartForgets DEF NoEntry
<1>6. CASE FastUnprofitable \/ FastBuildFails \/ Miss
  <2>1. pc # "idle" /\ pc' = "idle" /\ UNCHANGED <<clock, sentAt>>
    BY <1>6, PostponeSteps, PostponeWrites
  <2>2. /\ dedup'[cur.route].at = cur.now
        /\ \A r \in Routes \ {cur.route} : dedup'[r] = dedup[r]
    BY <1>0, <1>6, PostponeSteps, PostponeWrites
  <2> QED BY <1>0, <2>1, <2>2
<1>7. ASSUME NEW i \in Sends, FastSend(i) \/ SlowSend(i)
      PROVE  SpaceInv'
  BY <1>0, <1>7, SendWrites
<1>8. ASSUME NEW i \in Sends, TaskNext(i) \/ Execute(i, "failed") \/ Execute(i, "landed")
      PROVE  SpaceInv'
  <2>1. CASE FastSeesFailure(i) /\ task[i].route \in Routes
    <3>1. /\ Backoff(task[i].failures + 1) \in Nat
          /\ Backoff(task[i].failures + 1) >= Cooldown
      BY Typed, BackoffLong
    <3> QED BY <1>0, <2>1, <3>1, FailureWrites
  <2>2. CASE FastSeesFailure(i) /\ task[i].route \notin Routes
    <3>1. UNCHANGED <<clock, pc, cur, sentAt, dedup>>
      BY <2>2, TypeParts DEF FastSeesFailure, RouteType, config, thread
    <3> QED BY <3>1
  <2>3. CASE ~FastSeesFailure(i)
    BY <1>8, <2>3, TaskKeeps
  <2> QED BY <2>1, <2>2, <2>3
<1> QED BY <1>1, <1>2, <1>3, <1>4, <1>5, <1>6, <1>7, <1>8, NextSteps

\* The burst guard: whatever retain drops and send tasks write meanwhile, no
\* opportunity of a route is started within Cooldown of one that was sent, for
\* any durations that respect BackoffUnit, BackoffCap, RetainWindow >= Cooldown
\* (route_dedup, ROUTE_DEDUP_COOLDOWN).
THEOREM SendsAreSpaced == Spec => SendsSpaced
<1>1. Init => SpaceInv
  BY DEF Init, SpaceInv, Working, NoEntry
<1>2. TypeOK /\ TypeOK' /\ SpaceInv /\ [Next]_vars => SpaceInv'
  BY SpaceStep
<1>3. SpaceInv => [Starts /\ sentAt[cur.route] > 0
                     => cur.now >= sentAt[cur.route] + Cooldown]_vars
  BY DEF SpaceInv, Starts
<1> QED BY <1>1, <1>2, <1>3, ExecutorTypeCorrect, PTL DEF Spec, SendsSpaced

\* The process sends blindly.
Blind == proc.fast /\ ~proc.dry

\* A missed route stays barred until its entry is dropped.  No blind task, whose
\* shorter backoff could replace the entry, lives in a process that simulates.
BlackInv ==
  /\ \A r \in Routes : r \notin evicted => Barred(r, missed[r])
  /\ pc # "idle" =>
       /\ cur.now <= clock
       /\ cur.route \notin evicted => cur.now >= missed[cur.route]
  /\ \A r \in Routes : missed[r] > 0 => ~Blind
  /\ pc = "fast" => Blind
  /\ pc \in {"slow", "build", "rebuilt"} => ~Blind
  /\ \A i \in Sends : task[i].path = "fast" /\ task[i].pc \in {"send", "poll"} => Blind

\* Entries of a missed route are replaced by its own thread only.
LEMMA BlackStep ==
  ASSUME TypeOK, TypeOK', BlackInv, [Next]_vars
  PROVE  BlackInv'
<1> USE DEF BlackInv, Barred
<1>0. /\ clock \in Nat /\ clock' \in Nat /\ cur.now \in Nat
      /\ Cooldown \in Nat /\ Blacklist \in Nat
      /\ \A r \in Routes : /\ dedup[r].at \in Nat /\ dedup[r].cool \in Nat /\ missed[r] \in Nat
                           /\ dedup'[r].at \in Nat /\ dedup'[r].cool \in Nat
      /\ (pc # "idle") => cur.route \in Routes
      /\ pc \in {"idle", "read", "claim", "fast", "slow", "build", "rebuilt"}
  BY DurationAssumption, TypeParts DEF ProcessType, ThreadType, RouteType, EntryType
<1>1. CASE QuietStep
  <2>1. clock' >= clock
    BY <1>0, <1>1, QuietKeeps DEF Tick
  <2>2. UNCHANGED <<dedup, missed, evicted, task>> /\ Blind' = Blind
    BY <1>1, QuietKeeps DEF Blind
  <2>3. \/ pc' = "idle"
        \/ /\ cur' = cur /\ pc' # "idle" /\ pc # "idle"
           /\ pc' = "fast" => pc = "fast"
           /\ pc' \in {"slow", "build", "rebuilt"} => pc \in {"slow", "build", "rebuilt"}
    BY <1>1, QuietKeeps
  <2> QED BY <1>0, <2>1, <2>2, <2>3
<1>2. ASSUME NEW q \in Routes, Check(q)
      PROVE  BlackInv'
  <2>1. q \notin evicted => clock >= missed[q]
    BY <1>0, <1>2, CheckPasses
  <2> QED BY <1>0, <1>2, <2>1, CheckPasses DEF Blind
<1>3. CASE ReadFailures
  <2>1. /\ pc # "idle" /\ pc' = "claim" /\ cur'.route = cur.route /\ cur'.now = cur.now
        /\ UNCHANGED <<clock, dedup, missed, evicted, task, proc>>
    BY <1>3, TypeParts DEF ReadFailures, ThreadType, history, config
  <2> QED BY <1>0, <2>1 DEF Blind
<1>4. CASE Claim
  <2>1. /\ UNCHANGED <<clock, missed, task, proc>> /\ pc = "claim"
        /\ pc' \in {"idle", IF Blind THEN "fast" ELSE "slow"}
    BY <1>4 DEF Claim, config, Blind
  <2>2. dedup'[cur.route].at = cur.now
    BY <1>4, ClaimWrites DEF Entry
  <2>3. \A r \in Routes : r \notin evicted' =>
           dedup'[r].at + dedup'[r].cool >= missed[r] \/ clock >= missed[r]
    <3> SUFFICES ASSUME NEW r \in Routes, r \notin evicted'
                 PROVE  dedup'[r].at + dedup'[r].cool >= missed[r] \/ clock >= missed[r]
      OBVIOUS
    <3>1. r \notin evicted
      BY <1>4, ClaimWrites
    <3>2. CASE r = cur.route
      BY <1>0, <2>1, <3>1, <3>2
    <3>3. CASE r # cur.route
      BY <1>0, <1>4, <3>1, <3>3, ClaimWrites
    <3> QED BY <3>2, <3>3
  <2>4. pc' = "idle" \/ cur' = cur
    BY <1>4, ClaimWrites
  <2>5. cur.route \notin evicted' => cur.route \notin evicted
    BY <1>4, ClaimWrites
  <2>6. Blind' = Blind
    BY <2>1 DEF Blind
  <2> QED BY <1>0, <2>1, <2>3, <2>4, <2>5, <2>6
<1>5. CASE Restart
  BY <1>0, <1>5, RestartForgets
<1>6. CASE FastUnprofitable \/ FastBuildFails \/ Miss
  <2>1. /\ pc # "idle" /\ pc' = "idle" /\ UNCHANGED <<clock, task>> /\ Blind' = Blind
        /\ cur.route \in Routes
    BY <1>0, <1>6, PostponeSteps, PostponeWrites DEF Blind
  <2>2. /\ dedup'[cur.route].at = cur.now
        /\ \A r \in Routes \ {cur.route} : dedup'[r] = dedup[r]
    BY <1>0, <1>6, PostponeSteps, PostponeWrites
  <2>3. CASE Miss
    <3>1. /\ missed' = [missed EXCEPT ![cur.route] = cur.now + Blacklist]
          /\ evicted' = evicted \ {cur.route}
          /\ pc = "build" /\ Postpone(Blacklist, TRUE)
      BY <2>3 DEF Miss
    <3>2. dedup'[cur.route].cool = Blacklist
      BY <1>0, <2>1, <3>1, PostponeWrites
    <3>3. \A r \in Routes : missed'[r] = IF r = cur.route THEN cur.now + Blacklist
                                                          ELSE missed[r]
      BY <3>1, TypeParts DEF RouteType
    <3> QED BY <1>0, <2>1, <2>2, <3>1, <3>2, <3>3
  <2>4. CASE FastUnprofitable \/ FastBuildFails
    <3>1. UNCHANGED <<missed, evicted>>
      BY <2>4 DEF FastUnprofitable, FastBuildFails
    <3> QED BY <1>0, <2>1, <2>2, <3>1
  <2> QED BY <1>6, <2>3, <2>4
<1>7. ASSUME NEW i \in Sends, FastSend(i) \/ SlowSend(i)
      PROVE  BlackInv'
  BY <1>0, <1>7, SendWrites DEF Blind
<1>8. ASSUME NEW i \in Sends, TaskNext(i) \/ Execute(i, "failed") \/ Execute(i, "landed")
      PROVE  BlackInv'
  <2>1. \A j \in Sends : task'[j].path = "fast" /\ task'[j].pc \in {"send", "poll"} => Blind
    BY <1>0, <1>8, TaskMoves
  <2>2. CASE FastSeesFailure(i) /\ task[i].route \in Routes
    <3>1. missed[task[i].route] = 0
      BY <1>0, <2>2, FailureWrites DEF At
    <3> QED BY <1>0, <2>1, <2>2, <3>1, FailureWrites DEF Blind
  <2>3. CASE FastSeesFailure(i) /\ task[i].route \notin Routes
    <3>1. UNCHANGED <<clock, proc, pc, cur, missed, evicted, dedup>>
      BY <2>3, TypeParts DEF FastSeesFailure, RouteType, config, thread
    <3> QED BY <2>1, <3>1 DEF Blind
  <2>4. CASE ~FastSeesFailure(i)
    BY <1>8, <2>1, <2>4, TaskKeeps DEF Blind
  <2> QED BY <2>2, <2>3, <2>4
<1> QED BY <1>1, <1>2, <1>3, <1>4, <1>5, <1>6, <1>7, <1>8, NextSteps

\* A route whose build or simulation missed is not started again before its
\* 300 s are over, unless retain dropped its entry: neither its own thread nor
\* a send task replaces it (the inserts of route_dedup, retain).
THEOREM BlacklistKeeps == Spec => BlacklistUntilEvicted
<1>1. Init => BlackInv
  BY DEF Init, BlackInv, Barred, NoEntry, NoTask
<1>2. TypeOK /\ TypeOK' /\ BlackInv /\ [Next]_vars => BlackInv'
  BY BlackStep
<1>3. BlackInv => [Starts /\ cur.route \notin evicted => cur.now >= missed[cur.route]]_vars
  BY DEF BlackInv, Starts
<1> QED BY <1>1, <1>2, <1>3, ExecutorTypeCorrect, PTL DEF Spec, BlacklistUntilEvicted
=============================================================================
