-------------------------- MODULE TransactionProofs --------------------------
(***************************************************************************)
(* TLAPS proofs about what becomes of a route.                             *)
(*                                                                         *)
(* AltCache: however creations fail, repeat, are cut short by a crash or   *)
(* race for the file, the executor is never given a table that is not      *)
(* active, and creations of one route overlap only as often as an entry of *)
(* pending_alt_creations reached its 60 s.                                 *)
(*                                                                         *)
(* FlashTx: every loan of a built transaction is closed by the instruction *)
(* it names, and whatever the pools yield, a transaction that lands has    *)
(* repaid and, through helios-arb, cost its payer no more than the fee.    *)
(***************************************************************************)
EXTENDS MCTransactions, FiniteSetTheorems, WellFoundedInduction, TLAPS

\* MappedTablesActive is not inductive: the mapping also travels in the
\* snapshot a thread took, and how far a table is follows from where the
\* thread is that creates it.
SnapshotsActive ==
  \A t \in Tables, r \in Routes :
    worker[t].snap[r] # None => chain[worker[t].snap[r]] = Active

\* A thread that has not created its table finds it absent, one that extends
\* it has not sent its last chunk.
TablesFollowThreads ==
  \A t \in Tables : /\ At(t, "create") => chain[t] = Absent
                    /\ At(t, "extend") => chain[t] < NumChunks

MInv == TypeOK /\ MappedTablesActive /\ SnapshotsActive /\ TablesFollowThreads

\* CreationsBounded is not inductive: a route without a fresh entry has one
\* creation less, which is what the next spawn adds.
CreationsFollowEntries ==
  \A r \in Routes :
    Cardinality(Creating(r)) <= expiries[r] + (IF pending[r] = "fresh" THEN 1 ELSE 0)

-----------------------------------------------------------------------------
\* Chunk counts and the two marks beyond them are different numbers.
LEMMA ChainNumbers ==
  /\ NumChunks \in Nat /\ Active \in Nat /\ Absent \in Nat
  /\ NumChunks < Active /\ Active < Absent /\ 0 < NumChunks
  BY AltAssumption DEF Active, Absent

\* A thread that has no route is idle; every other value is one of its type.
LEMMA IdleWorker ==
  /\ NoMapping \in Mappings
  /\ Idle \in [route : Routes \cup {None}, pc : Phases, snap : Mappings]
  /\ Idle.pc = "free" /\ Idle.snap = NoMapping /\ Idle.route = None
  BY DEF NoMapping, Mappings, Idle, Phases

\* A file without entries, and one with those of a mapping.
LEMMA FileType ==
  /\ \A m \in Mappings : File(m) \in [text : {"json", "empty", "garbled"}, map : Mappings]
  /\ \A m : File(m).map = m
  /\ Truncated \in [text : {"json", "empty", "garbled"}, map : Mappings]
  /\ Garbled \in [text : {"json", "empty", "garbled"}, map : Mappings]
  /\ Truncated.map = NoMapping /\ Garbled.map = NoMapping
  BY IdleWorker DEF File, Truncated, Garbled

\* What a write leaves in the file is the mapping that was written or nothing
\* that parses (persist_route_alt_cache).
LEMMA OverwriteLeaves ==
  ASSUME NEW m, NEW d \in Overwrite(m)
  PROVE  d = File(m) \/ d = Garbled
  BY DEF Overwrite

\* The move of a thread changes its position and nothing else of it.
LEMMA GotoMoves ==
  ASSUME TypeOK, NEW t \in Tables, NEW pc \in Phases, Goto(t, pc)
  PROVE  /\ worker' \in [Tables -> [route : Routes \cup {None}, pc : Phases, snap : Mappings]]
         /\ worker'[t].pc = pc
         /\ \A u \in Tables : /\ u # t => worker'[u] = worker[u]
                              /\ worker'[u].route = worker[u].route
                              /\ worker'[u].snap = worker[u].snap
  BY DEF Goto, TypeOK

-----------------------------------------------------------------------------
(* The mapping *)

\* Before the first request nothing is mapped and no table exists.
LEMMA InitMInv == Init => MInv
<1> SUFFICES ASSUME Init PROVE MInv
  OBVIOUS
<1>1. TypeOK
  BY ChainNumbers, IdleWorker, FileType DEF Init, TypeOK
<1>2. MappedTablesActive
  BY FileType DEF Init, MappedTablesActive, NoMapping
<1>3. SnapshotsActive
  BY IdleWorker DEF Init, SnapshotsActive, NoMapping
<1>4. TablesFollowThreads
  BY IdleWorker DEF Init, TablesFollowThreads, At
<1> QED BY <1>1, <1>2, <1>3, <1>4 DEF MInv

\* Steps of the executor and of the clock leave tables and mappings alone.
LEMMA ExecutorMInv ==
  ASSUME MInv,
         \/ \E r \in Routes : Lookup(r) \/ Expire(r)
         \/ InProgress \/ SpawnFails
  PROVE  MInv'
<1>1. UNCHANGED <<routeAlt, worker, chain, disk, crashes>>
  BY DEF Lookup, Expire, InProgress, SpawnFails
<1>2. TypeOK'
  <2>1. CASE \E r \in Routes : Lookup(r)
    <3> PICK r \in Routes : Lookup(r)
      BY <2>1
    <3>1. loaded' \subseteq Tables
      BY DEF Lookup, Fetch, MInv, TypeOK, Mappings
    <3> QED BY <1>1, <3>1 DEF Lookup, MInv, TypeOK
  <2>2. CASE \E r \in Routes : Expire(r)
    BY <2>2 DEF Expire, MInv, TypeOK
  <2>3. CASE InProgress
    BY <2>3 DEF InProgress, MInv, TypeOK
  <2>4. CASE SpawnFails
    BY <2>4 DEF SpawnFails, MInv, TypeOK
  <2> QED BY <2>1, <2>2, <2>3, <2>4
<1> QED BY <1>1, <1>2 DEF MInv, MappedTablesActive, SnapshotsActive, TablesFollowThreads, At

\* A step that gives no table the mark of an active one, or takes it away,
\* keeps the mapping and the snapshots sound.
LEMMA ActiveStays ==
  ASSUME MInv, \A u \in Tables : chain[u] = Active => chain'[u] = Active,
         NEW m \in Mappings, \A r \in Routes : m[r] # None => chain[m[r]] = Active
  PROVE  \A r \in Routes : m[r] # None => chain'[m[r]] = Active
  BY DEF Mappings

\* Taking a table for a route.
LEMMA SpawnMInv ==
  ASSUME MInv, NEW t \in Tables, Spawn(t)
  PROVE  MInv'
<1>1. /\ UNCHANGED <<routeAlt, loaded, chain, disk, expiries, crashes>>
      /\ asking \in Routes /\ chain[t] = Absent
      /\ pending' = [pending EXCEPT ![asking] = "fresh"]
      /\ worker' = [worker EXCEPT ![t] = [Idle EXCEPT !.route = asking, !.pc = "create"]]
      /\ asking' = None
  BY DEF Spawn, MInv, TypeOK
<1>2. worker'[t] = [route |-> asking, pc |-> "create", snap |-> NoMapping]
  BY <1>1 DEF Idle, MInv, TypeOK
<1>3. \A u \in Tables \ {t} : worker'[u] = worker[u]
  BY <1>1 DEF MInv, TypeOK
<1>4. worker' \in [Tables -> [route : Routes \cup {None}, pc : Phases, snap : Mappings]]
  BY <1>1, <1>2, <1>3, IdleWorker DEF Phases, MInv, TypeOK
<1>5. TypeOK'
  BY <1>1, <1>4 DEF MInv, TypeOK
<1>6. MappedTablesActive'
  BY <1>1 DEF MInv, MappedTablesActive
<1>7. SnapshotsActive'
  <2> SUFFICES ASSUME NEW u \in Tables, NEW r \in Routes, worker'[u].snap[r] # None
               PROVE  chain'[worker'[u].snap[r]] = Active
    BY DEF SnapshotsActive
  <2>1. u # t
    BY <1>2 DEF NoMapping
  <2> QED BY <1>1, <1>3, <2>1 DEF MInv, SnapshotsActive
<1>8. TablesFollowThreads'
  BY <1>1, <1>2, <1>3 DEF MInv, TablesFollowThreads, At
<1> QED BY <1>5, <1>6, <1>7, <1>8 DEF MInv

\* A thread that extends its table or gives up on it, and a slot that passes.
LEMMA CreationMInv ==
  ASSUME MInv, NEW t \in Tables,
         Create(t) \/ Extend(t) \/ CreateFails(t) \/ SlotPasses(t)
  PROVE  MInv'
<1>1. /\ UNCHANGED <<routeAlt, loaded, pending, disk, asking, expiries, crashes>>
      /\ chain' \in [Tables -> 0 .. Absent]
      /\ \A u \in Tables \ {t} : chain'[u] = chain[u]
      /\ chain[t] = Active => chain'[t] = Active
      /\ worker' \in [Tables -> [route : Routes \cup {None}, pc : Phases, snap : Mappings]]
      /\ \A u \in Tables : /\ u # t => worker'[u] = worker[u]
                           /\ worker'[u].snap = worker[u].snap
      /\ At(t, "create")' => chain'[t] = Absent
      /\ At(t, "extend")' => chain'[t] < NumChunks
  <2>1. CASE Create(t)
    <3>1. chain[t] = Absent /\ chain' = [chain EXCEPT ![t] = 0]
      BY <2>1 DEF Create, MInv, TablesFollowThreads
    <3>2. Goto(t, "extend")
      BY <2>1 DEF Create
    <3> QED BY <2>1, <3>1, <3>2, GotoMoves, ChainNumbers DEF Create, MInv, TypeOK, At, Phases
  <2>2. CASE Extend(t)
    <3>1. chain[t] < NumChunks /\ chain' = [chain EXCEPT ![t] = @ + 1]
      BY <2>2 DEF Extend, MInv, TablesFollowThreads
    <3>2. Goto(t, IF chain[t] + 1 = NumChunks THEN "wait" ELSE "extend")
      BY <2>2 DEF Extend
    <3> DEFINE next == IF chain[t] + 1 = NumChunks THEN "wait" ELSE "extend"
    <3>3. next \in Phases
      BY DEF Phases
    <3>4. chain[t] \in Nat /\ chain \in [Tables -> 0 .. Absent]
      BY ChainNumbers DEF MInv, TypeOK
    <3>5. chain' \in [Tables -> 0 .. Absent] /\ chain'[t] = chain[t] + 1
      BY <3>1, <3>4, ChainNumbers
    <3>6. worker'[t].pc = next
      BY <3>2, <3>3, GotoMoves DEF MInv
    <3>7. next = "extend" => chain'[t] < NumChunks
      BY <3>1, <3>4, <3>5, ChainNumbers
    <3>8. next # "create"
      OBVIOUS
    <3>9. chain[t] # Active
      BY <3>1, <3>4, ChainNumbers
    <3> HIDE DEF next
    <3> QED BY <2>2, <3>1, <3>2, <3>3, <3>5, <3>6, <3>7, <3>8, <3>9, GotoMoves
            DEF Extend, MInv, TypeOK, At, next
  <2>3. CASE CreateFails(t)
    <3>1. Goto(t, "remove") /\ "remove" \in Phases
      BY <2>3 DEF CreateFails, Phases
    <3>2. \/ chain' = chain
          \/ At(t, "create") /\ chain' = [chain EXCEPT ![t] = 0]
          \/ At(t, "extend") /\ chain' = [chain EXCEPT ![t] = @ + 1]
      BY <2>3, Zenon DEF CreateFails, At
    <3>3. /\ chain' \in [Tables -> 0 .. Absent]
          /\ \A u \in Tables \ {t} : chain'[u] = chain[u]
          /\ chain[t] = Active => chain'[t] = Active
      BY <3>2, ChainNumbers DEF MInv, TypeOK, TablesFollowThreads
    <3> QED BY <2>3, <3>1, <3>3, GotoMoves DEF CreateFails, MInv, At
  <2>4. CASE SlotPasses(t)
    BY <2>4, ChainNumbers DEF SlotPasses, MInv, TypeOK, TablesFollowThreads, At
  <2> QED BY <2>1, <2>2, <2>3, <2>4
<1>2. \A u \in Tables : chain[u] = Active => chain'[u] = Active
  BY <1>1
<1>3. TypeOK'
  BY <1>1 DEF MInv, TypeOK
<1>4. /\ routeAlt \in Mappings /\ disk.map \in Mappings
      /\ \A u \in Tables : worker[u].snap \in Mappings
  BY DEF MInv, TypeOK
<1>5. MappedTablesActive'
  BY <1>1, <1>2, <1>4, ActiveStays DEF MInv, MappedTablesActive
<1>6. SnapshotsActive'
  BY <1>1, <1>2, <1>4, ActiveStays DEF MInv, SnapshotsActive
<1>7. TablesFollowThreads'
  BY <1>1 DEF MInv, TablesFollowThreads, At
<1> QED BY <1>3, <1>5, <1>6, <1>7 DEF MInv

\* Only a table that is ready is entered.
LEMMA EnterMInv ==
  ASSUME MInv, NEW t \in Tables, Enter(t)
  PROVE  MInv'
<1>1. /\ UNCHANGED <<pending, chain, disk, asking, expiries, crashes>>
      /\ chain[t] = Active
      /\ routeAlt' = [routeAlt EXCEPT ![worker[t].route] = t]
      /\ Goto(t, "snapshot")
  BY DEF Enter, TableReady
<1>2. loaded' \subseteq Tables
  BY DEF Enter, Fetch, MInv, TypeOK
<1>3. routeAlt' \in Mappings
  BY <1>1 DEF MInv, TypeOK, Mappings
<1>4. TypeOK'
  BY <1>1, <1>2, <1>3, GotoMoves DEF MInv, TypeOK, Phases
<1>5. MappedTablesActive'
  BY <1>1 DEF MInv, TypeOK, Mappings, MappedTablesActive
<1>6. SnapshotsActive'
  BY <1>1, GotoMoves DEF MInv, SnapshotsActive, Phases
<1>7. TablesFollowThreads'
  BY <1>1, GotoMoves DEF MInv, TablesFollowThreads, At, Phases
<1> QED BY <1>4, <1>5, <1>6, <1>7 DEF MInv

\* persist_route_alt_cache: what is written is a mapping that was sound when
\* it was read, and active tables stay active.
LEMMA PersistMInv ==
  ASSUME MInv, NEW t \in Tables,
         Snapshot(t) \/ Truncate(t) \/ Write(t) \/ WriteFails(t)
  PROVE  MInv'
<1>1. /\ UNCHANGED <<routeAlt, loaded, pending, chain, asking, expiries, crashes>>
      /\ worker' \in [Tables -> [route : Routes \cup {None}, pc : Phases, snap : Mappings]]
      /\ \A u \in Tables \ {t} : worker'[u] = worker[u]
      /\ worker'[t].pc \in {"truncate", "write", "remove"}
      /\ worker'[t].snap \in {worker[t].snap, routeAlt}
  <2>1. CASE Snapshot(t)
    BY <2>1 DEF Snapshot, MInv, TypeOK, Phases
  <2>2. CASE Truncate(t)
    BY <2>2, GotoMoves DEF Truncate, MInv, Phases
  <2>3. CASE Write(t)
    BY <2>3, GotoMoves DEF Write, MInv, Phases
  <2>4. CASE WriteFails(t)
    BY <2>4, GotoMoves DEF WriteFails, MInv, Phases
  <2> QED BY <2>1, <2>2, <2>3, <2>4
<1>2. \/ disk' = disk \/ disk' = Truncated \/ disk' = Garbled
      \/ disk' = File(worker[t].snap)
  BY OverwriteLeaves DEF Snapshot, Truncate, Write, WriteFails
<1>3. worker[t].snap \in Mappings
  BY DEF MInv, TypeOK
<1>4. /\ disk' \in [text : {"json", "empty", "garbled"}, map : Mappings]
      /\ disk'.map \in {disk.map, NoMapping, worker[t].snap}
  BY <1>2, <1>3, FileType DEF MInv, TypeOK
<1>5. TypeOK'
  BY <1>1, <1>4 DEF MInv, TypeOK
<1>6. MappedTablesActive'
  BY <1>1, <1>4 DEF MInv, MappedTablesActive, SnapshotsActive, NoMapping
<1>7. SnapshotsActive'
  BY <1>1 DEF MInv, SnapshotsActive, MappedTablesActive
<1>8. TablesFollowThreads'
  BY <1>1 DEF MInv, TablesFollowThreads, At
<1> QED BY <1>5, <1>6, <1>7, <1>8 DEF MInv

\* The end of a thread, and a restart, which maps what the file holds.
LEMMA EndMInv ==
  ASSUME MInv, Restart \/ \E t \in Tables : Remove(t)
  PROVE  MInv'
<1>1. CASE Restart
  <2>1. /\ routeAlt' = disk.map /\ UNCHANGED <<chain, disk>>
        /\ worker' = [t \in Tables |-> Idle]
        /\ loaded' \subseteq Tables
    BY <1>1 DEF Restart
  <2>2. TypeOK'
    BY <1>1, <2>1, IdleWorker DEF Restart, MInv, TypeOK
  <2> QED BY <2>1, <2>2, IdleWorker
          DEF MInv, MappedTablesActive, SnapshotsActive, TablesFollowThreads, At, NoMapping
<1>2. ASSUME NEW t \in Tables, Remove(t) PROVE MInv'
  <2>1. /\ UNCHANGED <<routeAlt, loaded, chain, disk, asking, expiries, crashes>>
        /\ pending' = [pending EXCEPT ![worker[t].route] = "none"]
        /\ worker' = [worker EXCEPT ![t] = Idle]
    BY <1>2 DEF Remove
  <2>2. worker'[t] = Idle /\ \A u \in Tables \ {t} : worker'[u] = worker[u]
    BY <2>1 DEF MInv, TypeOK
  <2>3. TypeOK'
    BY <2>1, IdleWorker DEF MInv, TypeOK
  <2> QED BY <2>1, <2>2, <2>3, IdleWorker
          DEF MInv, MappedTablesActive, SnapshotsActive, TablesFollowThreads, At, NoMapping
<1> QED BY <1>1, <1>2

\* Every step of the executor, of a thread, of the chain and of a crash keeps it.
LEMMA NextMInv == MInv /\ [Next]_vars => MInv'
<1> SUFFICES ASSUME MInv, [Next]_vars PROVE MInv'
  OBVIOUS
<1>1. CASE UNCHANGED vars
  BY <1>1 DEF vars, MInv, TypeOK, MappedTablesActive, SnapshotsActive, TablesFollowThreads, At
<1>2. CASE Next
  BY <1>2, ExecutorMInv, SpawnMInv, CreationMInv, EnterMInv, PersistMInv, EndMInv DEF Next
<1> QED BY <1>1, <1>2

\* The inductive invariant of the mapping holds in every reachable state.
THEOREM MInvHolds == Spec => []MInv
  BY InitMInv, NextMInv, PTL DEF Spec

\* Threads, entries, tables and the file only take the values of their types,
\* and a table never holds more chunks than its route has.
THEOREM AltTypeCorrect == Spec => []TypeOK
<1>1. MInv => TypeOK
  BY DEF MInv
<1> QED BY <1>1, MInvHolds, PTL

\* Every table the executor can be given for a route, now or after a restart,
\* holds all the addresses and is past its activation slot, for any number of
\* routes, tables, chunks, failures and crashes (try_get_or_spawn_create).
THEOREM MappedTablesAreActive == Spec => []MappedTablesActive
<1>1. MInv => MappedTablesActive
  BY DEF MInv
<1> QED BY <1>1, MInvHolds, PTL

-----------------------------------------------------------------------------
(* The creations of a route *)

\* There are finitely many tables, so the creations of a route can be counted.
LEMMA CreatingFinite ==
  ASSUME NEW r \in Routes
  PROVE  IsFiniteSet(Creating(r)) /\ Cardinality(Creating(r)) \in Nat
<1>1. Creating(r) \subseteq Tables
  BY DEF Creating
<1> QED BY <1>1, AltAssumption, FS_Subset, FS_CardinalityType

\* A step that moves no thread out of or into a route leaves its creations.
LEMMA CreatingStays ==
  ASSUME TypeOK, NEW t \in Tables, worker[t].pc # "free",
         NEW pc \in Phases \ {"free"},
         \/ Goto(t, pc)
         \/ worker' = [worker EXCEPT ![t].pc = pc, ![t].snap = routeAlt]
  PROVE  \A r \in Routes : Creating(r)' = Creating(r)
<1>1. \A u \in Tables : /\ worker'[u].route = worker[u].route
                        /\ u # t => worker'[u].pc = worker[u].pc
  BY DEF Goto, TypeOK
<1>2. worker'[t].pc = pc
  BY DEF Goto, TypeOK
<1> QED BY <1>1, <1>2 DEF Creating

\* The threads' own steps before the last: none ends or starts a creation.
LEMMA WorkersKeepCreating ==
  ASSUME TypeOK, NEW t \in Tables,
         \/ Create(t) \/ Extend(t) \/ Enter(t) \/ CreateFails(t)
         \/ Snapshot(t) \/ Truncate(t) \/ Write(t) \/ WriteFails(t)
  PROVE  /\ UNCHANGED <<pending, expiries>>
         /\ \A r \in Routes : Creating(r)' = Creating(r)
<1>1. UNCHANGED <<pending, expiries>>
  BY DEF Create, Extend, Enter, CreateFails, Snapshot, Truncate, Write, WriteFails
<1>2. worker[t].pc # "free"
  BY DEF Create, Extend, Enter, CreateFails, Snapshot, Truncate, Write, WriteFails, At
<1>3. \/ \E pc \in Phases \ {"free"} : Goto(t, pc)
      \/ worker' = [worker EXCEPT ![t].pc = "truncate", ![t].snap = routeAlt]
  <2>1. CASE Extend(t)
    BY <2>1 DEF Extend, Phases
  <2>2. CASE ~Extend(t)
    BY <2>2 DEF Create, Enter, CreateFails, Snapshot, Truncate, Write, WriteFails, Phases
  <2> QED BY <2>1, <2>2
<1>4. "truncate" \in Phases \ {"free"}
  BY DEF Phases
<1> QED BY <1>1, <1>2, <1>3, <1>4, CreatingStays

\* A spawn starts one creation of the route that was asked for.
LEMMA SpawnCreates ==
  ASSUME TypeOK, NEW t \in Tables, Spawn(t)
  PROVE  /\ asking \in Routes
         /\ \A r \in Routes : IF r = asking
                              THEN Cardinality(Creating(r)') = Cardinality(Creating(r)) + 1
                              ELSE Creating(r)' = Creating(r)
<1>1. /\ asking \in Routes /\ worker[t] = Idle
      /\ worker' = [worker EXCEPT ![t] = [Idle EXCEPT !.route = asking, !.pc = "create"]]
  BY DEF Spawn, TypeOK
<1>2. worker'[t].route = asking /\ worker'[t].pc = "create"
  BY <1>1 DEF Idle, TypeOK
<1>3. \A u \in Tables \ {t} : worker'[u] = worker[u]
  BY <1>1 DEF TypeOK
<1>4. worker[t].pc = "free"
  BY <1>1, IdleWorker
<1> SUFFICES ASSUME NEW r \in Routes
             PROVE  IF r = asking
                    THEN Cardinality(Creating(r)') = Cardinality(Creating(r)) + 1
                    ELSE Creating(r)' = Creating(r)
  BY <1>1
<1>5. CASE r # asking
  BY <1>2, <1>3, <1>4, <1>5 DEF Creating
<1>6. CASE r = asking
  <2>1. Creating(r)' = Creating(r) \cup {t}
    BY <1>2, <1>3, <1>6 DEF Creating
  <2>2. t \notin Creating(r)
    BY <1>4 DEF Creating
  <2> QED BY <1>6, <2>1, <2>2, CreatingFinite, FS_AddElement
<1> QED BY <1>5, <1>6

\* The end of a thread ends one creation of its route.
LEMMA RemoveEnds ==
  ASSUME TypeOK, NEW t \in Tables, Remove(t), NEW r \in Routes
  PROVE  IF r = worker[t].route
         THEN Cardinality(Creating(r)') = Cardinality(Creating(r)) - 1
         ELSE Creating(r)' = Creating(r)
<1>1. worker[t].pc = "remove" /\ worker' = [worker EXCEPT ![t] = Idle]
  BY DEF Remove, At
<1>2. worker'[t].pc = "free" /\ \A u \in Tables \ {t} : worker'[u] = worker[u]
  BY <1>1, IdleWorker DEF TypeOK
<1>3. CASE r # worker[t].route
  BY <1>2, <1>3 DEF Creating
<1>4. CASE r = worker[t].route
  <2>1. Creating(r)' = Creating(r) \ {t} /\ t \in Creating(r)
    BY <1>1, <1>2, <1>4 DEF Creating
  <2> QED BY <1>4, <2>1, CreatingFinite, FS_RemoveElement
<1> QED BY <1>3, <1>4

\* The counted form is inductive.
LEMMA NextCreations ==
  ASSUME TypeOK, CreationsFollowEntries, [Next]_vars
  PROVE  CreationsFollowEntries'
<1> SUFFICES ASSUME NEW r \in Routes
             PROVE  Cardinality(Creating(r)') <=
                      expiries'[r] + (IF pending'[r] = "fresh" THEN 1 ELSE 0)
  BY DEF CreationsFollowEntries
<1>1. /\ Cardinality(Creating(r)) \in Nat /\ expiries[r] \in Nat
      /\ Cardinality(Creating(r)) <= expiries[r] + (IF pending[r] = "fresh" THEN 1 ELSE 0)
  BY CreatingFinite DEF TypeOK, CreationsFollowEntries
<1>2. CASE (\E q \in Routes : Lookup(q)) \/ InProgress \/ UNCHANGED vars
           \/ \E t \in Tables : SlotPasses(t)
  BY <1>1, <1>2 DEF Lookup, InProgress, SlotPasses, vars, Creating
<1>3. ASSUME NEW q \in Routes, Expire(q)
      PROVE  Cardinality(Creating(r)') <=
               expiries'[r] + (IF pending'[r] = "fresh" THEN 1 ELSE 0)
  <2>1. Creating(r)' = Creating(r)
    BY <1>3 DEF Expire, Creating
  <2>2. /\ expiries'[r] = IF r = q THEN expiries[r] + 1 ELSE expiries[r]
        /\ pending'[r] = IF r = q THEN "old" ELSE pending[r]
    BY <1>3 DEF Expire, TypeOK
  <2> QED BY <1>1, <2>1, <2>2
<1>4. CASE SpawnFails
  <2>1. Creating(r)' = Creating(r) /\ expiries' = expiries
    BY <1>4 DEF SpawnFails, Creating
  <2>2. pending'[r] = "fresh" \/ pending'[r] = pending[r]
    BY <1>4 DEF SpawnFails, TypeOK
  <2> QED BY <1>1, <2>1, <2>2
<1>5. CASE Restart
  <2>1. \A t \in Tables : worker'[t].pc = "free"
    BY <1>5, IdleWorker DEF Restart
  <2>2. Creating(r)' = {} /\ expiries'[r] = 0
    BY <1>5, <2>1 DEF Restart, Creating
  <2> QED BY <2>2, FS_EmptySet
<1>6. ASSUME NEW t \in Tables, Spawn(t)
      PROVE  Cardinality(Creating(r)') <=
               expiries'[r] + (IF pending'[r] = "fresh" THEN 1 ELSE 0)
  <2>1. /\ expiries' = expiries /\ pending[asking] # "fresh"
        /\ pending'[r] = IF r = asking THEN "fresh" ELSE pending[r]
    BY <1>6 DEF Spawn, TypeOK
  <2>2. CASE r = asking
    BY <1>1, <1>6, <2>1, <2>2, SpawnCreates
  <2>3. CASE r # asking
    BY <1>1, <1>6, <2>1, <2>3, SpawnCreates
  <2> QED BY <2>2, <2>3
<1>7. ASSUME NEW t \in Tables, Remove(t)
      PROVE  Cardinality(Creating(r)') <=
               expiries'[r] + (IF pending'[r] = "fresh" THEN 1 ELSE 0)
  <2>1. /\ expiries' = expiries
        /\ pending'[r] = IF r = worker[t].route THEN "none" ELSE pending[r]
    BY <1>7 DEF Remove, TypeOK
  <2>2. CASE r = worker[t].route
    BY <1>1, <1>7, <2>1, <2>2, RemoveEnds
  <2>3. CASE r # worker[t].route
    BY <1>1, <1>7, <2>1, <2>3, RemoveEnds
  <2> QED BY <2>2, <2>3
<1>8. ASSUME NEW t \in Tables,
             \/ Create(t) \/ Extend(t) \/ Enter(t) \/ CreateFails(t)
             \/ Snapshot(t) \/ Truncate(t) \/ Write(t) \/ WriteFails(t)
      PROVE  Cardinality(Creating(r)') <=
               expiries'[r] + (IF pending'[r] = "fresh" THEN 1 ELSE 0)
  BY <1>1, <1>8, WorkersKeepCreating
<1> QED BY <1>2, <1>3, <1>4, <1>5, <1>6, <1>7, <1>8 DEF Next

\* No two creations of a route run at once unless an entry reached its 60 s,
\* however threads fail, die or remove each other's entry, and for any number
\* of routes, tables and restarts (pending_alt_creations).
THEOREM CreationsAreBounded == Spec => []CreationsBounded
<1>1. Init => CreationsFollowEntries
  <2> SUFFICES ASSUME Init, NEW r \in Routes
               PROVE  Cardinality(Creating(r)) <= expiries[r]
                        + (IF pending[r] = "fresh" THEN 1 ELSE 0)
    BY DEF CreationsFollowEntries
  <2>1. Creating(r) = {}
    BY IdleWorker DEF Init, Creating
  <2> QED BY <2>1, FS_EmptySet DEF Init
<1>2. MInv /\ CreationsFollowEntries /\ [Next]_vars => CreationsFollowEntries'
  BY NextCreations DEF MInv
<1>3. MInv /\ CreationsFollowEntries => CreationsBounded
  <2> SUFFICES ASSUME MInv, CreationsFollowEntries, NEW r \in Routes
               PROVE  Cardinality(Creating(r)) <= 1 + expiries[r]
    BY DEF CreationsBounded
  <2>1. expiries[r] \in Nat /\ Cardinality(Creating(r)) \in Nat
    BY CreatingFinite DEF MInv, TypeOK
  <2> QED BY <2>1 DEF CreationsFollowEntries
<1> QED BY <1>1, <1>2, <1>3, MInvHolds, PTL DEF Spec

-----------------------------------------------------------------------------
(* The instructions of a transaction.                                      *)

Plain == {"budget", "ata", "tip"}

\* ixs holds the instructions of mid after the first pre, which are plain, and
\* plain ones after them.
Framed(ixs, pre, mid) ==
  /\ pre \in Nat \ {0} /\ Len(mid) \in Nat /\ Len(ixs) \in Nat
  /\ DOMAIN ixs = 1 .. Len(ixs) /\ pre + Len(mid) <= Len(ixs)
  /\ \A i \in 1 .. Len(ixs) : i <= pre \/ pre + Len(mid) < i => ixs[i].op \in Plain
  /\ \A k \in 1 .. Len(mid) : ixs[pre + k] = mid[k]

\* Instructions in a row.
LEMMA Frame ==
  ASSUME NEW S, NEW head \in Seq(S), NEW mid \in Seq(S), NEW tail \in Seq(S), head # <<>>,
         \A i \in 1 .. Len(head) : head[i].op \in Plain,
         \A i \in 1 .. Len(tail) : tail[i].op \in Plain
  PROVE  Framed(head \o mid \o tail, Len(head), mid)
<1> DEFINE ixs == head \o mid \o tail
<1>1. /\ ixs \in Seq(S) /\ Len(ixs) = Len(head) + Len(mid) + Len(tail)
      /\ Len(head) \in Nat \ {0} /\ Len(mid) \in Nat /\ Len(tail) \in Nat
  OBVIOUS
<1>2. \A i \in 1 .. Len(ixs) :
        ixs[i] = IF i <= Len(head) THEN head[i]
                 ELSE IF i <= Len(head) + Len(mid) THEN mid[i - Len(head)]
                 ELSE tail[i - (Len(head) + Len(mid))]
  <2>1. /\ head \o mid \in Seq(S) /\ Len(head \o mid) = Len(head) + Len(mid)
        /\ \A i \in 1 .. Len(head) + Len(mid) :
             (head \o mid)[i] = IF i <= Len(head) THEN head[i] ELSE mid[i - Len(head)]
    OBVIOUS
  <2> HIDE DEF ixs
  <2>2. \A i \in 1 .. Len(ixs) :
          ixs[i] = IF i <= Len(head \o mid) THEN (head \o mid)[i]
                   ELSE tail[i - Len(head \o mid)]
    BY <2>1 DEF ixs
  <2> QED BY <1>1, <2>1, <2>2
<1> HIDE DEF ixs
<1>3. \A i \in 1 .. Len(ixs) : i <= Len(head) => ixs[i].op \in Plain
  BY <1>1, <1>2
<1>4. \A i \in 1 .. Len(ixs) : Len(head) + Len(mid) < i => ixs[i].op \in Plain
  <2> SUFFICES ASSUME NEW i \in 1 .. Len(ixs), Len(head) + Len(mid) < i
               PROVE  ixs[i].op \in Plain
    OBVIOUS
  <2>1. ixs[i] = tail[i - (Len(head) + Len(mid))]
    BY <1>1, <1>2
  <2>2. i - (Len(head) + Len(mid)) \in 1 .. Len(tail)
    BY <1>1
  <2> QED BY <2>1, <2>2
<1>5. \A k \in 1 .. Len(mid) : ixs[Len(head) + k] = mid[k]
  BY <1>1, <1>2
<1> QED BY <1>1, <1>3, <1>4, <1>5 DEF Framed, ixs

-----------------------------------------------------------------------------
(* What the builders promise of a transaction t for a route r.             *)

OpAt(t, index) == IF index + 1 \in DOMAIN t.ixs THEN t.ixs[index + 1].op ELSE "none"

\* BracketsClose, of any transaction.
Brackets(t) ==
  \A i \in DOMAIN t.ixs :
    /\ t.ixs[i].op = "begin" => OpAt(t, t.ixs[i].ref) = "end"
    /\ t.ixs[i].op = "repay" => OpAt(t, t.ixs[i].ref) = "borrow"
    /\ t.ixs[i].op = "flash" => OpAt(t, i) = "carrier"
    /\ t.ixs[i].op \in {"swap", "helios"} =>
         /\ \E b \in DOMAIN t.ixs : t.ixs[b].op = "borrow" /\ b < i
         /\ \E e \in DOMAIN t.ixs : t.ixs[e].op \in {"repay", "end"} /\ i < e

\* A lender that takes a repayment finds one after its loan.
RepayFollows(t) ==
  t.provider # "marginfi" =>
    \A i \in DOMAIN t.ixs :
      t.ixs[i].op = "borrow" => \E j \in DOMAIN t.ixs : i < j /\ t.ixs[j].op = "repay"

Loans(t) == {i \in DOMAIN t.ixs : t.ixs[i].op \in {"borrow", "flash"}}

\* A plan of helios-arb: no profit is asked for, amounts are natural numbers.
PlanSound(plan) == /\ plan.min_profit = 0
                   /\ Len(plan.hops) \in Nat /\ DOMAIN plan.hops = 1 .. Len(plan.hops)
                   /\ \A h \in DOMAIN plan.hops : plan.hops[h].amount \in Nat

\* A transaction through helios-arb takes one loan, and swaps only there.
HeliosSound(t, r) ==
  /\ Len(r.hops) > 0
  /\ \A i, j \in Loans(t) : i = j
  /\ \A i \in DOMAIN t.ixs :
       /\ t.ixs[i].op # "swap"
       /\ t.ixs[i].op = "helios" => PlanSound(t.ixs[i].data)
       /\ t.ixs[i].op = "flash" => PlanSound(t.ixs[i + 1].data)

TxSound(t, r) ==
  /\ t.provider \in Flash!Providers /\ t.mode \in {"helios", "direct", "jupiter"}
  /\ Len(t.ixs) \in Nat \ {0} /\ DOMAIN t.ixs = 1 .. Len(t.ixs)
  /\ Brackets(t) /\ RepayFollows(t)
  /\ IF t.mode = "helios" THEN HeliosSound(t, r)
     ELSE \A i \in DOMAIN t.ixs : t.ixs[i].op \notin {"helios", "flash"}

RouteType == [hops : Seq(Hops), borrow : Nat, gross : Nat, net : Int, risk : Nat]

LEMMA PlanIsSound ==
  ASSUME NEW r \in RouteType, NEW progs
  PROVE  PlanSound(Flash!HeliosIx(r, progs).data)
<1>1. \A i \in DOMAIN r.hops : Flash!AmountIn(r, i, "helios") \in Nat
  <2> SUFFICES ASSUME NEW i \in DOMAIN r.hops, i # 1
               PROVE  Flash!SafeOut(r.hops[i - 1]) \in Nat
    BY DEF RouteType, Flash!AmountIn
  <2>1. r.hops \in Seq(Hops) /\ i - 1 \in 1 .. Len(r.hops)
    BY DEF RouteType
  <2>2. r.hops[i - 1] \in Hops
    BY <2>1
  <2>3. r.hops[i - 1].est \in Nat
    BY <2>2 DEF Hops
  <2> QED BY <2>3 DEF Flash!SafeOut
<1> DEFINE hops == Flash!HeliosIx(r, progs).data.hops
<1>2. DOMAIN r.hops = 1 .. Len(r.hops) /\ Len(r.hops) \in Nat
  BY DEF RouteType
<1>3. DOMAIN hops = DOMAIN r.hops /\ \A h \in DOMAIN r.hops : hops[h].amount \in Nat
  BY <1>1 DEF Flash!HeliosIx, Flash!Ix, Flash!SwapData
<1>4. Flash!HeliosIx(r, progs).data.min_profit = 0
  BY DEF Flash!HeliosIx, Flash!Ix
<1>5. Len(hops) \in Nat /\ DOMAIN hops = 1 .. Len(hops)
  <2>1. hops = [i \in 1 .. Len(r.hops) |-> hops[i]]
    BY <1>2 DEF Flash!HeliosIx, Flash!Ix
  <2> HIDE DEF hops
  <2>2. hops \in [1 .. Len(r.hops) -> {hops[i] : i \in 1 .. Len(r.hops)}]
    BY <2>1
  <2> QED BY <1>2, <2>2
<1> QED BY <1>3, <1>4, <1>5 DEF PlanSound

\* The four forms of a loan around helios-arb.
LEMMA HeliosFramed ==
  ASSUME NEW t, NEW r \in RouteType, NEW progs, NEW pre \in Nat, Len(r.hops) > 0,
         t.provider \in Flash!Providers, t.mode = "helios",
         Framed(t.ixs, pre, Flash!Wrapped(t.provider, r, progs, pre))
  PROVE  TxSound(t, r)
<1> DEFINE h == Flash!HeliosIx(r, progs)
           w == Flash!Wrapped(t.provider, r, progs, pre)
<1>1. PlanSound(h.data) /\ h.op = "helios"
  BY PlanIsSound DEF Flash!HeliosIx, Flash!Ix
<1>2. CASE t.provider = "marginfi"
  <2>1. w = Flash!MarginfiWrapped(r, h, pre)
    BY <1>2 DEF Flash!Wrapped
  <2>2. /\ Len(w) = 4 /\ w[1].op = "begin" /\ w[1].ref = pre + 3 /\ w[2].op = "borrow"
        /\ w[3] = h /\ w[4].op = "end"
    BY <2>1 DEF Flash!MarginfiWrapped, Flash!Ix, Flash!Borrow
  <2> HIDE DEF h, w
  <2>3. /\ t.ixs[pre + 1].op = "begin" /\ t.ixs[pre + 1].ref = pre + 3
        /\ t.ixs[pre + 2].op = "borrow" /\ t.ixs[pre + 3] = h /\ t.ixs[pre + 4].op = "end"
        /\ pre + 4 <= Len(t.ixs) /\ Len(t.ixs) \in Nat \ {0} /\ DOMAIN t.ixs = 1 .. Len(t.ixs)
        /\ \A i \in 1 .. Len(t.ixs) : i <= pre \/ pre + 4 < i => t.ixs[i].op \in Plain
    BY <2>2 DEF Framed, w
  <2>4. \A i \in DOMAIN t.ixs : \/ t.ixs[i].op \in Plain
                                \/ i \in {pre + 1, pre + 2, pre + 3, pre + 4}
    BY <2>3
  <2>5. Brackets(t)
    <3>1. OpAt(t, pre + 3) = "end"
      <4>1. pre + 3 + 1 = pre + 4 /\ pre + 4 \in DOMAIN t.ixs
        BY <2>3
      <4> QED BY <2>3, <4>1 DEF OpAt
    <3>2. /\ pre + 2 \in DOMAIN t.ixs /\ pre + 4 \in DOMAIN t.ixs
          /\ pre + 2 < pre + 3 /\ pre + 3 < pre + 4
      BY <2>3
    <3>3. \A i \in DOMAIN t.ixs : /\ t.ixs[i].op = "begin" => i = pre + 1
                                  /\ t.ixs[i].op \notin {"repay", "flash", "swap"}
                                  /\ t.ixs[i].op = "helios" => i = pre + 3
      BY <1>1, <2>3, <2>4 DEF Plain
    <3> QED BY <2>3, <3>1, <3>2, <3>3 DEF Brackets
  <2>6. HeliosSound(t, r)
    BY <1>1, <2>3, <2>4 DEF HeliosSound, Loans, Plain
  <2> QED BY <1>2, <2>3, <2>5, <2>6 DEF TxSound, RepayFollows
<1>3. CASE t.provider \in {"solend", "kamino"}
  <2>1. w = <<Flash!Borrow(r), h, Flash!Repay(pre)>>
    BY <1>3 DEF Flash!Wrapped, Flash!SolendWrapped, Flash!KaminoWrapped
  <2>2. /\ Len(w) = 3 /\ w[1].op = "borrow" /\ w[2] = h
        /\ w[3].op = "repay" /\ w[3].ref = pre
    BY <2>1 DEF Flash!Ix, Flash!Borrow, Flash!Repay
  <2> HIDE DEF h, w
  <2>3. /\ t.ixs[pre + 1].op = "borrow" /\ t.ixs[pre + 2] = h
        /\ t.ixs[pre + 3].op = "repay" /\ t.ixs[pre + 3].ref = pre
        /\ pre + 3 <= Len(t.ixs) /\ Len(t.ixs) \in Nat \ {0} /\ DOMAIN t.ixs = 1 .. Len(t.ixs)
        /\ \A i \in 1 .. Len(t.ixs) : i <= pre \/ pre + 3 < i => t.ixs[i].op \in Plain
    BY <2>2 DEF Framed, w
  <2>4. \A i \in DOMAIN t.ixs : t.ixs[i].op \in Plain \/ i \in {pre + 1, pre + 2, pre + 3}
    BY <2>3
  <2>5. Brackets(t)
    <3>1. OpAt(t, pre) = "borrow"
      BY <2>3 DEF OpAt
    <3>2. /\ pre + 1 \in DOMAIN t.ixs /\ pre + 3 \in DOMAIN t.ixs
          /\ pre + 1 < pre + 2 /\ pre + 2 < pre + 3
      BY <2>3
    <3>3. \A i \in DOMAIN t.ixs : /\ t.ixs[i].op = "repay" => i = pre + 3
                                  /\ t.ixs[i].op \notin {"begin", "flash", "swap"}
                                  /\ t.ixs[i].op = "helios" => i = pre + 2
      BY <1>1, <2>3, <2>4 DEF Plain
    <3> QED BY <2>3, <3>1, <3>2, <3>3 DEF Brackets
  <2>6. HeliosSound(t, r)
    BY <1>1, <2>3, <2>4 DEF HeliosSound, Loans, Plain
  <2>7. RepayFollows(t)
    BY <1>1, <2>3, <2>4 DEF RepayFollows, Plain
  <2> QED BY <2>3, <2>5, <2>6, <2>7 DEF TxSound
<1>4. CASE t.provider = "port"
  <2>1. w = Flash!PortWrapped(r, h)
    BY <1>4 DEF Flash!Wrapped
  <2>2. Len(w) = 2 /\ w[1].op = "flash" /\ w[2].op = "carrier" /\ w[2].data = h.data
    BY <2>1 DEF Flash!PortWrapped, Flash!Ix
  <2> HIDE DEF h, w
  <2>3. /\ t.ixs[pre + 1].op = "flash" /\ t.ixs[pre + 2].op = "carrier"
        /\ t.ixs[pre + 2].data = h.data
        /\ pre + 2 <= Len(t.ixs) /\ Len(t.ixs) \in Nat \ {0} /\ DOMAIN t.ixs = 1 .. Len(t.ixs)
        /\ \A i \in 1 .. Len(t.ixs) : i <= pre \/ pre + 2 < i => t.ixs[i].op \in Plain
    BY <2>2 DEF Framed, w
  <2>4. \A i \in DOMAIN t.ixs : t.ixs[i].op \in Plain \/ i \in {pre + 1, pre + 2}
    BY <2>3
  <2>5. Brackets(t)
    <3>1. OpAt(t, pre + 1) = "carrier"
      <4>1. pre + 1 + 1 = pre + 2 /\ pre + 2 \in DOMAIN t.ixs
        BY <2>3
      <4> QED BY <2>3, <4>1 DEF OpAt
    <3>2. \A i \in DOMAIN t.ixs : /\ t.ixs[i].op = "flash" => i = pre + 1
                                  /\ t.ixs[i].op \notin {"begin", "repay", "swap", "helios"}
      BY <2>3, <2>4 DEF Plain
    <3> QED BY <3>1, <3>2 DEF Brackets
  <2>6. HeliosSound(t, r)
    <3>1. \A i \in DOMAIN t.ixs : /\ t.ixs[i].op \in {"borrow", "flash"} => i = pre + 1
                                  /\ t.ixs[i].op \notin {"swap", "helios"}
      BY <2>3, <2>4 DEF Plain
    <3>2. PlanSound(t.ixs[pre + 1 + 1].data)
      <4>1. pre + 1 + 1 = pre + 2
        OBVIOUS
      <4> QED BY <1>1, <2>3, <4>1
    <3> QED BY <3>1, <3>2 DEF HeliosSound, Loans
  <2>7. RepayFollows(t)
    BY <2>3, <2>4 DEF RepayFollows, Plain
  <2> QED BY <2>3, <2>5, <2>6, <2>7 DEF TxSound
<1> QED BY <1>2, <1>3, <1>4 DEF Flash!Providers

\* The two forms of a loan around swaps of their own.
LEMMA DirectFramed ==
  ASSUME NEW t, NEW r, NEW S, NEW swaps \in Seq(S), NEW pre \in Nat,
         \A i \in 1 .. Len(swaps) : swaps[i].op = "swap",
         t.provider \in {"marginfi", "kamino"}, t.mode \in {"direct", "jupiter"},
         Framed(t.ixs, pre, Flash!WrappedDirect(t.provider, r, swaps, pre))
  PROVE  TxSound(t, r)
<1> DEFINE n == Len(swaps)
           w == Flash!WrappedDirect(t.provider, r, swaps, pre)
<1>1. CASE t.provider = "marginfi"
  <2> DEFINE begin == Flash!Ix("begin", pre + 2 + n, <<>>, <<>>)
             end == Flash!Ix("end", 0, <<>>, <<>>)
             T == S \cup {begin, Flash!Borrow(r), end}
  <2>1. w = <<begin, Flash!Borrow(r)>> \o swaps \o <<end>>
    BY <1>1 DEF Flash!WrappedDirect
  <2>2. /\ begin.op = "begin" /\ begin.ref = pre + 2 + n
        /\ Flash!Borrow(r).op = "borrow" /\ end.op = "end"
    BY DEF Flash!Ix, Flash!Borrow
  <2>3. n \in Nat /\ swaps \in Seq(T)
    OBVIOUS
  <2>a. begin \in T /\ Flash!Borrow(r) \in T /\ end \in T
    OBVIOUS
  <2> HIDE DEF begin, end, T
  <2>4. /\ Len(w) = n + 3 /\ w[1] = begin /\ w[2] = Flash!Borrow(r) /\ w[n + 3] = end
        /\ \A k \in 1 .. n : w[k + 2] = swaps[k]
    BY <2>1, <2>3, <2>a
  <2> HIDE DEF w, n
  <2>5. /\ t.ixs[pre + 1] = begin /\ t.ixs[pre + 2] = Flash!Borrow(r)
        /\ t.ixs[pre + (n + 3)] = end
        /\ \A k \in 1 .. n : t.ixs[pre + (k + 2)] = swaps[k]
        /\ pre + n + 3 <= Len(t.ixs) /\ Len(t.ixs) \in Nat \ {0}
        /\ DOMAIN t.ixs = 1 .. Len(t.ixs)
        /\ \A i \in 1 .. Len(t.ixs) : i <= pre \/ pre + n + 3 < i => t.ixs[i].op \in Plain
    BY <2>3, <2>4 DEF Framed, w
  <2>6. \A i \in DOMAIN t.ixs : \/ t.ixs[i].op \in Plain
                                \/ i \in {pre + 1, pre + 2, pre + n + 3}
                                \/ t.ixs[i].op = "swap" /\ i > pre + 2 /\ i < pre + n + 3
    <3> TAKE i \in DOMAIN t.ixs
    <3>1. CASE i > pre + 2 /\ i < pre + n + 3
      <4> DEFINE k == i - (pre + 2)
      <4>1. k \in 1 .. n /\ pre + (k + 2) = i
        <5>1. i \in Int /\ n \in Nat
          BY <2>3, <2>5
        <5>2. k \in Int /\ k >= 1 /\ k <= n
          BY <3>1, <5>1
        <5> QED BY <5>1, <5>2
      <4> HIDE DEF k
      <4> QED BY <3>1, <4>1, <2>5 DEF n
    <3>2. CASE ~(i > pre + 2 /\ i < pre + n + 3)
      BY <3>2, <2>3, <2>5
    <3> QED BY <3>1, <3>2
  <2>7. Brackets(t)
    <3>1. OpAt(t, pre + 2 + n) = "end"
      <4>1. pre + 2 + n + 1 = pre + (n + 3) /\ pre + (n + 3) \in DOMAIN t.ixs
        BY <2>3, <2>5
      <4> QED BY <2>2, <2>5, <4>1 DEF OpAt
    <3>2. /\ pre + 2 \in DOMAIN t.ixs /\ pre + (n + 3) \in DOMAIN t.ixs
          /\ t.ixs[pre + 2].op = "borrow" /\ t.ixs[pre + (n + 3)].op = "end"
      BY <2>2, <2>3, <2>5
    <3>3. \A i \in DOMAIN t.ixs : /\ t.ixs[i].op = "begin" => i = pre + 1
                                  /\ t.ixs[i].op \notin {"repay", "flash", "helios"}
                                  /\ t.ixs[i].op = "swap" => pre + 2 < i /\ i < pre + (n + 3)
      BY <2>2, <2>3, <2>5, <2>6, <3>2 DEF Plain
    <3>4. t.ixs[pre + 1].ref = pre + 2 + n
      BY <2>2, <2>5
    <3> QED BY <3>1, <3>2, <3>3, <3>4 DEF Brackets
  <2>8. \A i \in DOMAIN t.ixs : t.ixs[i].op \notin {"helios", "flash"}
    <3> TAKE i \in DOMAIN t.ixs
    <3>1. \/ t.ixs[i].op \in Plain \/ t.ixs[i].op = "swap"
          \/ i = pre + 1 \/ i = pre + 2 \/ i = pre + n + 3
      BY <2>6
    <3>2. pre + n + 3 = pre + (n + 3)
      BY <2>3
    <3> QED BY <2>2, <2>5, <3>1, <3>2 DEF Plain
  <2> QED BY <1>1, <2>5, <2>7, <2>8 DEF TxSound, RepayFollows, Flash!Providers
<1>2. CASE t.provider = "kamino"
  <2> DEFINE T == S \cup {Flash!Borrow(r), Flash!Repay(pre)}
  <2>1. w = <<Flash!Borrow(r)>> \o swaps \o <<Flash!Repay(pre)>>
    BY <1>2 DEF Flash!WrappedDirect
  <2>2. Flash!Borrow(r).op = "borrow" /\ Flash!Repay(pre).op = "repay" /\ Flash!Repay(pre).ref = pre
    BY DEF Flash!Ix, Flash!Borrow, Flash!Repay
  <2>3. n \in Nat /\ swaps \in Seq(T)
    OBVIOUS
  <2>a. Flash!Borrow(r) \in T /\ Flash!Repay(pre) \in T
    OBVIOUS
  <2> HIDE DEF T
  <2>4. /\ Len(w) = n + 2 /\ w[1] = Flash!Borrow(r) /\ w[n + 2] = Flash!Repay(pre)
        /\ \A k \in 1 .. n : w[k + 1] = swaps[k]
    BY <2>1, <2>3, <2>a
  <2> HIDE DEF w, n
  <2>5. /\ t.ixs[pre + 1] = Flash!Borrow(r) /\ t.ixs[pre + (n + 2)] = Flash!Repay(pre)
        /\ \A k \in 1 .. n : t.ixs[pre + (k + 1)] = swaps[k]
        /\ pre + n + 2 <= Len(t.ixs) /\ Len(t.ixs) \in Nat \ {0}
        /\ DOMAIN t.ixs = 1 .. Len(t.ixs)
        /\ \A i \in 1 .. Len(t.ixs) : i <= pre \/ pre + n + 2 < i => t.ixs[i].op \in Plain
    BY <2>3, <2>4 DEF Framed, w
  <2>6. \A i \in DOMAIN t.ixs : \/ t.ixs[i].op \in Plain
                                \/ i \in {pre + 1, pre + n + 2}
                                \/ t.ixs[i].op = "swap" /\ i > pre + 1 /\ i < pre + n + 2
    <3> TAKE i \in DOMAIN t.ixs
    <3>1. CASE i > pre + 1 /\ i < pre + n + 2
      <4> DEFINE k == i - (pre + 1)
      <4>1. k \in 1 .. n /\ pre + (k + 1) = i
        <5>1. i \in Int /\ n \in Nat
          BY <2>3, <2>5
        <5>2. k \in Int /\ k >= 1 /\ k <= n
          BY <3>1, <5>1
        <5> QED BY <5>1, <5>2
      <4> HIDE DEF k
      <4> QED BY <3>1, <4>1, <2>5 DEF n
    <3>2. CASE ~(i > pre + 1 /\ i < pre + n + 2)
      BY <3>2, <2>3, <2>5
    <3> QED BY <3>1, <3>2
  <2>7. Brackets(t)
    <3>1. OpAt(t, pre) = "borrow" /\ t.ixs[pre + (n + 2)].ref = pre
      BY <2>2, <2>3, <2>5 DEF OpAt
    <3>2. /\ pre + 1 \in DOMAIN t.ixs /\ pre + (n + 2) \in DOMAIN t.ixs
          /\ t.ixs[pre + 1].op = "borrow" /\ t.ixs[pre + (n + 2)].op = "repay"
      BY <2>2, <2>3, <2>5
    <3>3. \A i \in DOMAIN t.ixs : /\ t.ixs[i].op = "repay" => i = pre + (n + 2)
                                  /\ t.ixs[i].op \notin {"begin", "flash", "helios"}
                                  /\ t.ixs[i].op = "swap" => pre + 1 < i /\ i < pre + (n + 2)
      BY <2>2, <2>3, <2>5, <2>6, <3>2 DEF Plain
    <3> QED BY <3>1, <3>2, <3>3 DEF Brackets
  <2>8. RepayFollows(t)
    <3>1. \A i \in DOMAIN t.ixs : t.ixs[i].op = "borrow" => i = pre + 1
      <4> TAKE i \in DOMAIN t.ixs
      <4>1. t.ixs[pre + n + 2].op = "repay"
        BY <2>2, <2>3, <2>5
      <4> QED BY <2>6, <4>1 DEF Plain
    <3>2. /\ pre + n + 2 \in DOMAIN t.ixs /\ pre + 1 < pre + n + 2
          /\ t.ixs[pre + n + 2].op = "repay"
      BY <2>2, <2>3, <2>5
    <3> QED BY <3>1, <3>2 DEF RepayFollows
  <2>9. \A i \in DOMAIN t.ixs : t.ixs[i].op \notin {"helios", "flash"}
    <3> TAKE i \in DOMAIN t.ixs
    <3>1. \/ t.ixs[i].op \in Plain \/ t.ixs[i].op = "swap"
          \/ i = pre + 1 \/ i = pre + n + 2
      BY <2>6
    <3>2. pre + n + 2 = pre + (n + 2)
      BY <2>3
    <3> QED BY <2>2, <2>5, <3>1, <3>2 DEF Plain
  <2> QED BY <1>2, <2>5, <2>7, <2>8, <2>9 DEF TxSound, Flash!Providers
<1> QED BY <1>1, <1>2

LEMMA SameCardinality == ASSUME NEW S PROVE Flash!Cardinality(S) = Cardinality(S)
  BY DEF Flash!Cardinality, Cardinality

\* A route names finitely many mints.
LEMMA MintsFinite ==
  ASSUME NEW r \in RouteType
  PROVE  Cardinality(Flash!MintsOf(r)) \in Nat
<1> DEFINE D == DOMAIN r.hops
           pairs == {{r.hops[i].in, r.hops[i].out} : i \in D}
           f == [i \in D |-> {r.hops[i].in, r.hops[i].out}]
<1>1. IsFiniteSet(D)
  <2>1. D = 1 .. Len(r.hops) /\ Len(r.hops) \in Nat
    BY DEF RouteType
  <2> QED BY <2>1, FS_Interval
<1>2. f \in Surjection(D, pairs)
  BY DEF Surjection
<1>3. IsFiniteSet(pairs)
  BY <1>1, <1>2, FS_Surjection
<1>4. \A T \in pairs : IsFiniteSet(T)
  <2> SUFFICES ASSUME NEW i \in D PROVE IsFiniteSet({r.hops[i].in, r.hops[i].out})
    OBVIOUS
  <2>1. IsFiniteSet({r.hops[i].in})
    BY FS_Singleton
  <2>2. {r.hops[i].in, r.hops[i].out} = {r.hops[i].in} \cup {r.hops[i].out}
    OBVIOUS
  <2> QED BY <2>1, <2>2, FS_AddElement
<1>5. IsFiniteSet(UNION pairs)
  BY <1>3, <1>4, FS_UNION
<1> QED BY <1>5, FS_CardinalityType DEF Flash!MintsOf

\* What stands before a loan: compute budget and token accounts.
LEMMA Preamble ==
  ASSUME NEW r \in RouteType, NEW progs
  PROVE  LET head == Flash!BudgetIxs \o Flash!AtaIxs(r, progs)
         IN  /\ \E S : head \in Seq(S)
             /\ Len(head) = Flash!Preceding(r) /\ Len(head) \in Nat \ {0}
             /\ \A i \in 1 .. Len(head) : head[i].op \in Plain
<1> DEFINE A == Flash!AtaIxs(r, progs)
           B == Flash!BudgetIxs
           n == Cardinality(Flash!MintsOf(r))
           S == {B[1], B[2]} \cup {A[i] : i \in 1 .. n}
<1>1. n \in Nat /\ DOMAIN Flash!MintSeq(r) = 1 .. n
  <2>1. n \in Nat
    BY MintsFinite
  <2>2. DOMAIN Flash!MintSeq(r) = 1 .. n
    BY SameCardinality DEF Flash!MintSeq
  <2> QED BY <2>1, <2>2
<1>2. Len(Flash!MintSeq(r)) = n
  <2>1. Flash!MintSeq(r) \in [1 .. n -> {Flash!MintSeq(r)[k] : k \in 1 .. n}]
    <3>1. Flash!MintSeq(r) = [k \in 1 .. n |-> Flash!MintSeq(r)[k]]
      BY <1>1 DEF Flash!MintSeq
    <3> QED BY <3>1
  <2> QED BY <1>1, <2>1
<1>3. A \in [1 .. n -> S] /\ \A i \in 1 .. n : A[i].op = "ata"
  BY <1>1 DEF Flash!AtaIxs, Flash!Ix
<1>4. Len(B) = 2 /\ B \in Seq(S) /\ B[1].op = "budget" /\ B[2].op = "budget"
  BY DEF Flash!BudgetIxs, Flash!Ix
<1>5. Len(A) = n /\ A \in Seq(S)
  BY <1>1, <1>3
<1>6. Flash!Preceding(r) = 2 + n
  BY <1>2, <1>4 DEF Flash!Preceding
<1> HIDE DEF A, B, n, S
<1>7. /\ B \o A \in Seq(S) /\ Len(B \o A) = 2 + n
      /\ \A i \in 1 .. 2 + n : (B \o A)[i] = IF i <= 2 THEN B[i] ELSE A[i - 2]
  <2>1. /\ B \o A \in Seq(S) /\ Len(B \o A) = Len(B) + Len(A)
        /\ \A i \in 1 .. Len(B) + Len(A) :
             (B \o A)[i] = IF i <= Len(B) THEN B[i] ELSE A[i - Len(B)]
    <3>1. B \in Seq(S) /\ A \in Seq(S)
      BY <1>4, <1>5
    <3> QED BY <3>1
  <2> QED BY <1>1, <1>4, <1>5, <2>1
<1>8. \A i \in 1 .. 2 + n : (B \o A)[i].op \in Plain
  BY <1>1, <1>3, <1>4, <1>7 DEF Plain
<1> QED BY <1>1, <1>6, <1>7, <1>8 DEF A, B

LEMMA TipPlain ==
  /\ Flash!TipIx \in Seq({Flash!TipIx[1]}) /\ Len(Flash!TipIx) = 1
  /\ \A i \in 1 .. Len(Flash!TipIx) : Flash!TipIx[i].op \in Plain
BY DEF Flash!TipIx, Flash!Ix, Plain

LEMMA Rows ==
  ASSUME NEW a, NEW b, NEW c, NEW d
  PROVE  /\ \E S : <<a, b>> \in Seq(S)
         /\ \E S : <<a, b, c>> \in Seq(S)
         /\ \E S : <<a, b, c, d>> \in Seq(S)
<1>1. <<a, b>> \in Seq({a, b})
  OBVIOUS
<1>2. <<a, b, c>> \in Seq({a, b, c})
  OBVIOUS
<1>3. <<a, b, c, d>> \in Seq({a, b, c, d})
  OBVIOUS
<1> QED BY <1>1, <1>2, <1>3

\* What build_inner_cached builds is sound.
LEMMA HeliosBuilt ==
  ASSUME NEW r \in RouteType, NEW progs, NEW p \in Flash!Providers, NEW tip \in BOOLEAN,
         Len(r.hops) > 0
  PROVE  TxSound(Flash!BuildHelios(r, p, progs, tip), r)
<1> DEFINE t == Flash!BuildHelios(r, p, progs, tip)
           head == Flash!BudgetIxs \o Flash!AtaIxs(r, progs)
           mid == Flash!Wrapped(p, r, progs, Flash!Preceding(r))
           tail == IF tip THEN Flash!TipIx ELSE <<>>
           h == Flash!HeliosIx(r, progs)
           pre == Flash!Preceding(r)
<1>1. /\ \E S : head \in Seq(S)
      /\ Len(head) = pre /\ Len(head) \in Nat \ {0}
      /\ \A i \in 1 .. Len(head) : head[i].op \in Plain
  BY Preamble
<1>2. \E S : mid \in Seq(S)
  <2>1. CASE p = "marginfi"
    <3> DEFINE begin == Flash!Ix("begin", pre + 3, <<>>, <<>>)
               end == Flash!Ix("end", 0, Flash!HealthAccounts(Flash!BorrowMint(r)), <<>>)
               loan == Flash!Borrow(r)
    <3>1. mid = <<begin, loan, h, end>>
      BY <2>1 DEF Flash!Wrapped, Flash!MarginfiWrapped
    <3> HIDE DEF mid, begin, end, loan, h
    <3>2. \E S : <<begin, loan, h, end>> \in Seq(S)
      BY Rows
    <3> QED BY <3>1, <3>2
  <2>2. CASE p \in {"solend", "kamino"}
    <3> DEFINE loan == Flash!Borrow(r)
               repay == Flash!Repay(pre)
    <3>1. mid = <<loan, h, repay>>
      BY <2>2 DEF Flash!Wrapped, Flash!SolendWrapped, Flash!KaminoWrapped
    <3> HIDE DEF mid, loan, repay, h
    <3>2. \E S : <<loan, h, repay>> \in Seq(S)
      BY Rows
    <3> QED BY <3>1, <3>2
  <2>3. CASE p = "port"
    <3> DEFINE flash == Flash!Ix("flash", 0, Flash!PortCallback(h), r.borrow)
               carrier == Flash!Ix("carrier", 0, <<>>, h.data)
    <3>1. mid = <<flash, carrier>>
      BY <2>3 DEF Flash!Wrapped, Flash!PortWrapped
    <3> HIDE DEF mid, flash, carrier
    <3>2. \E S : <<flash, carrier>> \in Seq(S)
      BY Rows
    <3> QED BY <3>1, <3>2
  <2> QED BY <2>1, <2>2, <2>3 DEF Flash!Providers
<1>3. \E S : tail \in Seq(S) /\ \A i \in 1 .. Len(tail) : tail[i].op \in Plain
  <2>1. CASE tip
    BY <2>1, TipPlain
  <2>2. CASE ~tip
    BY <2>2
  <2> QED BY <2>1, <2>2
<1>4. t.ixs = head \o mid \o tail /\ t.provider = p /\ t.mode = "helios"
  BY DEF Flash!BuildHelios
<1> HIDE DEF t, head, mid, tail, pre
<1>5. PICK S1 : head \in Seq(S1)
  BY <1>1
<1>6. PICK S2 : mid \in Seq(S2)
  BY <1>2
<1>7. PICK S3 : tail \in Seq(S3) /\ \A i \in 1 .. Len(tail) : tail[i].op \in Plain
  BY <1>3
<1>8. head \in Seq(S1 \cup S2 \cup S3) /\ mid \in Seq(S1 \cup S2 \cup S3)
      /\ tail \in Seq(S1 \cup S2 \cup S3)
  BY <1>5, <1>6, <1>7
<1>9. Framed(t.ixs, pre, mid)
  <2>1. head # <<>>
    BY <1>1
  <2> QED BY <1>1, <1>4, <1>7, <1>8, <2>1, Frame
<1>10. pre \in Nat /\ mid = Flash!Wrapped(t.provider, r, progs, pre)
  BY <1>1, <1>4 DEF mid, pre
<1>11. TxSound(t, r)
  BY <1>4, <1>9, <1>10, HeliosFramed
<1> QED BY <1>11 DEF t

\* The swaps of a route, one instruction per hop.
LEMMA WrappedDirectRow ==
  ASSUME NEW r, NEW S, NEW swaps \in Seq(S), NEW pre, NEW p \in {"marginfi", "kamino"}
  PROVE  \E T : Flash!WrappedDirect(p, r, swaps, pre) \in Seq(T)
<1> DEFINE n == Len(swaps)
           loan == Flash!Borrow(r)
           begin == Flash!Ix("begin", pre + 2 + n, <<>>, <<>>)
           end == Flash!Ix("end", 0, <<>>, <<>>)
           repay == Flash!Repay(pre)
           w == Flash!WrappedDirect(p, r, swaps, pre)
<1>1. CASE p = "marginfi"
  <2>1. w = <<begin, loan>> \o swaps \o <<end>>
    BY <1>1 DEF Flash!WrappedDirect
  <2> HIDE DEF begin, loan, end, w
  <2>2. /\ swaps \in Seq(S \cup {begin, loan, end})
        /\ begin \in S \cup {begin, loan, end} /\ loan \in S \cup {begin, loan, end}
        /\ end \in S \cup {begin, loan, end}
    OBVIOUS
  <2>3. w \in Seq(S \cup {begin, loan, end})
    BY <2>1, <2>2
  <2> QED BY <2>3 DEF w
<1>2. CASE p = "kamino"
  <2>1. w = <<loan>> \o swaps \o <<repay>>
    BY <1>2 DEF Flash!WrappedDirect
  <2> HIDE DEF loan, repay, w
  <2>2. /\ swaps \in Seq(S \cup {loan, repay})
        /\ loan \in S \cup {loan, repay} /\ repay \in S \cup {loan, repay}
    OBVIOUS
  <2>3. w \in Seq(S \cup {loan, repay})
    BY <2>1, <2>2
  <2> QED BY <2>3 DEF w
<1> QED BY <1>1, <1>2

LEMMA DirectRow ==
  ASSUME NEW t, NEW r, NEW S, NEW swaps \in Seq(S), NEW H, NEW head \in Seq(H), NEW tail,
         \A i \in 1 .. Len(swaps) : swaps[i].op = "swap",
         t.provider \in {"marginfi", "kamino"}, t.mode \in {"direct", "jupiter"},
         Len(head) \in Nat \ {0},
         \A i \in 1 .. Len(head) : head[i].op \in Plain,
         tail \in {<<>>, Flash!TipIx},
         t.ixs = head \o Flash!WrappedDirect(t.provider, r, swaps, Len(head)) \o tail
  PROVE  TxSound(t, r)
<1> DEFINE mid == Flash!WrappedDirect(t.provider, r, swaps, Len(head))
<1>1. PICK T : mid \in Seq(T)
  BY WrappedDirectRow
<1>2. \E U : tail \in Seq(U) /\ \A i \in 1 .. Len(tail) : tail[i].op \in Plain
  <2>1. CASE tail = <<>>
    BY <2>1
  <2>2. CASE tail = Flash!TipIx
    BY <2>2, TipPlain
  <2> QED BY <2>1, <2>2
<1>3. PICK U : tail \in Seq(U) /\ \A i \in 1 .. Len(tail) : tail[i].op \in Plain
  BY <1>2
<1>4. t.ixs = head \o mid \o tail
  OBVIOUS
<1> HIDE DEF mid
<1>5. /\ head \in Seq(H \cup T \cup U) /\ mid \in Seq(H \cup T \cup U)
      /\ tail \in Seq(H \cup T \cup U) /\ head # <<>>
  BY <1>1, <1>3
<1>6. Framed(t.ixs, Len(head), mid)
  BY <1>3, <1>4, <1>5, Frame
<1>7. Framed(t.ixs, Len(head), Flash!WrappedDirect(t.provider, r, swaps, Len(head)))
  BY <1>6 DEF mid
<1> QED BY <1>7, DirectFramed

\* What build_direct_swap_tx and build_jupiter_flash_tx build is sound.
LEMMA DirectBuilt ==
  ASSUME NEW r \in RouteType, NEW progs, NEW p \in {"marginfi", "kamino"}
  PROVE  TxSound(Flash!BuildDirect(r, p, progs), r)
<1> DEFINE t == Flash!BuildDirect(r, p, progs)
           head == Flash!BudgetIxs \o Flash!AtaIxs(r, progs)
           swaps == Flash!DirectIxs(r, progs)
<1>1. /\ \E S : head \in Seq(S)
      /\ Len(head) = Flash!Preceding(r) /\ Len(head) \in Nat \ {0}
      /\ \A i \in 1 .. Len(head) : head[i].op \in Plain
  BY Preamble
<1>2. (\E S : swaps \in Seq(S)) /\ \A i \in 1 .. Len(swaps) : swaps[i].op = "swap"
  <2>1. DOMAIN r.hops = 1 .. Len(r.hops) /\ Len(r.hops) \in Nat
    BY DEF RouteType
  <2>2. /\ swaps \in [1 .. Len(r.hops) -> {swaps[i] : i \in 1 .. Len(r.hops)}]
        /\ \A i \in 1 .. Len(r.hops) : swaps[i].op = "swap"
    BY <2>1 DEF Flash!DirectIxs, Flash!Ix
  <2> HIDE DEF swaps
  <2>3. swaps \in Seq({swaps[i] : i \in 1 .. Len(r.hops)}) /\ Len(swaps) = Len(r.hops)
    BY <2>1, <2>2
  <2> QED BY <2>2, <2>3
<1>3. /\ t.ixs = head \o Flash!WrappedDirect(p, r, swaps, Flash!Preceding(r)) \o Flash!TipIx
      /\ t.provider = p /\ t.mode = "direct"
  BY DEF Flash!BuildDirect
<1> HIDE DEF t, head, swaps
<1>4. PICK H : head \in Seq(H)
  BY <1>1
<1>5. PICK S : swaps \in Seq(S)
  BY <1>2
<1>6. TxSound(t, r)
  BY <1>1, <1>2, <1>3, <1>4, <1>5, DirectRow
<1> QED BY <1>6 DEF t

LEMMA JupiterBuilt ==
  ASSUME NEW r \in RouteType, NEW p \in {"marginfi", "kamino"}
  PROVE  TxSound(Flash!BuildJupiter(r, p), r)
<1> DEFINE t == Flash!BuildJupiter(r, p)
           head == Flash!BudgetIxs
           progs == [m \in Flash!Mints |-> Flash!Spl]
           swap(i) == Flash!Ix("swap", 0, <<Flash!Source(r.hops[i], progs), Flash!Dest(r.hops[i], progs)>>,
                       [Flash!SwapData(r.hops[i], Flash!AmountIn(r, i, "direct"), "jupiter")
                          EXCEPT !.dex = "jupiter"])
           swaps == [i \in DOMAIN r.hops |-> swap(i)]
           tail == IF p = "kamino" THEN <<>> ELSE Flash!TipIx
<1>1. /\ head \in Seq({head[1], head[2]}) /\ Len(head) = 2
      /\ \A i \in 1 .. Len(head) : head[i].op \in Plain
  BY DEF Flash!BudgetIxs, Flash!Ix, Plain
<1>2. (\E S : swaps \in Seq(S)) /\ \A i \in 1 .. Len(swaps) : swaps[i].op = "swap"
  <2>1. DOMAIN r.hops = 1 .. Len(r.hops) /\ Len(r.hops) \in Nat
    BY DEF RouteType
  <2>2. \A i \in DOMAIN r.hops : swap(i).op = "swap"
    BY DEF Flash!Ix
  <2> HIDE DEF swap
  <2>3. swaps \in [1 .. Len(r.hops) -> {swap(i) : i \in 1 .. Len(r.hops)}]
    BY <2>1
  <2>4. swaps \in Seq({swap(i) : i \in 1 .. Len(r.hops)}) /\ Len(swaps) = Len(r.hops)
    BY <2>1, <2>3
  <2> QED BY <2>1, <2>2, <2>4
<1>3. /\ t.ixs = head \o Flash!WrappedDirect(p, r, swaps, Len(head)) \o tail
      /\ t.provider = p /\ t.mode = "jupiter"
  <2>1. Flash!Len(head) = Len(head)
    OBVIOUS
  <2> QED BY <2>1 DEF Flash!BuildJupiter
<1>4. tail \in {<<>>, Flash!TipIx}
  OBVIOUS
<1> HIDE DEF t, head, swaps, tail
<1>5. PICK S : swaps \in Seq(S)
  BY <1>2
<1>6. PICK H : head \in Seq(H)
  BY <1>1
<1>7. Len(head) \in Nat \ {0}
  BY <1>1
<1>8. TxSound(t, r)
  BY <1>1, <1>2, <1>3, <1>4, <1>5, <1>6, <1>7, DirectRow
<1> QED BY <1>8 DEF t

\* FlashSelector::select finds a provider, or none.
LEMMA Selected ==
  ASSUME Executable, NEW borrow
  PROVE  Flash!Select(borrow) \in Flash!Providers \cup {"none"}
<1> DEFINE able == {p \in Flash!Providers : lenders[p].healthy /\ lenders[p].available >= borrow}
           better(p, q) == \/ Fee[p] < Fee[q]
                           \/ Fee[p] = Fee[q] /\ Flash!Priority(p) < Flash!Priority(q)
           weight(p) == 4 * Fee[p] + Flash!Priority(p)
           W == {weight(p) : p \in able}
<1>1. /\ Flash!Priority("marginfi") = 1 /\ Flash!Priority("port") = 2
      /\ Flash!Priority("solend") = 3 /\ Flash!Priority("kamino") = 4
  BY DEF Flash!Priority
<1>2. \A p \in Flash!Providers : Fee[p] \in Nat
  BY DEF Executable
<1>3. CASE able # {}
  <2>1. W \subseteq Nat /\ W # {}
    BY <1>1, <1>2, <1>3 DEF Flash!Providers
  <2>2. \E w \in W : \A v \in W : <<v, w>> \notin OpToRel(<, Nat)
    BY <2>1, NatLessThanWellFounded, WFMin
  <2>3. PICK p \in able : \A q \in able : ~(weight(q) < weight(p))
    BY <2>1, <2>2 DEF OpToRel
  <2>4. \A q \in able \ {p} : better(p, q)
    <3> TAKE q \in able \ {p}
    <3>1. /\ Flash!Priority(p) \in 1 .. 4 /\ Flash!Priority(q) \in 1 .. 4
          /\ Flash!Priority(p) # Flash!Priority(q)
      BY <1>1 DEF Flash!Providers
    <3>2. Fee[p] \in Nat /\ Fee[q] \in Nat /\ ~(weight(q) < weight(p))
      BY <1>2, <2>3
    <3> QED BY <3>1, <3>2
  <2>5. Flash!Select(borrow) \in able
    BY <1>3, <2>4, Zenon DEF Flash!Select
  <2> QED BY <2>5
<1>4. CASE able = {}
  BY <1>4 DEF Flash!Select
<1> QED BY <1>3, <1>4

-----------------------------------------------------------------------------
(* The inductive invariant.                                                *)

FlashType ==
  /\ programs \in [Flash!Mints -> {"none", Flash!Spl, Flash!T22}]
  /\ forgot \in 0 .. Forgets
  /\ route \in RouteType
  /\ own \in [Flash!Mints -> Nat]
  /\ status \in {"idle", "routed", "built", "running", "landed", "reverted"}
  /\ IF status \in {"idle", "routed"} THEN tx = Flash!NoTx ELSE TxSound(tx, route)

Op == tx.ixs[run.ix].op

RunType ==
  status = "running" =>
    /\ run = [ix |-> run.ix, hop |-> run.hop, bal |-> run.bal, atas |-> run.atas,
              debt |-> run.debt, before |-> run.before]
    /\ run.ix \in DOMAIN tx.ixs /\ run.hop \in Nat /\ run.debt \in Nat
    /\ run.hop > 0 => Op \in {"helios", "flash"}

\* A repayment that is still to come.
RepayAfter(index) == \E j \in DOMAIN tx.ixs : index < j /\ tx.ixs[j].op = "repay"

\* A loan that takes a repayment is inside its bracket, or inside the call of
\* the Port receiver that will repay it.
RepayInv ==
  status = "running" /\ tx.provider # "marginfi" /\ run.debt # 0 =>
    \/ run.hop > 0 /\ Op = "flash"
    \/ Op = "repay" \/ RepayAfter(run.ix)

Mint == Flash!BorrowMint(route)

\* A balance covers what there was, but for the fee, and what is owed.
Covers(balance, debt) == balance + Fee[tx.provider] >= own[Mint] + debt

LoanAfter(index) == \E i \in Loans(tx) : index < i

\* Between instructions the balance covers the debt; inside helios-arb the
\* balance it read when it began does; before the loan nothing has moved.
CostInv ==
  status = "running" /\ tx.mode = "helios" =>
    /\ run.bal \in [Flash!Mints -> Int]
    /\ run.hop = 0 => Covers(run.bal[Mint], run.debt)
    /\ run.hop > 0 => run.before \in Int /\ Covers(run.before, run.debt)
    /\ LoanAfter(run.ix) \/ (run.hop = 0 /\ run.ix \in Loans(tx)) =>
         run.debt = 0 /\ run.bal = own

Landed == Flash!RepaidWhenLanded /\ Flash!HeliosCostsAtMostTheFee

FlashInv == FlashType /\ RunType /\ RepayInv /\ CostInv /\ Landed

\* What an instruction has to leave behind for the next one, or for the end.
Safe(r) ==
  /\ r = [ix |-> r.ix, hop |-> r.hop, bal |-> r.bal, atas |-> r.atas, debt |-> r.debt,
          before |-> r.before]
  /\ r.debt \in Nat
  /\ tx.provider # "marginfi" /\ r.debt # 0 => RepayAfter(run.ix)
  /\ tx.mode = "helios" =>
       /\ r.bal \in [Flash!Mints -> Int]
       /\ Covers(r.bal[Mint], r.debt)
       /\ LoanAfter(run.ix) => r.debt = 0 /\ r.bal = own

Resting == UNCHANGED <<route, programs, forgot, lenders, tx, own>>

\* The borrowed mint of a transaction through helios-arb.
LEMMA Numbers ==
  ASSUME Executable, FlashType, status \in {"built", "running", "landed"}
  PROVE  /\ Fee[tx.provider] \in Nat /\ route.borrow \in Nat
         /\ tx.mode = "helios" => Mint \in Flash!Mints /\ own[Mint] \in Nat
<1>1. Fee[tx.provider] \in Nat /\ route.borrow \in Nat
  BY DEF Executable, FlashType, TxSound, RouteType
<1>2. ASSUME tx.mode = "helios" PROVE Mint \in Flash!Mints /\ own[Mint] \in Nat
  <2>1. route.hops \in Seq(Hops) /\ Len(route.hops) > 0
    BY <1>2 DEF FlashType, TxSound, HeliosSound, RouteType
  <2>2. route.hops[1] \in Hops
    BY <2>1
  <2>3. Mint \in Flash!Mints
    BY <2>2 DEF Hops, Mint, Flash!BorrowMint, Flash!Mints
  <2> QED BY <2>3 DEF FlashType
<1> QED BY <1>1, <1>2

LEMMA Advanced ==
  ASSUME Executable, FlashInv, status = "running", Resting, NEW r, Safe(r), Flash!Advance(r)
  PROVE  FlashInv'
<1>1. /\ run.ix \in DOMAIN tx.ixs /\ DOMAIN tx.ixs = 1 .. Len(tx.ixs)
      /\ Len(tx.ixs) \in Nat \ {0} /\ TxSound(tx, route)
  BY DEF FlashInv, FlashType, RunType, TxSound
<1>2. /\ run' = [ix |-> run.ix + 1, hop |-> 0, bal |-> r.bal, atas |-> r.atas,
                 debt |-> r.debt, before |-> r.before]
      /\ status' = IF run.ix = Len(tx.ixs) THEN "landed" ELSE "running"
  BY DEF Flash!Advance, Safe
<1>3. FlashType'
  BY <1>1, <1>2 DEF FlashInv, FlashType, Resting
<1>4. CASE run.ix = Len(tx.ixs)
  <2>1. status' = "landed"
    BY <1>2, <1>4
  <2>2. ~RepayAfter(run.ix)
    BY <1>1, <1>4 DEF RepayAfter
  <2>3. Flash!RepaidWhenLanded'
    BY <1>2, <2>2 DEF Flash!RepaidWhenLanded, Safe, Resting
  <2>4. Flash!HeliosCostsAtMostTheFee'
    BY <1>2 DEF Flash!HeliosCostsAtMostTheFee, Safe, Resting, Covers, Mint, Flash!BorrowMint
  <2> QED BY <1>3, <2>1, <2>3, <2>4 DEF FlashInv, RunType, RepayInv, CostInv, Landed
<1>5. CASE run.ix # Len(tx.ixs)
  <2>1. status' = "running" /\ run.ix + 1 \in DOMAIN tx.ixs /\ run.ix \in Int
    BY <1>1, <1>2, <1>5
  <2>2. RunType'
    BY <1>2, <2>1 DEF RunType, Safe, Resting
  <2>3. RepayInv'
    <3>1. RepayAfter(run.ix) => tx.ixs[run.ix + 1].op = "repay" \/ RepayAfter(run.ix + 1)
      BY <1>1, <2>1 DEF RepayAfter
    <3> QED BY <1>2, <2>1, <3>1 DEF RepayInv, RepayAfter, Safe, Resting, Op
  <2>4. CostInv'
    <3>1. LoanAfter(run.ix + 1) \/ run.ix + 1 \in Loans(tx) => LoanAfter(run.ix)
      BY <1>1, <2>1 DEF LoanAfter, Loans
    <3>2. /\ tx' = tx /\ own' = own /\ route' = route /\ Mint' = Mint
          /\ Loans(tx)' = Loans(tx)
      BY DEF Resting, Mint, Flash!BorrowMint, Loans
    <3>3. LoanAfter(run.ix)' = LoanAfter(run.ix + 1)
      BY <1>2, <3>2 DEF LoanAfter
    <3> QED BY <1>2, <2>1, <3>1, <3>2, <3>3 DEF CostInv, Safe, Covers
  <2>5. Landed'
    BY <2>1 DEF Landed, Flash!RepaidWhenLanded, Flash!HeliosCostsAtMostTheFee
  <2> QED BY <1>3, <2>2, <2>3, <2>4, <2>5 DEF FlashInv
<1> QED BY <1>4, <1>5

LEMMA Reverted ==
  ASSUME FlashInv, status = "running", Resting, Flash!Revert
  PROVE  FlashInv'
<1>1. status' = "reverted"
  BY DEF Flash!Revert
<1>2. FlashType'
  BY <1>1 DEF FlashInv, FlashType, Resting
<1> QED BY <1>1, <1>2 DEF FlashInv, RunType, RepayInv, CostInv, Landed,
      Flash!RepaidWhenLanded, Flash!HeliosCostsAtMostTheFee

\* Instructions that leave balances and debt alone.
LEMMA Idles ==
  ASSUME Executable, FlashInv, status = "running", Op \notin {"borrow", "flash", "repay"},
         run.hop = 0
  PROVE  Safe(run)
<1>1. run.ix \in DOMAIN tx.ixs /\ run.ix \notin Loans(tx)
  BY DEF FlashInv, RunType, Op, Loans
<1> QED BY <1>1 DEF FlashInv, RunType, RepayInv, CostInv, Safe, Op

LEMMA PlainSteps ==
  ASSUME Executable, FlashInv, Flash!RunPlain \/ Flash!RunAta \/ Flash!RunBegin \/ Flash!RunEnd
  PROVE  FlashInv'
<1>1. /\ status = "running" /\ Resting /\ Op \in {"budget", "tip", "carrier", "ata", "begin", "end"}
  BY DEF Flash!RunPlain, Flash!RunAta, Flash!RunBegin, Flash!RunEnd, Flash!Running, Resting,
         Op, Flash!Current
<1>2. run.hop = 0
  BY <1>1 DEF FlashInv, RunType
<1>3. Safe(run)
  BY <1>1, <1>2, Idles
<1>4. Flash!Advance(run) => FlashInv'
  BY <1>1, <1>3, Advanced
<1>5. Flash!Revert => FlashInv'
  BY <1>1, Reverted
<1>6. ASSUME NEW a, Flash!Advance([run EXCEPT !.atas = a]) PROVE FlashInv'
  <2> DEFINE r == [run EXCEPT !.atas = a]
  <2>1. Safe(r)
    BY <1>3 DEF Safe, Covers
  <2> QED BY <1>1, <1>6, <2>1, Advanced
<1>7. CASE Flash!RunAta
  <2>1. CASE Flash!Revert
    BY <2>1, <1>5
  <2>2. CASE ~Flash!Revert
    <3>1. \E a : Flash!Advance([run EXCEPT !.atas = a])
      BY <1>7, <2>2, Zenon DEF Flash!RunAta
    <3> QED BY <3>1, <1>6
  <2> QED BY <2>1, <2>2
<1>8. CASE Flash!RunPlain \/ Flash!RunBegin \/ Flash!RunEnd
  BY <1>8, <1>4, <1>5 DEF Flash!RunPlain, Flash!RunBegin, Flash!RunEnd
<1> QED BY <1>7, <1>8

LEMMA Updated ==
  ASSUME NEW x, NEW b, NEW d,
         x = [ix |-> x.ix, hop |-> x.hop, bal |-> x.bal, atas |-> x.atas, debt |-> x.debt,
              before |-> x.before],
         NEW y, y = [x EXCEPT !.bal = b, !.debt = d]
  PROVE  /\ y = [ix |-> y.ix, hop |-> y.hop, bal |-> y.bal, atas |-> y.atas, debt |-> y.debt,
                 before |-> y.before]
         /\ y.ix = x.ix /\ y.hop = x.hop /\ y.bal = b /\ y.atas = x.atas /\ y.debt = d
         /\ y.before = x.before
OBVIOUS

\* A loan that is paid out: the balance covers it, and its bracket is open.
LEMMA LentSafe ==
  ASSUME Executable, FlashInv, status = "running", Op \in {"borrow", "flash"}, run.hop = 0
  PROVE  LET r == Flash!Lent(run)
         IN  /\ r = [ix |-> r.ix, hop |-> r.hop, bal |-> r.bal, atas |-> r.atas, debt |-> r.debt,
                     before |-> r.before]
             /\ r.ix = run.ix /\ r.hop = 0 /\ r.debt \in Nat
             /\ tx.mode = "helios" =>
                  /\ r.bal \in [Flash!Mints -> Int] /\ Covers(r.bal[Mint], r.debt)
                  /\ ~LoanAfter(run.ix)
<1> DEFINE r == Flash!Lent(run)
<1>1. /\ Fee[tx.provider] \in Nat /\ route.borrow \in Nat
      /\ tx.mode = "helios" => Mint \in Flash!Mints /\ own[Mint] \in Nat
  BY Numbers DEF FlashInv
<1>2. /\ r = [ix |-> r.ix, hop |-> r.hop, bal |-> r.bal, atas |-> r.atas, debt |-> r.debt,
              before |-> r.before]
      /\ r.ix = run.ix /\ r.hop = 0 /\ r.bal = Flash!Credit(run.bal, Mint, route.borrow)
      /\ r.debt = route.borrow + Fee[tx.provider]
  <2>1. run = [ix |-> run.ix, hop |-> run.hop, bal |-> run.bal, atas |-> run.atas,
               debt |-> run.debt, before |-> run.before]
    BY DEF FlashInv, RunType
  <2>2. r = [run EXCEPT !.bal = Flash!Credit(run.bal, Mint, route.borrow),
                        !.debt = route.borrow + Fee[tx.provider]]
    BY DEF Flash!Lent, Mint
  <2> HIDE DEF r
  <2> QED BY <2>1, <2>2, Updated
<1>3. r.debt \in Nat
  BY <1>1, <1>2
<1>4. ASSUME tx.mode = "helios"
      PROVE  /\ r.bal \in [Flash!Mints -> Int] /\ Covers(r.bal[Mint], r.debt)
             /\ ~LoanAfter(run.ix)
  <2>1. run.ix \in Loans(tx) /\ DOMAIN tx.ixs = 1 .. Len(tx.ixs)
    BY DEF FlashInv, FlashType, RunType, TxSound, Loans, Op
  <2>2. run.bal = own /\ own \in [Flash!Mints -> Nat]
    BY <1>4, <2>1 DEF FlashInv, FlashType, CostInv
  <2>3. r.bal[Mint] = own[Mint] + route.borrow /\ r.bal \in [Flash!Mints -> Int]
    BY <1>1, <1>2, <1>4, <2>2 DEF Flash!Credit
  <2>4. \A i, j \in Loans(tx) : i = j
    BY <1>4 DEF FlashInv, FlashType, TxSound, HeliosSound
  <2>5. ~LoanAfter(run.ix)
    BY <2>1, <2>4 DEF LoanAfter, Loans
  <2> QED BY <1>1, <1>2, <1>4, <2>3, <2>5 DEF Covers
<1> QED BY <1>2, <1>3, <1>4

LEMMA BorrowStep ==
  ASSUME Executable, FlashInv, Flash!RunBorrow
  PROVE  FlashInv'
<1> DEFINE r == Flash!Lent(run)
<1>1. status = "running" /\ Resting /\ Op = "borrow" /\ (Flash!Advance(r) \/ Flash!Revert)
  BY DEF Flash!RunBorrow, Flash!Running, Resting, Op, Flash!Current
<1>2. run.hop = 0
  BY <1>1 DEF FlashInv, RunType
<1>3. tx.provider # "marginfi" => RepayAfter(run.ix)
  BY <1>1 DEF FlashInv, FlashType, RunType, TxSound, RepayFollows, RepayAfter, Op
<1>4. Safe(r)
  BY <1>1, <1>2, <1>3, LentSafe DEF Safe
<1> QED BY <1>1, <1>4, Advanced, Reverted

LEMMA RepayStep ==
  ASSUME Executable, FlashInv, Flash!RunRepay
  PROVE  FlashInv'
<1> DEFINE r == Flash!Repaid(run)
<1>1. status = "running" /\ Resting /\ Op = "repay" /\ (Flash!Advance(r) \/ Flash!Revert)
  BY DEF Flash!RunRepay, Flash!Running, Resting, Op, Flash!Current
<1>2. run.hop = 0
  BY <1>1 DEF FlashInv, RunType
<1>3. /\ r = [ix |-> r.ix, hop |-> r.hop, bal |-> r.bal, atas |-> r.atas, debt |-> r.debt,
              before |-> r.before]
      /\ r.bal = Flash!Debit(run.bal, Mint, run.debt) /\ r.debt = 0
  <2>1. run = [ix |-> run.ix, hop |-> run.hop, bal |-> run.bal, atas |-> run.atas,
               debt |-> run.debt, before |-> run.before]
    BY <1>1 DEF FlashInv, RunType
  <2>2. r = [run EXCEPT !.bal = Flash!Debit(run.bal, Mint, run.debt), !.debt = 0]
    BY DEF Flash!Repaid, Mint
  <2> HIDE DEF r
  <2> QED BY <2>1, <2>2, Updated
<1>4. ASSUME tx.mode = "helios"
      PROVE  /\ r.bal \in [Flash!Mints -> Int] /\ Covers(r.bal[Mint], r.debt)
             /\ LoanAfter(run.ix) => r.debt = 0 /\ r.bal = own
  <2>1. /\ Fee[tx.provider] \in Nat /\ Mint \in Flash!Mints /\ own[Mint] \in Nat
        /\ own \in [Flash!Mints -> Nat]
    BY <1>1, <1>4, Numbers DEF FlashInv, FlashType
  <2>2. /\ run.bal \in [Flash!Mints -> Int] /\ Covers(run.bal[Mint], run.debt)
        /\ LoanAfter(run.ix) => run.debt = 0 /\ run.bal = own
        /\ run.debt \in Nat
    BY <1>1, <1>2, <1>4 DEF FlashInv, RunType, CostInv
  <2>3. r.bal \in [Flash!Mints -> Int] /\ r.bal[Mint] = run.bal[Mint] - run.debt
    BY <1>3, <2>1, <2>2 DEF Flash!Debit
  <2>4. Covers(r.bal[Mint], r.debt)
    BY <1>3, <2>1, <2>2, <2>3 DEF Covers
  <2>5. LoanAfter(run.ix) => r.bal = own
    BY <1>3, <2>1, <2>2 DEF Flash!Debit
  <2> QED BY <1>3, <2>3, <2>4, <2>5
<1>5. Safe(r)
  BY <1>3, <1>4 DEF Safe
<1> QED BY <1>1, <1>5, Advanced, Reverted

\* A swap of its own stands in no transaction of helios-arb.
LEMMA SwapStep ==
  ASSUME Executable, FlashInv, NEW out, Flash!RunSwap(out)
  PROVE  FlashInv'
<1> DEFINE r == Flash!Swapped(Flash!Current.data, Flash!Current.accounts, out)
<1>1. status = "running" /\ Resting /\ Op = "swap" /\ (Flash!Advance(r) \/ Flash!Revert)
  BY DEF Flash!RunSwap, Flash!Running, Resting, Op, Flash!Current
<1>2. run.hop = 0 /\ run.ix \in DOMAIN tx.ixs
  BY <1>1 DEF FlashInv, RunType
<1>3. tx.mode # "helios"
  BY <1>1, <1>2 DEF FlashInv, FlashType, TxSound, HeliosSound, Op
<1>4. /\ r = [ix |-> run.ix, hop |-> 0, bal |-> r.bal, atas |-> run.atas, debt |-> run.debt,
              before |-> run.before]
      /\ run.debt \in Nat
  BY <1>1, <1>2 DEF Flash!Swapped, FlashInv, RunType
<1>5. tx.provider # "marginfi" /\ run.debt # 0 => RepayAfter(run.ix)
  BY <1>1, <1>2 DEF FlashInv, RepayInv
<1> HIDE DEF r
<1>6. Safe(r)
  BY <1>3, <1>4, <1>5 DEF Safe
<1>7. Flash!Advance(r) => FlashInv'
  BY <1>1, <1>6, Advanced
<1> QED BY <1>1, <1>7, Reverted

-----------------------------------------------------------------------------
(* Inside helios-arb.                                                      *)

\* The loan is behind a call of helios-arb, or is that call.
LEMMA NoLoanLater ==
  ASSUME FlashInv, status = "running", Op \in {"helios", "flash"}
  PROVE  tx.mode = "helios" /\ ~LoanAfter(run.ix)
<1>1. /\ run.ix \in DOMAIN tx.ixs /\ TxSound(tx, route) /\ DOMAIN tx.ixs = 1 .. Len(tx.ixs)
      /\ Len(tx.ixs) \in Nat
  BY DEF FlashInv, FlashType, RunType, TxSound
<1>2. tx.mode = "helios" /\ HeliosSound(tx, route)
  BY <1>1 DEF TxSound, Op
<1>3. \E i \in Loans(tx) : i <= run.ix
  BY <1>1 DEF TxSound, Brackets, Loans, Op
<1>4. ~LoanAfter(run.ix)
  BY <1>1, <1>2, <1>3 DEF LoanAfter, HeliosSound, Loans
<1> QED BY <1>2, <1>4

LEMMA Inside ==
  ASSUME Executable, FlashInv, status = "running", Resting, status' = status,
         Op \in {"helios", "flash"}, NEW r, run' = r,
         r = [ix |-> r.ix, hop |-> r.hop, bal |-> r.bal, atas |-> r.atas, debt |-> r.debt,
              before |-> r.before],
         r.ix = run.ix, r.hop \in Nat \ {0}, r.debt \in Nat,
         tx.provider # "marginfi" /\ r.debt # 0 => Op = "flash" \/ RepayAfter(run.ix),
         r.bal \in [Flash!Mints -> Int], r.before \in Int, Covers(r.before, r.debt)
  PROVE  FlashInv'
<1>1. FlashType'
  BY DEF FlashInv, FlashType, Resting
<1>2. RunType'
  BY DEF FlashInv, RunType, Resting, Op
<1>3. RepayInv'
  BY DEF RepayInv, RepayAfter, Resting, Op
<1>4. CostInv'
  <2>1. ~LoanAfter(run.ix)
    BY NoLoanLater
  <2>2. ~LoanAfter(run.ix)'
    BY <2>1 DEF LoanAfter, Loans, Resting
  <2>3. Covers(run.before, run.debt)'
    BY DEF Covers, Mint, Flash!BorrowMint, Resting
  <2> QED BY <2>2, <2>3 DEF CostInv
<1>5. Landed'
  BY DEF Landed, Flash!RepaidWhenLanded, Flash!HeliosCostsAtMostTheFee
<1> QED BY <1>1, <1>2, <1>3, <1>4, <1>5 DEF FlashInv

LEMMA EnterStep ==
  ASSUME Executable, FlashInv, Flash!EnterHelios
  PROVE  FlashInv'
<1> DEFINE r == IF Flash!Current.op = "flash" THEN Flash!Lent(run) ELSE run
           e == [r EXCEPT !.hop = 1, !.before = r.bal[Flash!BorrowMint(route)]]
<1>1. /\ status = "running" /\ Resting /\ Op \in {"helios", "flash"} /\ run.hop = 0
      /\ Flash!Current.op = Op /\ (Flash!Revert \/ (run' = e /\ status' = status))
  BY DEF Flash!EnterHelios, Flash!Running, Resting, Op, Flash!Current
<1>2. tx.mode = "helios" /\ ~LoanAfter(run.ix)
  BY <1>1, NoLoanLater
<1>3. Mint \in Flash!Mints
  BY <1>1, <1>2, Numbers DEF FlashInv
<1>4. /\ r = [ix |-> r.ix, hop |-> r.hop, bal |-> r.bal, atas |-> r.atas, debt |-> r.debt,
              before |-> r.before]
      /\ r.ix = run.ix /\ r.debt \in Nat /\ r.bal \in [Flash!Mints -> Int]
      /\ Covers(r.bal[Mint], r.debt)
  <2>1. CASE Op = "flash"
    BY <1>1, <1>2, <2>1, LentSafe
  <2>2. CASE Op # "flash"
    BY <1>1, <1>2, <2>2 DEF FlashInv, RunType, CostInv
  <2> QED BY <2>1, <2>2
<1>5. tx.provider # "marginfi" /\ r.debt # 0 => Op = "flash" \/ RepayAfter(run.ix)
  BY <1>1 DEF FlashInv, RepayInv
<1>6. r.bal[Mint] \in Int /\ e = [r EXCEPT !.hop = 1, !.before = r.bal[Mint]]
  BY <1>3, <1>4 DEF Mint
<1> HIDE DEF r, e
<1>7. /\ e = [ix |-> e.ix, hop |-> e.hop, bal |-> e.bal, atas |-> e.atas, debt |-> e.debt,
              before |-> e.before]
      /\ e.ix = r.ix /\ e.hop = 1 /\ e.bal = r.bal /\ e.debt = r.debt /\ e.before = r.bal[Mint]
  <2> DEFINE m == r.bal[Mint]
  <2>1. e = [r EXCEPT !.hop = 1, !.before = m]
    BY <1>6
  <2> HIDE DEF m
  <2>2. /\ e = [ix |-> e.ix, hop |-> e.hop, bal |-> e.bal, atas |-> e.atas, debt |-> e.debt,
                before |-> e.before]
        /\ e.ix = r.ix /\ e.hop = 1 /\ e.bal = r.bal /\ e.debt = r.debt /\ e.before = m
    BY <1>4, <2>1
  <2> QED BY <2>2 DEF m
<1>8. run' = e /\ status' = status => FlashInv'
  BY <1>1, <1>4, <1>5, <1>6, <1>7, Inside
<1> QED BY <1>1, <1>8, Reverted

LEMMA PlanOfTx ==
  ASSUME FlashInv, status = "running", Op \in {"helios", "flash"}
  PROVE  PlanSound(Flash!Plan)
BY NoLoanLater DEF FlashInv, FlashType, RunType, TxSound, HeliosSound, Op, Flash!Plan, Flash!Current

\* Moving tokens keeps balances numbers, wherever they are moved.
LEMMA Moves ==
  ASSUME NEW bal \in [Flash!Mints -> Int], NEW m, NEW n \in Int
  PROVE  Flash!Credit(bal, m, n) \in [Flash!Mints -> Int] /\ Flash!Debit(bal, m, n) \in [Flash!Mints -> Int]
<1>1. CASE m \in Flash!Mints
  BY <1>1 DEF Flash!Credit, Flash!Debit
<1>2. CASE m \notin Flash!Mints
  BY <1>2 DEF Flash!Credit, Flash!Debit
<1> QED BY <1>1, <1>2

LEMMA HopStep ==
  ASSUME Executable, FlashInv, NEW out \in Outputs, Flash!RunHop(out)
  PROVE  FlashInv'
<1> DEFINE d == Flash!Plan.hops[run.hop]
           share == Flash!Slice(Flash!HeliosAccounts(Flash!Current), Flash!Plan.counts, run.hop)
           r == Flash!Swapped(d, share, out)
           e == [r EXCEPT !.hop = @ + 1]
           paid == Flash!Debit(run.bal, Flash!SwapSource(d, share)[2], d.amount)
           bal == Flash!Credit(paid, Flash!SwapDest(d, share)[2], out)
<1>1. /\ status = "running" /\ Resting /\ Op \in {"helios", "flash"}
      /\ run.hop \in DOMAIN Flash!Plan.hops
      /\ (Flash!Revert \/ (run' = e /\ status' = status))
  BY DEF Flash!RunHop, Flash!Running, Resting, Op, Flash!Current
<1>2. PlanSound(Flash!Plan) /\ d.amount \in Nat /\ out \in Nat
  BY <1>1, PlanOfTx DEF PlanSound, Executable
<1>3. /\ run = [ix |-> run.ix, hop |-> run.hop, bal |-> run.bal, atas |-> run.atas,
                debt |-> run.debt, before |-> run.before]
      /\ run.hop \in Nat /\ run.debt \in Nat /\ run.bal \in [Flash!Mints -> Int]
      /\ tx.mode = "helios"
  BY <1>1, NoLoanLater DEF FlashInv, RunType, CostInv
<1>4. r = [run EXCEPT !.bal = bal]
  BY DEF Flash!Swapped
<1> HIDE DEF d, share
<1>5. bal \in [Flash!Mints -> Int]
  <2>1. paid \in [Flash!Mints -> Int]
    BY <1>2, <1>3, Moves
  <2> HIDE DEF paid
  <2> QED BY <1>2, <2>1, Moves
<1> HIDE DEF r, e, bal, paid
<1>6. /\ r = [ix |-> r.ix, hop |-> r.hop, bal |-> r.bal, atas |-> r.atas, debt |-> r.debt,
              before |-> r.before]
      /\ r.ix = run.ix /\ r.hop = run.hop /\ r.bal = bal /\ r.debt = run.debt
      /\ r.before = run.before
  BY <1>3, <1>4
<1>7. /\ e = [ix |-> e.ix, hop |-> e.hop, bal |-> e.bal, atas |-> e.atas, debt |-> e.debt,
              before |-> e.before]
      /\ e.ix = r.ix /\ e.hop = r.hop + 1 /\ e.bal = r.bal /\ e.debt = r.debt
      /\ e.before = r.before
  BY <1>6 DEF e
<1>8. CASE run.hop = 0
  \* An instruction whose plan had a hop 0 would have begun with it.
  BY <1>1, <1>2, <1>3, <1>8 DEF PlanSound
<1>9. CASE run.hop > 0
  <2>1. run.before \in Int /\ Covers(run.before, run.debt)
    BY <1>1, <1>3, <1>9 DEF FlashInv, CostInv
  <2>2. tx.provider # "marginfi" /\ run.debt # 0 => Op = "flash" \/ RepayAfter(run.ix)
    BY <1>1 DEF FlashInv, RepayInv
  <2>3. run' = e /\ status' = status => FlashInv'
    BY <1>1, <1>3, <1>5, <1>6, <1>7, <2>1, <2>2, Inside
  <2> QED BY <1>1, <2>3, Reverted
<1> QED BY <1>3, <1>8, <1>9

LEMMA LeaveStep ==
  ASSUME Executable, FlashInv, Flash!LeaveHelios
  PROVE  FlashInv'
<1> DEFINE r == IF Flash!Current.op = "flash" THEN Flash!Repaid(run) ELSE run
<1>1. /\ status = "running" /\ Resting /\ Op \in {"helios", "flash"} /\ Flash!Current.op = Op
      /\ run.hop = Len(Flash!Plan.hops) + 1
      /\ \/ Flash!Revert
         \/ /\ Flash!Advance(r)
            /\ run.bal[Mint] >= run.before + Flash!Plan.min_profit
  BY DEF Flash!LeaveHelios, Flash!Running, Flash!ProfitHolds, Resting, Op, Flash!Current, Mint
<1>2. CASE Flash!Revert
  BY <1>1, <1>2, Reverted
<1>3. CASE Flash!Advance(r) /\ run.bal[Mint] >= run.before + Flash!Plan.min_profit
  <2>1. PlanSound(Flash!Plan)
    BY <1>1, PlanOfTx
  <2>2. run.hop > 0
    BY <1>1, <2>1 DEF PlanSound
  <2>3. /\ run = [ix |-> run.ix, hop |-> run.hop, bal |-> run.bal, atas |-> run.atas,
                  debt |-> run.debt, before |-> run.before]
        /\ run.debt \in Nat /\ run.bal \in [Flash!Mints -> Int]
        /\ run.before \in Int /\ Covers(run.before, run.debt)
        /\ tx.mode = "helios" /\ ~LoanAfter(run.ix)
    BY <1>1, <2>2, NoLoanLater DEF FlashInv, RunType, CostInv
  <2>4. /\ Fee[tx.provider] \in Nat /\ Mint \in Flash!Mints /\ own[Mint] \in Nat
    BY <1>1, <2>3, Numbers DEF FlashInv
  <2>5. run.bal[Mint] >= run.before + 0 /\ run.bal[Mint] \in Int
    BY <1>3, <2>1, <2>3, <2>4 DEF PlanSound
  <2>6. Covers(run.bal[Mint], run.debt)
    BY <2>3, <2>4, <2>5 DEF Covers
  <2>7. CASE Op = "flash"
    <3>1. r = Flash!Repaid(run)
      BY <1>1, <2>7
    <3>2. r = [run EXCEPT !.bal = Flash!Debit(run.bal, Mint, run.debt), !.debt = 0]
      BY <3>1 DEF Flash!Repaid, Mint
    <3> HIDE DEF r
    <3>3. /\ r = [ix |-> r.ix, hop |-> r.hop, bal |-> r.bal, atas |-> r.atas, debt |-> r.debt,
                  before |-> r.before]
          /\ r.bal = Flash!Debit(run.bal, Mint, run.debt) /\ r.debt = 0
      BY <2>3, <3>2, Updated
    <3>4. r.bal \in [Flash!Mints -> Int] /\ r.bal[Mint] = run.bal[Mint] - run.debt
      BY <2>3, <2>4, <3>3 DEF Flash!Debit
    <3>5. Covers(r.bal[Mint], r.debt)
      BY <2>3, <2>4, <2>5, <2>6, <3>3, <3>4 DEF Covers
    <3>6. Safe(r)
      BY <2>3, <3>3, <3>4, <3>5 DEF Safe
    <3> QED BY <1>1, <1>3, <3>6, Advanced
  <2>8. CASE Op = "helios"
    <3>1. r = run
      BY <1>1, <2>8
    <3>2. tx.provider # "marginfi" /\ run.debt # 0 => RepayAfter(run.ix)
      BY <1>1, <2>8 DEF FlashInv, RepayInv
    <3>3. Safe(run)
      BY <2>3, <2>6, <3>2 DEF Safe
    <3> HIDE DEF r
    <3> QED BY <1>1, <1>3, <3>1, <3>3, Advanced
  <2> QED BY <1>1, <2>7, <2>8
<1> QED BY <1>1, <1>2, <1>3

-----------------------------------------------------------------------------
(* Before the transaction runs, and after.                                 *)

LEMMA InitFlash == ASSUME Executable PROVE Flash!Init => FlashInv
<1> SUFFICES ASSUME Flash!Init PROVE FlashInv
  OBVIOUS
<1>1. route \in RouteType
  <2>1. <<>> \in Seq(Hops)
    OBVIOUS
  <2> QED BY <2>1 DEF Flash!Init, Flash!NoRoute, RouteType
<1>2. FlashType
  BY <1>1 DEF Flash!Init, FlashType, Executable
<1> QED BY <1>2 DEF Flash!Init, FlashInv, RunType, RepayInv, CostInv, Landed,
      Flash!RepaidWhenLanded, Flash!HeliosCostsAtMostTheFee

\* Only the types matter while nothing runs and nothing has landed.
LEMMA NothingRuns ==
  ASSUME FlashType', status' \notin {"running", "landed"}
  PROVE  FlashInv'
BY DEF FlashInv, RunType, RepayInv, CostInv, Landed, Flash!RepaidWhenLanded,
       Flash!HeliosCostsAtMostTheFee

LEMMA LandStep ==
  ASSUME Executable, FlashInv, Flash!Land
  PROVE  FlashInv'
<1> DEFINE atas == {Flash!Ata(m, OwnerOf[m]) : m \in {n \in Flash!Mints : own[n] > 0}}
<1>1. /\ status = "built" /\ status' = "running" /\ Resting
      /\ run' = [ix |-> 1, hop |-> 0, bal |-> own, atas |-> atas, debt |-> 0, before |-> 0]
  BY DEF Flash!Land, Resting
<1> HIDE DEF atas
<1>2. FlashType'
  BY <1>1 DEF FlashInv, FlashType, Resting
<1>3. TxSound(tx, route) /\ 1 \in DOMAIN tx.ixs
  BY <1>1 DEF FlashInv, FlashType, TxSound
<1>4. RunType'
  BY <1>1, <1>3 DEF RunType, Resting
<1>5. RepayInv'
  BY <1>1 DEF RepayInv
<1>6. CostInv'
  <2>1. /\ Fee[tx.provider] \in Nat /\ own \in [Flash!Mints -> Nat]
        /\ tx.mode = "helios" => Mint \in Flash!Mints /\ own[Mint] \in Nat
    BY <1>1, Numbers DEF FlashInv, FlashType
  <2>2. tx.mode = "helios" => Covers(own[Mint], 0)
    BY <2>1 DEF Covers
  <2>3. /\ tx' = tx /\ own' = own /\ route' = route /\ Mint' = Mint
    BY <1>1 DEF Resting, Mint, Flash!BorrowMint
  <2> QED BY <1>1, <2>1, <2>2, <2>3 DEF CostInv, Covers
<1>7. Landed'
  BY <1>1 DEF Landed, Flash!RepaidWhenLanded, Flash!HeliosCostsAtMostTheFee
<1> QED BY <1>2, <1>4, <1>5, <1>6, <1>7 DEF FlashInv

\* The token programs a builder finds, and what it keeps of them.
LEMMA ProgramsKept ==
  ASSUME FlashType, NEW answered \in BOOLEAN
  PROVE  Flash!CacheAfter(route, answered) \in [Flash!Mints -> {"none", Flash!Spl, Flash!T22}]
<1>1. \A m \in Flash!Mints :
        Flash!ProgramsFor(route, answered)[m] \in {"none", Flash!Spl, Flash!T22}
  BY DEF FlashType, Flash!ProgramsFor, Flash!Classify
<1> QED BY <1>1 DEF FlashType, Flash!CacheAfter

LEMMA BuiltInv ==
  ASSUME FlashInv, NEW t, TxSound(t, route), Flash!Built(t), UNCHANGED <<route, forgot, own>>,
         programs' \in [Flash!Mints -> {"none", Flash!Spl, Flash!T22}]
  PROVE  FlashInv'
<1>1. FlashType'
  BY DEF FlashInv, FlashType, Flash!Built
<1> QED BY <1>1, NothingRuns DEF Flash!Built

LEMMA FailedInv ==
  ASSUME FlashInv, Flash!Fail, UNCHANGED <<route, forgot, own>>,
         programs' \in [Flash!Mints -> {"none", Flash!Spl, Flash!T22}]
  PROVE  FlashInv'
<1>1. FlashType'
  BY DEF FlashInv, FlashType, Flash!Fail
<1> QED BY <1>1, NothingRuns DEF Flash!Fail

LEMMA FastBuildStep ==
  ASSUME Executable, FlashInv, NEW answered \in BOOLEAN, Flash!FastBuild(answered)
  PROVE  FlashInv'
<1> DEFINE p == "marginfi"
           progs == Flash!ProgramsFor(route, answered)
<1>1. /\ p \in Flash!Providers /\ route \in RouteType
      /\ programs' \in [Flash!Mints -> {"none", Flash!Spl, Flash!T22}]
      /\ UNCHANGED <<route, forgot, own>>
  BY ProgramsKept DEF Flash!FastBuild, Flash!Providers, FlashInv, FlashType
<1>2. \/ Flash!CanBuildDirect(route, p) /\ Flash!Built(Flash!BuildDirect(route, p, progs))
      \/ Flash!CanBuildHelios(route, p) /\ Flash!Built(Flash!BuildHelios(route, p, progs, TRUE))
      \/ Flash!Fail
  BY Zenon DEF Flash!FastBuild
<1> HIDE DEF p, progs
<1>3. CASE Flash!CanBuildDirect(route, p) /\ Flash!Built(Flash!BuildDirect(route, p, progs))
  <2>1. p \in {"marginfi", "kamino"}
    BY <1>3 DEF Flash!CanBuildDirect
  <2>2. TxSound(Flash!BuildDirect(route, p, progs), route)
    BY <1>1, <2>1, DirectBuilt
  <2> QED BY <1>1, <1>3, <2>2, BuiltInv
<1>4. CASE Flash!CanBuildHelios(route, p) /\ Flash!Built(Flash!BuildHelios(route, p, progs, TRUE))
  <2>1. Len(route.hops) > 0
    BY <1>4 DEF Flash!CanBuildHelios
  <2>2. TxSound(Flash!BuildHelios(route, p, progs, TRUE), route)
    BY <1>1, <2>1, HeliosBuilt
  <2> QED BY <1>1, <1>4, <2>2, BuiltInv
<1>5. CASE Flash!Fail
  BY <1>1, <1>5, FailedInv
<1> QED BY <1>2, <1>3, <1>4, <1>5

LEMMA SlowBuildStep ==
  ASSUME Executable, FlashInv, NEW answered \in BOOLEAN, Flash!SlowBuild(answered)
  PROVE  FlashInv'
<1> DEFINE progs == Flash!ProgramsFor(route, answered)
<1>1. /\ Flash!Select(route.borrow) \in Flash!Providers \cup {"none"} /\ route \in RouteType
      /\ programs' \in [Flash!Mints -> {"none", Flash!Spl, Flash!T22}]
      /\ UNCHANGED <<route, forgot, own>>
  BY Selected, ProgramsKept DEF Flash!SlowBuild, FlashInv, FlashType
<1>2. \/ Flash!Fail
      \/ \E p \in Flash!FallbackCandidates(Flash!Select(route.borrow)) :
            /\ p # "none" /\ Flash!CanBuildHelios(route, p)
            /\ Flash!Built(Flash!BuildHelios(route, p, progs, TRUE))
  BY Zenon DEF Flash!SlowBuild
<1> HIDE DEF progs
<1>3. ASSUME NEW p \in Flash!FallbackCandidates(Flash!Select(route.borrow)),
             p # "none", Flash!CanBuildHelios(route, p),
             Flash!Built(Flash!BuildHelios(route, p, progs, TRUE))
      PROVE  FlashInv'
  <2>1. p \in Flash!Providers
    BY <1>1, <1>3 DEF Flash!FallbackCandidates
  <2>2. Len(route.hops) > 0
    BY <1>3 DEF Flash!CanBuildHelios
  <2>3. TxSound(Flash!BuildHelios(route, p, progs, TRUE), route)
    BY <1>1, <2>1, <2>2, HeliosBuilt
  <2> QED BY <1>1, <1>3, <2>3, BuiltInv
<1> QED BY <1>1, <1>2, <1>3, FailedInv

LEMMA NextFlash ==
  ASSUME Executable
  PROVE  FlashInv /\ [Flash!Next]_flashVars => FlashInv'
<1> SUFFICES ASSUME FlashInv, [Flash!Next]_flashVars PROVE FlashInv'
  OBVIOUS
<1>1. ASSUME NEW m \in Flash!Mints, Flash!Expire(m) PROVE FlashInv'
  <2>1. FlashType' /\ status' = "idle"
    BY <1>1 DEF Flash!Expire, FlashInv, FlashType, Executable
  <2> QED BY <2>1, NothingRuns
<1>2. ASSUME NEW r \in FlashRoutes, NEW funds \in [Flash!Mints -> OwnFunds], Flash!Arrive(r, funds)
      PROVE  FlashInv'
  <2>1. r \in RouteType /\ funds \in [Flash!Mints -> Nat]
    BY DEF Executable, RouteType
  <2>2. FlashType' /\ status' = "routed"
    BY <1>2, <2>1 DEF Flash!Arrive, FlashInv, FlashType
  <2> QED BY <2>2, NothingRuns
<1>3. ASSUME NEW p \in Flash!Providers, Flash!JupiterBuild(p) PROVE FlashInv'
  <2>1. TxSound(Flash!BuildJupiter(route, p), route)
    BY <1>3, JupiterBuilt DEF Flash!JupiterBuild, FlashInv, FlashType
  <2> QED BY <1>3, <2>1, BuiltInv DEF Flash!JupiterBuild, FlashInv, FlashType
<1>4. CASE Flash!Settle
  <2>1. Flash!NoRoute \in RouteType
    BY DEF Flash!NoRoute, RouteType
  <2>2. FlashType' /\ status' = "idle"
    BY <1>4, <2>1 DEF Flash!Settle, FlashInv, FlashType
  <2> QED BY <2>2, NothingRuns
<1>5. CASE UNCHANGED flashVars
  <2>1. FlashType'
    BY <1>5 DEF flashVars, FlashInv, FlashType
  <2> QED BY <1>5, <2>1 DEF flashVars, FlashInv, RunType, RepayInv, CostInv, Landed, Op, RepayAfter,
            LoanAfter, Loans, Covers, Mint, Flash!BorrowMint, Flash!RepaidWhenLanded,
            Flash!HeliosCostsAtMostTheFee
<1> QED BY <1>1, <1>2, <1>3, <1>4, <1>5, FastBuildStep, SlowBuildStep, LandStep, PlainSteps,
      BorrowStep, SwapStep, HopStep, EnterStep, LeaveStep, RepayStep DEF Flash!Next

-----------------------------------------------------------------------------
(* The theorems.                                                           *)

LandedInv == part = "flash" => FlashInv

LEMMA InitLanded == MCInit => LandedInv
  BY ExecutableAssumption, InitFlash DEF MCInit, LandedInv

LEMMA NextLanded == LandedInv /\ [MCNext]_<<part, vars, flashVars>> => LandedInv'
<1> SUFFICES ASSUME LandedInv, [MCNext]_<<part, vars, flashVars>>, part = "flash" PROVE FlashInv'
  BY DEF MCNext, LandedInv
<1>1. [Flash!Next]_flashVars
  BY DEF MCNext
<1> QED BY <1>1, ExecutableAssumption, NextFlash DEF LandedInv

\* The cache of lookup tables runs as it does alone.
LEMMA TablesRun == MCSpec => Spec
<1>1. MCInit => Init
  BY DEF MCInit
<1>2. [MCNext]_<<part, vars, flashVars>> => [Next]_vars
  BY DEF MCNext
<1> QED BY <1>1, <1>2, PTL DEF MCSpec, Spec

\* The states of cache, builder and execution have their types, and a loan of a
\* built transaction is closed by the instruction it names, after its swaps.
THEOREM LoansStayBracketed == MCSpec => []LoansAreBracketed
<1>1. FlashInv => Flash!TypeOK
  BY DEF FlashInv, FlashType, RunType, TxSound, Flash!TypeOK, Flash!NoTx
<1>2. FlashInv => Flash!BracketsClose
  <2>1. tx = Flash!NoTx => Flash!BracketsClose
    BY DEF Flash!BracketsClose, Flash!NoTx
  <2>2. TxSound(tx, route) => Flash!BracketsClose
    BY DEF TxSound, Brackets, OpAt, Flash!BracketsClose, Flash!At
  <2> QED BY <2>1, <2>2 DEF FlashInv, FlashType
<1>3. LandedInv /\ TypeOK => LoansAreBracketed
  BY <1>1, <1>2 DEF LandedInv, LoansAreBracketed
<1> QED BY <1>3, InitLanded, NextLanded, TablesRun, AltTypeCorrect, PTL DEF MCSpec

\* Besides, a transaction that lands has repaid what it borrowed, and through
\* helios-arb it costs its payer at most the loan's fee, whatever the pools yield.
THEOREM LandedStaysSafe == MCSpec => []LandedIsSafe
<1>1. LoansAreBracketed /\ LandedInv => LandedIsSafe
  BY DEF LandedInv, FlashInv, Landed, LandedIsSafe
<1> QED BY <1>1, LoansStayBracketed, InitLanded, NextLanded, PTL DEF MCSpec
==============================================================================
