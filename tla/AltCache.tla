------------------------------ MODULE AltCache ------------------------------
(***************************************************************************)
(* executor/src/alt_loader.rs: address lookup tables for oversized         *)
(* transactions.  The executor thread asks for the table of a route        *)
(* (try_get_or_spawn_create) and never waits: a miss spawns an             *)
(* alt-create-bg thread that creates the table on chain, extends it chunk  *)
(* by chunk, waits until it is active, enters it in route_alt_cache and    *)
(* rewrites the JSON file that restores the mapping after a restart.  RPC  *)
(* calls fail, creations outlive their 60 s entry, and the process crashes *)
(* between any two steps.                                                  *)
(***************************************************************************)
EXTENDS Naturals, FiniteSets

CONSTANTS Routes,      \* address sets that need a table (hash_address_set)
          Tables,      \* tables that can be created in a run
          NumChunks,   \* extend transactions a table needs
          MaxExpiries, \* bound: creations that outlive the 60 s entry
          IoErrors,    \* whether fs::write may fail
          MaxCrashes,  \* bound: restarts of the process
          None

ASSUME AltAssumption == /\ None \notin Tables
                        /\ NumChunks \in Nat \ {0}
                        /\ MaxExpiries \in Nat
                        /\ MaxCrashes \in Nat
                        /\ IoErrors \in BOOLEAN
                        /\ IsFiniteSet(Tables)

VARIABLES routeAlt, \* route_alt_cache
          loaded,   \* keys of cache: tables the builder can use
          pending,  \* pending_alt_creations: "none", "fresh" (< 60 s), "old"
          worker,   \* the alt-create-bg thread that creates each table
          chain,    \* the table's account: Absent, the chunks it holds, or
                    \* Active once complete and past its last extended slot
          disk,     \* the JSON file
          asking,   \* the route the executor is asking for, after its lookup
          expiries, \* history: entries that reached 60 s, per route
          crashes   \* history: restarts

vars == <<routeAlt, loaded, pending, worker, chain, disk, asking, expiries, crashes>>

Mappings == [Routes -> Tables \cup {None}]

NoMapping == [r \in Routes |-> None]

Idle == [route |-> None, pc |-> "free", snap |-> NoMapping]

Active == NumChunks + 1

Absent == NumChunks + 2

\* The JSON file: a mapping, truncated to nothing, or a text that does not
\* parse (a partial write, or a short text over the tail of a longer one).
File(m) == [text |-> "json", map |-> m]

Truncated == [text |-> "empty", map |-> NoMapping]

Garbled == [text |-> "garbled", map |-> NoMapping]

Init == /\ routeAlt = NoMapping
        /\ loaded = {}
        /\ pending = [r \in Routes |-> "none"]
        /\ worker = [t \in Tables |-> Idle]
        /\ chain = [t \in Tables |-> Absent]
        /\ disk = File(NoMapping)
        /\ asking = None
        /\ expiries = [r \in Routes |-> 0]
        /\ crashes = 0

-----------------------------------------------------------------------------
(* The executor thread *)

\* fetch_and_store: loads the tables that exist; a failed RPC loads nothing.
Fetch(keys) == {loaded, loaded \cup {t \in keys : chain[t] # Absent}}

\* The lookup of try_get_or_spawn_create: a mapped table that is (or can be)
\* loaded is a hit and the call returns; otherwise the pending check follows.
Lookup(r) ==
  /\ asking = None
  /\ IF routeAlt[r] = None
     THEN asking' = r /\ UNCHANGED loaded
     ELSE /\ loaded' \in (IF routeAlt[r] \in loaded THEN {loaded} ELSE Fetch({routeAlt[r]}))
          /\ asking' = IF routeAlt[r] \in loaded' THEN None ELSE r
  /\ UNCHANGED <<routeAlt, pending, worker, chain, disk, expiries, crashes>>

\* A creation younger than 60 s is in progress: Err, the opportunity is skipped.
InProgress ==
  /\ asking # None
  /\ pending[asking] = "fresh"
  /\ asking' = None
  /\ UNCHANGED <<routeAlt, loaded, pending, worker, chain, disk, expiries, crashes>>

\* Mutant: the pending entry is never written.
SpawnUnmarked(t) ==
  /\ asking # None
  /\ pending[asking] # "fresh"
  /\ worker[t] = Idle
  /\ chain[t] = Absent
  /\ worker' = [worker EXCEPT ![t] = [Idle EXCEPT !.route = asking, !.pc = "create"]]
  /\ asking' = None
  /\ UNCHANGED <<routeAlt, loaded, pending, chain, disk, expiries, crashes>>

\* No entry, or one of 60 s or more: it is replaced and a thread is spawned.
Spawn(t) ==
  /\ asking # None
  /\ pending[asking] # "fresh"
  /\ worker[t] = Idle
  /\ chain[t] = Absent
  /\ pending' = [pending EXCEPT ![asking] = "fresh"]
  /\ worker' = [worker EXCEPT ![t] = [Idle EXCEPT !.route = asking, !.pc = "create"]]
  /\ asking' = None
  /\ UNCHANGED <<routeAlt, loaded, chain, disk, expiries, crashes>>

\* thread::Builder::spawn fails: the entry stays although no thread runs.
SpawnFails ==
  /\ asking # None
  /\ pending[asking] # "fresh"
  /\ pending' = [pending EXCEPT ![asking] = "fresh"]
  /\ asking' = None
  /\ UNCHANGED <<routeAlt, loaded, worker, chain, disk, expiries, crashes>>

\* 60 seconds pass for a pending entry.
Expire(r) ==
  /\ pending[r] = "fresh"
  /\ expiries[r] < MaxExpiries
  /\ pending' = [pending EXCEPT ![r] = "old"]
  /\ expiries' = [expiries EXCEPT ![r] = @ + 1]
  /\ UNCHANGED <<routeAlt, loaded, worker, chain, disk, asking, crashes>>

-----------------------------------------------------------------------------
(* The alt-create-bg threads; t is the table the thread creates *)

At(t, pc) == worker[t].pc = pc

Goto(t, pc) == worker' = [worker EXCEPT ![t].pc = pc]

\* The create transaction is confirmed.
Create(t) ==
  /\ At(t, "create")
  /\ chain' = [chain EXCEPT ![t] = 0]
  /\ Goto(t, "extend")
  /\ UNCHANGED <<routeAlt, loaded, pending, disk, asking, expiries, crashes>>

\* One extend transaction per chunk of addresses.
Extend(t) ==
  /\ At(t, "extend")
  /\ chain' = [chain EXCEPT ![t] = @ + 1]
  /\ Goto(t, IF chain[t] + 1 = NumChunks THEN "wait" ELSE "extend")
  /\ UNCHANGED <<routeAlt, loaded, pending, disk, asking, expiries, crashes>>

\* Mutant: the table is entered as soon as its last chunk is confirmed.
ReadyTooEarly(t) == chain[t] = NumChunks

\* wait_until_alt_ready: all addresses present and a slot after the last extend.
TableReady(t) == chain[t] = Active

\* A later slot is confirmed.
SlotPasses(t) ==
  /\ chain[t] = NumChunks
  /\ chain' = [chain EXCEPT ![t] = Active]
  /\ UNCHANGED <<routeAlt, loaded, pending, worker, disk, asking, expiries, crashes>>

\* The table is ready: create_and_extend_alt loads it (a failed fetch is only
\* logged) and the thread enters it in route_alt_cache.
Enter(t) ==
  /\ At(t, "wait")
  /\ TableReady(t)
  /\ loaded' \in Fetch({t})
  /\ routeAlt' = [routeAlt EXCEPT ![worker[t].route] = t]
  /\ Goto(t, "snapshot")
  /\ UNCHANGED <<pending, chain, disk, asking, expiries, crashes>>

\* An RPC error or the 20 s timeout of the wait ends the creation; the failed
\* transaction may have landed all the same.
CreateFails(t) ==
  /\ worker[t].pc \in {"create", "extend", "wait"}
  /\ chain' \in {chain} \cup
       CASE At(t, "create") -> {[chain EXCEPT ![t] = 0]}
         [] At(t, "extend") -> {[chain EXCEPT ![t] = @ + 1]}
         [] At(t, "wait") -> {}
  /\ Goto(t, "remove")
  /\ UNCHANGED <<routeAlt, loaded, pending, disk, asking, expiries, crashes>>

\* persist_route_alt_cache: collect the map, then fs::write, which truncates
\* the file before it writes.
Snapshot(t) ==
  /\ At(t, "snapshot")
  /\ worker' = [worker EXCEPT ![t].pc = "truncate", ![t].snap = routeAlt]
  /\ UNCHANGED <<routeAlt, loaded, pending, chain, disk, asking, expiries, crashes>>

Truncate(t) ==
  /\ At(t, "truncate")
  /\ disk' = Truncated
  /\ Goto(t, "write")
  /\ UNCHANGED <<routeAlt, loaded, pending, chain, asking, expiries, crashes>>

Entries(m) == Cardinality({r \in Routes : m[r] # None})

\* What the file holds after map m is written from its start.  Two threads may
\* both have truncated it before either wrote: a shorter text leaves the tail of
\* a longer one behind (the text of as many entries may be shorter or longer).
Overwrite(m) ==
  CASE disk.text = "empty" \/ disk.map = m -> {File(m)}
    [] disk.text = "json" /\ Entries(m) > Entries(disk.map) -> {File(m)}
    [] disk.text = "json" /\ Entries(m) < Entries(disk.map) -> {Garbled}
    [] OTHER -> {File(m), Garbled}

Write(t) ==
  /\ At(t, "write")
  /\ disk' \in Overwrite(worker[t].snap)
  /\ Goto(t, "remove")
  /\ UNCHANGED <<routeAlt, loaded, pending, chain, asking, expiries, crashes>>

\* fs::write fails, before or after it truncated the file: only a warning.
WriteFails(t) ==
  /\ IoErrors
  /\ worker[t].pc \in {"truncate", "write"}
  /\ disk' = IF At(t, "write") THEN Garbled ELSE disk
  /\ Goto(t, "remove")
  /\ UNCHANGED <<routeAlt, loaded, pending, chain, asking, expiries, crashes>>

\* The thread ends and removes the entry of its route, whoever wrote it.
Remove(t) ==
  /\ At(t, "remove")
  /\ pending' = [pending EXCEPT ![worker[t].route] = "none"]
  /\ worker' = [worker EXCEPT ![t] = Idle]
  /\ UNCHANGED <<routeAlt, loaded, chain, disk, asking, expiries, crashes>>

-----------------------------------------------------------------------------
\* The process dies and starts again: AltCache::new restores the mapping from
\* the file (an unreadable file is an empty mapping) and fetches its tables.
Restart ==
  /\ crashes < MaxCrashes
  /\ crashes' = crashes + 1
  /\ routeAlt' = disk.map
  /\ loaded' \in {{}, {t \in Tables : \E r \in Routes : routeAlt'[r] = t}}
  /\ pending' = [r \in Routes |-> "none"]
  /\ worker' = [t \in Tables |-> Idle]
  /\ asking' = None
  /\ expiries' = [r \in Routes |-> 0]
  /\ UNCHANGED <<chain, disk>>

Next == \/ \E r \in Routes : Lookup(r) \/ Expire(r)
        \/ InProgress \/ SpawnFails \/ Restart
        \/ \E t \in Tables :
             \/ Spawn(t) \/ Create(t) \/ Extend(t) \/ SlotPasses(t) \/ Enter(t)
             \/ CreateFails(t) \/ Snapshot(t) \/ Truncate(t) \/ Write(t) \/ WriteFails(t)
             \/ Remove(t)

Spec == Init /\ [][Next]_vars

-----------------------------------------------------------------------------
(* Properties *)

Phases == {"free", "create", "extend", "wait", "snapshot", "truncate", "write", "remove"}

\* A table never holds more chunks than its route has, and threads, entries
\* and the file only take the values below.
TypeOK == /\ routeAlt \in Mappings
          /\ loaded \subseteq Tables
          /\ pending \in [Routes -> {"none", "fresh", "old"}]
          /\ worker \in [Tables -> [route : Routes \cup {None}, pc : Phases,
                                    snap : Mappings]]
          /\ chain \in [Tables -> 0 .. Absent]
          /\ disk \in [text : {"json", "empty", "garbled"}, map : Mappings]
          /\ asking \in Routes \cup {None}
          /\ expiries \in [Routes -> Nat]
          /\ crashes \in Nat

\* Whatever creations failed half way, were repeated or were cut short by a
\* crash, a table the executor can be given for a route holds all the route's
\* addresses and is past its activation slot, and so does a restored one.
MappedTablesActive ==
  /\ \A r \in Routes : routeAlt[r] # None => chain[routeAlt[r]] = Active
  /\ \A r \in Routes : disk.map[r] # None => chain[disk.map[r]] = Active

\* The threads that still create a table for route r.
Creating(r) == {t \in Tables : worker[t].route = r /\ worker[t].pc # "free"}

\* pending_alt_creations keeps creations of one route apart: since the last
\* restart, a second one runs at the same time only if an entry reached 60 s,
\* one more per such entry, although every thread removes the entry of the
\* route and not only its own.
CreationsBounded ==
  \A r \in Routes : Cardinality(Creating(r)) <= 1 + expiries[r]

\* "Persist to disk so this ALT survives restarts": once no thread is creating
\* or persisting a table, every mapped table is in the file.
EnteredTablesPersist ==
  (\A t \in Tables : worker[t].pc = "free") =>
    \A r \in Routes : routeAlt[r] # None => disk.map[r] # None
=============================================================================
