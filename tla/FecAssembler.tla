---------------------------- MODULE FecAssembler ----------------------------
(***************************************************************************)
(* The signal-processor thread of helios, from a verified shred to the     *)
(* entry batches handed to the transaction decoder: Deduper::accept,       *)
(* FecAssembler::ingest (FEC recovery, slot buffers, block emission),      *)
(* BlockhashDeriver::on_entries_decoded and prune_old_slots, which all run *)
(* in one thread for one shred before the next one is taken.               *)
(*                                                                         *)
(* A shred is [slot, kind, fec, n]: a data shred of index n, or the coding *)
(* shred at position n, of the FEC set whose first data index is fec.  The *)
(* leader's block is given by constants: every slot holds the data shreds  *)
(* 0 .. NumData-1, and Ends are the indexes whose shred carries            *)
(* DATA_COMPLETE or LAST_IN_SLOT.  The network reorders, duplicates and    *)
(* loses shreds.                                                           *)
(***************************************************************************)
EXTENDS Naturals, FiniteSets, Sequences

CONSTANTS Slots,        \* slots of the run, positive naturals
          NumData,      \* data shreds per slot
          Ends,         \* data indexes that close an entry batch
          FecWidth,     \* data shreds per FEC set (the last set may be short)
          NumCoding,    \* coding shreds per FEC set
          Headers,      \* what each coding header says: "ok", "alien", "invalid"
          AlienNumData, \* num_data_shreds claimed by an "alien" header
          Copies,       \* copies of each shred the network can deliver
          DedupCap,     \* LRU capacity of the Deduper
          PruneEvery,   \* 1000 in the code
          PruneKeep,    \* 100 in the code
          Malformed,    \* batch ends whose payload Shredder::deshred rejects
          Undecodable   \* batch ends whose payload is not a Vec<Entry>

Index == 0 .. NumData - 1

FecOf(i) == i - (i % FecWidth)

FecSets == {FecOf(i) : i \in Index}

DataIn(f) == {i \in Index : FecOf(i) = f}

DataShreds == {[slot |-> s, kind |-> "data", fec |-> FecOf(i), n |-> i] :
                 s \in Slots, i \in Index}

CodeShreds == [slot : Slots, kind : {"code"}, fec : FecSets, n : 0 .. NumCoding - 1]

Shreds == DataShreds \cup CodeShreds

ASSUME SlotsAssumption == Slots \subseteq Nat \ {0}
ASSUME SizeAssumption == /\ NumData \in Nat \ {0}
                         /\ FecWidth \in Nat \ {0}
                         /\ NumCoding \in Nat
                         /\ AlienNumData \in Nat
                         /\ DedupCap \in Nat \ {0}
                         /\ PruneEvery \in Nat \ {0}
                         /\ PruneKeep \in Nat
ASSUME BlockAssumption == /\ Ends \subseteq Index
                          /\ Malformed \subseteq Ends
                          /\ Undecodable \subseteq Ends
ASSUME WireAssumption == /\ Headers \in [CodeShreds -> {"ok", "alien", "invalid"}]
                         /\ Copies \in [Shreds -> Nat]

VARIABLES wire,     \* copies of each shred still in the network
          seen,     \* Deduper.cache, oldest entry first
          setData,  \* FecSet.data_shreds per (slot, fec_set_index)
          setCode,  \* FecSet.coding_shreds
          setMeta,  \* FecSet.coding_meta: the header kept, or "none"
          buf,      \* SlotBuffer.data_shreds per slot
          ends,     \* SlotBuffer.completed_data_indexes per slot
          bh,       \* BlockhashDeriver.current: slot and batch of the hash
          blocks,   \* history: every block pushed to `complete`
          times,    \* history: how often each batch end was emitted
          accepted, \* history: data shreds that passed the Deduper
          rebuilt,  \* history: data shreds produced by FEC recovery
          known     \* history: shreds accepted since their slot was pruned

vars == <<wire, seen, setData, setCode, setMeta, buf, ends, bh,
          blocks, times, accepted, rebuilt, known>>

Keys == Slots \X FecSets

NoHash == [slot |-> 0, end |-> 0]

Init == /\ wire = Copies
        /\ seen = <<>>
        /\ setData = [k \in Keys |-> {}]
        /\ setCode = [k \in Keys |-> {}]
        /\ setMeta = [k \in Keys |-> "none"]
        /\ buf = [s \in Slots |-> {}]
        /\ ends = [s \in Slots |-> {}]
        /\ bh = NoHash
        /\ blocks = {}
        /\ times = [k \in Slots \X Index |-> 0]
        /\ accepted = [k \in Slots \X Index |-> 0]
        /\ rebuilt = [k \in Slots \X Index |-> 0]
        /\ known = {}

-----------------------------------------------------------------------------
(* FecSet *)

\* Mutant: the header is kept without the check of its position.
ObserveMetaUnchecked(meta, s) ==
  IF s.kind = "code" /\ meta = "none" THEN Headers[s] ELSE meta

\* observe_coding_meta: the first valid header is kept; an invalid one
\* (position > index) and one that disagrees are only counted.
ObserveMeta(meta, s) ==
  IF s.kind = "code" /\ meta = "none" /\ Headers[s] # "invalid"
  THEN Headers[s] ELSE meta

\* num_data_shreds of the header the set kept.
NumDataOf(f, meta) == IF meta = "alien" THEN AlienNumData ELSE Cardinality(DataIn(f))

\* Enough shreds of the set are there and some data shred is missing.
CanAttemptRecovery(f, meta, d, c) ==
  /\ meta # "none"
  /\ c # {}
  /\ Cardinality(d) < NumDataOf(f, meta)
  /\ Cardinality(d) + Cardinality(c) >= NumDataOf(f, meta)

\* maybe_recover: Reed-Solomon gives back every missing data shred when all the
\* headers agree with the leader's geometry; a foreign header puts shards at
\* wrong places and the recovery ends in an error, which yields nothing.
Recover(slot, f, meta, d, c) ==
  IF /\ CanAttemptRecovery(f, meta, d, c)
     /\ meta = "ok"
     /\ \A p \in c : Headers[[slot |-> slot, kind |-> "code", fec |-> f, n |-> p]] = "ok"
  THEN DataIn(f) \ d ELSE {}

-----------------------------------------------------------------------------
(* SlotBuffer *)

\* Mutant: recovered shreds go to the buffer without their boundary flag.
BoundariesReceivedOnly(direct, recovered) == direct \cap Ends

\* insert_data_shred records the boundary flag of received and of recovered
\* data shreds alike.
Boundaries(direct, recovered) == (direct \cup recovered) \cap Ends

\* The candidates find_complete_data_block scans: a block ends at an observed
\* boundary and starts at 0 or just after the previous observed boundary.
IsBlock(E, a, e) == /\ e \in E
                    /\ a <= e
                    /\ a = 0 \/ a - 1 \in E
                    /\ \A x \in E : ~(a <= x /\ x < e)

BlocksOf(E) == {b \in Index \X Index : IsBlock(E, b[1], b[2])}

\* Mutant: the loop is missing: only the lowest complete block is taken.
ReadyFirstOnly(D, E) ==
  {b \in BlocksOf(E) : /\ b[1] .. b[2] \subseteq D
                       /\ \A c \in BlocksOf(E) : c[2] < b[2] => ~(c[1] .. c[2] \subseteq D)}

\* All the blocks the loop of emit_ready_blocks finds.  The blocks are disjoint,
\* so taking one out of the buffer never hides another one (MCShredPipeline has
\* the loop itself, and PipelineProofs the proof).
Ready(D, E) == {b \in BlocksOf(E) : b[1] .. b[2] \subseteq D}

\* Mutant: the first shred of a block stays in the buffer.
ConsumedOffByOne(ready) == UNION {(b[1] + 1) .. b[2] : b \in ready}

\* The indexes emit_ready_blocks removes, emitted or not.
Consumed(ready) == UNION {b[1] .. b[2] : b \in ready}

\* The hash of the last of the decoded blocks: they are decoded in ascending
\* order and each one overwrites the hash of the one before.
LastHash(slot, decoded) ==
  [slot : {slot}, end : {e \in decoded : \A x \in decoded : x <= e}]

\* Mutant: the slot comparison is missing.
OnEntriesDecodedAnySlot(slot, decoded) ==
  IF decoded # {} THEN LastHash(slot, decoded) ELSE {bh}

\* on_entries_decoded (as the set of its one result): a newer slot replaces the
\* hash, the same slot overwrites it, an older slot or no entry leaves it.
OnEntriesDecoded(slot, decoded) ==
  IF decoded # {} /\ slot >= bh.slot THEN LastHash(slot, decoded) ELSE {bh}

-----------------------------------------------------------------------------
(* The steps *)

\* Deduper.is_duplicate inserts a new key and evicts the oldest one.
Remember(s) == IF Len(seen) = DedupCap THEN Append(Tail(seen), s) ELSE Append(seen, s)

IsDuplicate(s) == \E i \in 1 .. Len(seen) : seen[i] = s

\* prune_old_slots(slot - 100) after a shred of a slot divisible by 1000.
Pruned(slot) == {t \in Slots : slot % PruneEvery = 0 /\ t + PruneKeep < slot}

\* A shred whose key is still in the LRU is skipped.
Duplicate(s) ==
  /\ wire[s] > 0
  /\ IsDuplicate(s)
  /\ wire' = [wire EXCEPT ![s] = @ - 1]
  /\ UNCHANGED <<seen, setData, setCode, setMeta, buf, ends, bh,
                 blocks, times, accepted, rebuilt, known>>

\* The index a data shred adds to its FEC set and its slot buffer.
IngestData(s) == IF s.kind = "data" THEN {s.n} ELSE {}

\* ingest and everything the thread does before the next shred.
Ingest(s) ==
  LET key == <<s.slot, s.fec>>
      meta == ObserveMeta(setMeta[key], s)
      data == setData[key] \cup IngestData(s)
      code == setCode[key] \cup (IF s.kind = "code" THEN {s.n} ELSE {})
      recovered == Recover(s.slot, s.fec, meta, data, code)
      new == IngestData(s) \cup recovered
      D == buf[s.slot] \cup new
      E == ends[s.slot] \cup Boundaries(IngestData(s), recovered)
      ready == Ready(D, E)
      emitted == {b \in ready : b[2] \notin Malformed}
      gone == Pruned(s.slot)
  IN /\ wire[s] > 0
     /\ ~IsDuplicate(s)
     /\ wire' = [wire EXCEPT ![s] = @ - 1]
     /\ seen' = Remember(s)
     /\ setData' = [k \in Keys |-> IF k[1] \in gone THEN {}
                                   ELSE IF k = key THEN data \cup recovered
                                   ELSE setData[k]]
     /\ setCode' = [k \in Keys |-> IF k[1] \in gone THEN {}
                                   ELSE IF k = key THEN code ELSE setCode[k]]
     /\ setMeta' = [k \in Keys |-> IF k[1] \in gone THEN "none"
                                   ELSE IF k = key THEN meta ELSE setMeta[k]]
     /\ buf' = [t \in Slots |->
                  IF t \in gone THEN {}
                  ELSE IF t = s.slot THEN D \ Consumed(ready)
                  ELSE buf[t]]
     /\ ends' = [t \in Slots |-> IF t \in gone THEN {}
                                 ELSE IF t = s.slot THEN E ELSE ends[t]]
     /\ blocks' = blocks \cup
          {[slot |-> s.slot, start |-> b[1], end |-> b[2]] : b \in emitted}
     /\ times' = [k \in Slots \X Index |->
                    IF k[1] = s.slot /\ \E b \in emitted : b[2] = k[2]
                    THEN times[k] + 1 ELSE times[k]]
     /\ bh' \in OnEntriesDecoded(s.slot, {b[2] : b \in emitted} \ Undecodable)
     /\ accepted' = [k \in Slots \X Index |->
          IF k[1] = s.slot /\ k[2] \in IngestData(s) THEN accepted[k] + 1 ELSE accepted[k]]
     /\ rebuilt' = [k \in Slots \X Index |->
          IF k[1] = s.slot /\ k[2] \in recovered THEN rebuilt[k] + 1 ELSE rebuilt[k]]
     /\ known' = {t \in known : t.slot \notin gone} \cup {s}

\* A shred the pipeline loses before the Deduper: a full packet channel in
\* ingest_thread (try_send), a packet parse_shred rejects, a signature
\* SigVerifier rejects.
Lose(s) ==
  /\ wire[s] > 0
  /\ wire' = [wire EXCEPT ![s] = @ - 1]
  /\ UNCHANGED <<seen, setData, setCode, setMeta, buf, ends, bh,
                 blocks, times, accepted, rebuilt, known>>

Next == \E s \in Shreds : Duplicate(s) \/ Ingest(s) \/ Lose(s)

Spec == Init /\ [][Next]_vars

-----------------------------------------------------------------------------
(* Properties *)

\* The entry batches of the leader's block: from 0, or the index after a
\* boundary, up to the next boundary.
Batches == {[slot |-> s, start |-> b[1], end |-> b[2]] :
              s \in Slots, b \in BlocksOf(Ends)}

\* Every kept header is a valid one, every observed boundary one of the
\* leader, and no set or buffer holds a shred the leader did not send.
TypeOK == /\ wire \in [Shreds -> Nat]
          /\ seen \in Seq(Shreds)
          /\ setData \in [Keys -> SUBSET Index]
          /\ setCode \in [Keys -> SUBSET (0 .. NumCoding - 1)]
          /\ setMeta \in [Keys -> {"none", "ok", "alien"}]
          /\ buf \in [Slots -> SUBSET Index]
          /\ ends \in [Slots -> SUBSET Ends]
          /\ bh \in [slot : Nat, end : Nat]
          /\ times \in [Slots \X Index -> Nat]
          /\ accepted \in [Slots \X Index -> Nat]
          /\ rebuilt \in [Slots \X Index -> Nat]
          /\ known \subseteq Shreds

\* However shreds are lost, reordered or joined mid-slot, a block that
\* emit_ready_blocks pushes is exactly one entry batch of the leader: it never
\* spans a boundary that was not received and never misses a shred.
BlocksAreBatches == blocks \subseteq Batches

\* What the receiver knows of data shred i of slot s: it arrived, or its FEC
\* set has as many shreds as it has data shreds, all with the right header.
InSet(s, f) == {t \in known : t.slot = s /\ t.fec = f}

Determined(s, i) ==
  LET f == FecOf(i)
  IN \/ [slot |-> s, kind |-> "data", fec |-> f, n |-> i] \in known
     \/ /\ Cardinality(InSet(s, f)) >= Cardinality(DataIn(f))
        /\ \A t \in InSet(s, f) : t.kind = "code" => Headers[t] = "ok"

\* A batch is emitted as soon as its shreds and the boundary before it can be
\* known from what passed the Deduper since the slot was last pruned: neither
\* FEC recovery nor the scan of find_complete_data_block forgets a block.
DeliveredOnceDetermined ==
  \A b \in Batches :
    (/\ b.end \notin Malformed
     /\ \A i \in b.start .. b.end : Determined(b.slot, i)
     /\ b.start > 0 => Determined(b.slot, b.start - 1)) => b \in blocks

\* A batch is emitted again only if every one of its shreds was learnt again:
\* accepted by the Deduper a second time (evicted key) or both recovered by
\* FEC and received directly.
ReplayNeedsEveryShredAgain ==
  \A b \in Batches : \A i \in b.start .. b.end :
    times[<<b.slot, b.end>>] <= accepted[<<b.slot, i>>] + rebuilt[<<b.slot, i>>]

\* The derived blockhash belongs to the newest slot of which an entry batch was
\* decoded, and is the hash of a batch that was decoded.
BlockhashOfNewestSlot ==
  LET decoded == {b \in blocks : b.end \notin Undecodable}
  IN /\ \A b \in decoded : b.slot <= bh.slot
     /\ bh # NoHash => \E b \in decoded : b.slot = bh.slot /\ b.end = bh.end

\* What on_entries_decoded says of its result: the most recent PoH hash of the
\* highest slot, i.e. the last decoded batch of the slot.
BlockhashIsFreshest ==
  \A b \in blocks :
    (b.slot = bh.slot /\ b.end \notin Undecodable) => b.end <= bh.end
=============================================================================
