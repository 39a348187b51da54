--------------------------- MODULE PipelineProofs ---------------------------
(***************************************************************************)
(* TLAPS proofs about the shred pipeline.  FecAssembler: every emitted     *)
(* block is one entry batch of the leader's block, once, and the blockhash *)
(* of the newest slot, for any block layout, FEC geometry, header          *)
(* contents, deduper capacity and network, and its loop takes every block  *)
(* it could.  Signals: no signal is owed once the processor and its        *)
(* threads are done, and estimates yield.  WalletTracker: no wallet is     *)
(* smart money.                                                            *)
(***************************************************************************)
EXTENDS MCShredPipeline, FiniteSetTheorems, WellFoundedInduction, NaturalsInduction, TLAPS

\* BlocksAreBatches is not inductive: it also needs that a boundary shred in
\* the buffer is always among the observed boundaries (insert_data_shred).
BoundariesObserved == \A s \in Slots : buf[s] \cap Ends \subseteq ends[s]

IInv == TypeOK /\ BoundariesObserved /\ BlocksAreBatches

-----------------------------------------------------------------------------
\* Data shred fields: the slot, set and index of a shred of the wire.
LEMMA ShredFields ==
  ASSUME NEW s \in Shreds
  PROVE  /\ s.slot \in Slots
         /\ s.fec \in FecSets
         /\ s.kind = "data" => s.n \in Index
         /\ s.kind = "code" => s \in CodeShreds /\ s.n \in 0 .. NumCoding - 1
  BY DEF Shreds, DataShreds, CodeShreds, FecSets

\* maybe_recover only yields data shreds of the FEC set that is recovered.
LEMMA RecoverIsData ==
  ASSUME NEW slot, NEW f, NEW meta, NEW d, NEW c
  PROVE  Recover(slot, f, meta, d, c) \subseteq Index
  BY DEF Recover, DataIn

\* observe_coding_meta leaves a set without metadata, with the leader's
\* geometry or with the geometry of a foreign header.
LEMMA ObserveMetaType ==
  ASSUME NEW s \in Shreds, NEW meta \in {"none", "ok", "alien"}
  PROVE  ObserveMeta(meta, s) \in {"none", "ok", "alien"}
<1>1. CASE s.kind = "code"
  BY <1>1, ShredFields, WireAssumption DEF ObserveMeta
<1>2. CASE s.kind # "code"
  BY <1>2 DEF ObserveMeta
<1> QED BY <1>1, <1>2

\* A complete block between observed boundaries is a batch of the leader: a
\* leader boundary inside it would be in the buffer, hence observed.
LEMMA ReadyIsBatch ==
  ASSUME NEW D \in SUBSET Index, NEW E \in SUBSET Ends, D \cap Ends \subseteq E
  PROVE  Ready(D, E) \subseteq BlocksOf(Ends)
<1> SUFFICES ASSUME NEW b \in Ready(D, E) PROVE b \in BlocksOf(Ends)
  OBVIOUS
<1>1. /\ b \in Index \X Index
      /\ IsBlock(E, b[1], b[2])
      /\ b[1] .. b[2] \subseteq D
  BY DEF Ready, BlocksOf
<1>2. b[1] \in Nat /\ b[2] \in Nat
  BY <1>1, SizeAssumption DEF Index
<1>3. ASSUME NEW x \in Ends, b[1] <= x, x < b[2] PROVE FALSE
  <2>1. x \in Nat
    BY BlockAssumption, SizeAssumption DEF Index
  <2>2. x \in b[1] .. b[2]
    BY <1>2, <1>3, <2>1
  <2>3. x \in E
    BY <1>1, <2>2
  <2> QED BY <1>1, <1>3, <2>3 DEF IsBlock
<1>4. IsBlock(Ends, b[1], b[2])
  BY <1>1, <1>3 DEF IsBlock
<1> QED BY <1>1, <1>4 DEF BlocksOf

-----------------------------------------------------------------------------
\* The assembler starts with empty sets and buffers and has emitted nothing.
LEMMA InitIInv == Init => IInv
<1> SUFFICES ASSUME Init PROVE IInv
  OBVIOUS
<1>1. TypeOK
  BY WireAssumption DEF Init, TypeOK, NoHash
<1> QED BY <1>1 DEF Init, IInv, BoundariesObserved, BlocksAreBatches

\* One accepted shred, with everything it recovers, emits and prunes, keeps
\* the invariant.
LEMMA IngestIInv ==
  ASSUME IInv, NEW s \in Shreds, Ingest(s)
  PROVE  IInv'
<1> DEFINE key == <<s.slot, s.fec>>
           meta == ObserveMeta(setMeta[key], s)
           data == setData[key] \cup IngestData(s)
           code == setCode[key] \cup (IF s.kind = "code" THEN {s.n} ELSE {})
           recovered == Recover(s.slot, s.fec, meta, data, code)
           new == IngestData(s) \cup recovered
           D == buf[s.slot] \cup new
           E == ends[s.slot] \cup Boundaries(IngestData(s), recovered)
           ready == Ready(D, E)
           intact == {b \in ready : b[2] \notin Malformed}
           gone == Pruned(s.slot)
<1>1. s.slot \in Slots /\ s.fec \in FecSets /\ key \in Keys
  BY ShredFields DEF Keys
<1>2. meta \in {"none", "ok", "alien"}
  BY <1>1, ObserveMetaType DEF IInv, TypeOK
<1>3. IngestData(s) \subseteq Index
  BY ShredFields DEF IngestData
<1>4. recovered \subseteq Index
  BY RecoverIsData
<1>5. data \subseteq Index
  BY <1>1, <1>3 DEF IInv, TypeOK
<1>6. code \subseteq 0 .. NumCoding - 1
  BY <1>1, ShredFields DEF IInv, TypeOK
<1>7. D \in SUBSET Index /\ E \in SUBSET Ends
  BY <1>1, <1>3, <1>4 DEF IInv, TypeOK, Boundaries
<1>8. D \cap Ends \subseteq E
  BY <1>1 DEF IInv, BoundariesObserved, Boundaries
<1>9. ready \subseteq BlocksOf(Ends)
  BY <1>7, <1>8, ReadyIsBatch
<1>10. ready \subseteq Index \X Index
  BY <1>9 DEF BlocksOf
<1> HIDE DEF key, meta, data, code, recovered, new, D, E, ready, intact, gone
<1>11. wire' \in [Shreds -> Nat]
  <2>1. wire' = [wire EXCEPT ![s] = @ - 1] /\ wire[s] > 0 /\ wire \in [Shreds -> Nat]
    BY DEF Ingest, IInv, TypeOK
  <2> QED BY <2>1
<1>12. seen' \in Seq(Shreds)
  <2>1. seen' = Remember(s) /\ seen \in Seq(Shreds)
    BY DEF Ingest, IInv, TypeOK
  <2>2. CASE Len(seen) = DedupCap
    <3>1. seen # <<>>
      BY <2>1, <2>2, SizeAssumption
    <3> QED BY <2>1, <2>2, <3>1 DEF Remember
  <2>3. CASE Len(seen) # DedupCap
    BY <2>1, <2>3 DEF Remember
  <2> QED BY <2>2, <2>3
<1>13. setData' \in [Keys -> SUBSET Index]
  <2>1. setData' = [k \in Keys |-> IF k[1] \in gone THEN {}
                                   ELSE IF k = key THEN data \cup recovered
                                   ELSE setData[k]]
    BY DEF Ingest, key, meta, data, code, recovered, gone
  <2> QED BY <1>4, <1>5, <2>1 DEF IInv, TypeOK
<1>14. setCode' \in [Keys -> SUBSET (0 .. NumCoding - 1)]
  <2>1. setCode' = [k \in Keys |-> IF k[1] \in gone THEN {}
                                   ELSE IF k = key THEN code ELSE setCode[k]]
    BY DEF Ingest, key, code, gone
  <2> QED BY <1>6, <2>1 DEF IInv, TypeOK
<1>15. setMeta' \in [Keys -> {"none", "ok", "alien"}]
  <2>1. setMeta' = [k \in Keys |-> IF k[1] \in gone THEN "none"
                                   ELSE IF k = key THEN meta ELSE setMeta[k]]
    BY DEF Ingest, key, meta, gone
  <2> QED BY <1>2, <2>1 DEF IInv, TypeOK
<1>16. buf' = [t \in Slots |-> IF t \in gone THEN {}
                               ELSE IF t = s.slot THEN D \ Consumed(ready) ELSE buf[t]]
  BY DEF Ingest, key, meta, data, code, recovered, new, D, E, ready, gone
<1>17. ends' = [t \in Slots |-> IF t \in gone THEN {}
                                ELSE IF t = s.slot THEN E ELSE ends[t]]
  BY DEF Ingest, key, meta, data, code, recovered, E, gone
<1>18. buf' \in [Slots -> SUBSET Index] /\ ends' \in [Slots -> SUBSET Ends]
  BY <1>7, <1>16, <1>17 DEF IInv, TypeOK
<1>19. bh' \in [slot : Nat, end : Nat]
  <2> DEFINE decoded == {b[2] : b \in intact} \ Undecodable
  <2>1. bh' \in OnEntriesDecoded(s.slot, decoded)
    BY DEF Ingest, key, meta, data, code, recovered, new, D, E, ready, intact
  <2>2. decoded \subseteq Nat
    BY <1>10, SizeAssumption DEF intact, Index
  <2>3. s.slot \in Nat
    BY <1>1, SlotsAssumption
  <2> HIDE DEF decoded
  <2> QED BY <2>1, <2>2, <2>3 DEF OnEntriesDecoded, LastHash, IInv, TypeOK
<1>20. times' \in [Slots \X Index -> Nat]
  <2>1. times' = [k \in Slots \X Index |->
                    IF k[1] = s.slot /\ \E b \in intact : b[2] = k[2]
                    THEN times[k] + 1 ELSE times[k]]
    BY DEF Ingest, key, meta, data, code, recovered, new, D, E, ready, intact
  <2> QED BY <2>1 DEF IInv, TypeOK
<1>21. accepted' \in [Slots \X Index -> Nat] /\ rebuilt' \in [Slots \X Index -> Nat]
  <2>1. accepted' = [k \in Slots \X Index |->
          IF k[1] = s.slot /\ k[2] \in IngestData(s) THEN accepted[k] + 1 ELSE accepted[k]]
    BY DEF Ingest
  <2>2. rebuilt' = [k \in Slots \X Index |->
          IF k[1] = s.slot /\ k[2] \in recovered THEN rebuilt[k] + 1 ELSE rebuilt[k]]
    BY DEF Ingest, key, meta, data, code, recovered
  <2> QED BY <2>1, <2>2 DEF IInv, TypeOK
<1>22. known' \subseteq Shreds
  BY DEF Ingest, IInv, TypeOK
<1>23. TypeOK'
  BY <1>11, <1>12, <1>13, <1>14, <1>15, <1>18, <1>19, <1>20, <1>21, <1>22 DEF TypeOK
<1>24. BoundariesObserved'
  <2> SUFFICES ASSUME NEW t \in Slots PROVE buf'[t] \cap Ends \subseteq ends'[t]
    BY DEF BoundariesObserved
  <2> QED BY <1>8, <1>16, <1>17 DEF IInv, BoundariesObserved
<1>25. BlocksAreBatches'
  <2>1. blocks' = blocks \cup
          {[slot |-> s.slot, start |-> b[1], end |-> b[2]] : b \in intact}
    BY DEF Ingest, key, meta, data, code, recovered, new, D, E, ready, intact
  <2>2. intact \subseteq BlocksOf(Ends)
    BY <1>9 DEF intact
  <2> QED BY <1>1, <2>1, <2>2 DEF IInv, BlocksAreBatches, Batches
<1> QED BY <1>23, <1>24, <1>25 DEF IInv

\* Steps that only take a copy off the wire.
LEMMA WireOnlyIInv ==
  ASSUME IInv, NEW s \in Shreds, wire[s] > 0,
         wire' = [wire EXCEPT ![s] = @ - 1],
         UNCHANGED <<seen, setData, setCode, setMeta, buf, ends, bh,
                     blocks, times, accepted, rebuilt, known>>
  PROVE  IInv'
<1>1. wire' \in [Shreds -> Nat]
  <2>1. wire \in [Shreds -> Nat]
    BY DEF IInv, TypeOK
  <2> QED BY <2>1
<1>2. TypeOK'
  BY <1>1 DEF IInv, TypeOK
<1> QED BY <1>2 DEF IInv, BoundariesObserved, BlocksAreBatches

\* So does every other arrival, duplicate or loss.
LEMMA NextIInv == IInv /\ [Next]_vars => IInv'
<1> SUFFICES ASSUME IInv, [Next]_vars PROVE IInv'
  OBVIOUS
<1>1. ASSUME NEW s \in Shreds, Duplicate(s) PROVE IInv'
  BY <1>1, WireOnlyIInv DEF Duplicate
<1>2. ASSUME NEW s \in Shreds, Ingest(s) PROVE IInv'
  BY <1>2, IngestIInv
<1>3. ASSUME NEW s \in Shreds, Lose(s) PROVE IInv'
  BY <1>3, WireOnlyIInv DEF Lose
<1>4. CASE UNCHANGED vars
  BY <1>4 DEF vars, IInv, TypeOK, BoundariesObserved, BlocksAreBatches
<1> QED BY <1>1, <1>2, <1>3, <1>4 DEF Next

\* The inductive invariant of the assembler holds in every reachable state.
THEOREM IInvHolds == Spec => []IInv
  BY InitIInv, NextIInv, PTL DEF Spec

\* The state of the deduper, the FEC sets, the slot buffers and the derived
\* blockhash stays in its type, whatever arrives in whatever order.
THEOREM TypeCorrect == Spec => []TypeOK
<1>1. IInv => TypeOK
  BY DEF IInv
<1> QED BY <1>1, IInvHolds, PTL

\* Every block emit_ready_blocks pushes is exactly one entry batch of the
\* leader, for every block layout and every loss, order and duplication.
THEOREM EmittedBlocksAreBatches == Spec => []BlocksAreBatches
<1>1. IInv => BlocksAreBatches
  BY DEF IInv
<1> QED BY <1>1, IInvHolds, PTL

-----------------------------------------------------------------------------
(* The values one ingested shred produces, by name: what its FEC set holds   *)
(* after it, what it recovers, what the slot buffer and its boundaries hold  *)
(* before blocks are taken out, and the blocks that are.                     *)

KeyOf(s) == <<s.slot, s.fec>>
MetaOf(s) == ObserveMeta(setMeta[KeyOf(s)], s)
DataOf(s) == setData[KeyOf(s)] \cup IngestData(s)
CodeOf(s) == setCode[KeyOf(s)] \cup (IF s.kind = "code" THEN {s.n} ELSE {})
RecoveredOf(s) == Recover(s.slot, s.fec, MetaOf(s), DataOf(s), CodeOf(s))
BufferOf(s) == buf[s.slot] \cup IngestData(s) \cup RecoveredOf(s)
EndsOf(s) == ends[s.slot] \cup Boundaries(IngestData(s), RecoveredOf(s))
ReadyOf(s) == Ready(BufferOf(s), EndsOf(s))
EmittedOf(s) == {b \in ReadyOf(s) : b[2] \notin Malformed}
DecodedOf(s) == {b[2] : b \in EmittedOf(s)} \ Undecodable

\* What ingest writes, in terms of those values.
LEMMA IngestWrites ==
  ASSUME NEW s \in Shreds, Ingest(s)
  PROVE  /\ setData' = [k \in Keys |-> IF k[1] \in Pruned(s.slot) THEN {}
                                       ELSE IF k = KeyOf(s) THEN DataOf(s) \cup RecoveredOf(s)
                                       ELSE setData[k]]
         /\ setCode' = [k \in Keys |-> IF k[1] \in Pruned(s.slot) THEN {}
                                       ELSE IF k = KeyOf(s) THEN CodeOf(s) ELSE setCode[k]]
         /\ setMeta' = [k \in Keys |-> IF k[1] \in Pruned(s.slot) THEN "none"
                                       ELSE IF k = KeyOf(s) THEN MetaOf(s) ELSE setMeta[k]]
         /\ buf' = [t \in Slots |-> IF t \in Pruned(s.slot) THEN {}
                                    ELSE IF t = s.slot THEN BufferOf(s) \ Consumed(ReadyOf(s))
                                    ELSE buf[t]]
         /\ ends' = [t \in Slots |-> IF t \in Pruned(s.slot) THEN {}
                                     ELSE IF t = s.slot THEN EndsOf(s) ELSE ends[t]]
         /\ blocks' = blocks \cup
              {[slot |-> s.slot, start |-> b[1], end |-> b[2]] : b \in EmittedOf(s)}
         /\ times' = [k \in Slots \X Index |->
                        IF k[1] = s.slot /\ \E b \in EmittedOf(s) : b[2] = k[2]
                        THEN times[k] + 1 ELSE times[k]]
         /\ bh' \in OnEntriesDecoded(s.slot, DecodedOf(s))
         /\ accepted' = [k \in Slots \X Index |->
              IF k[1] = s.slot /\ k[2] \in IngestData(s)
              THEN accepted[k] + 1 ELSE accepted[k]]
         /\ rebuilt' = [k \in Slots \X Index |->
              IF k[1] = s.slot /\ k[2] \in RecoveredOf(s)
              THEN rebuilt[k] + 1 ELSE rebuilt[k]]
         /\ known' = {t \in known : t.slot \notin Pruned(s.slot)} \cup {s}
<1>1. BufferOf(s) = buf[s.slot] \cup (IngestData(s) \cup RecoveredOf(s))
  BY DEF BufferOf
<1> QED BY <1>1 DEF Ingest, KeyOf, MetaOf, DataOf, CodeOf, RecoveredOf, EndsOf,
                     ReadyOf, EmittedOf, DecodedOf

\* prune_old_slots never prunes the slot of the shred that triggers it.
LEMMA OwnSlotIsKept ==
  ASSUME NEW s \in Shreds
  PROVE  s.slot \notin Pruned(s.slot)
<1>1. s.slot \in Nat
  BY ShredFields, SlotsAssumption
<1> QED BY <1>1, SizeAssumption DEF Pruned

\* The blocks a step takes out of a buffer are batches of the leader, and the
\* buffer and boundaries they are looked for in are typed.
LEMMA StepBlocks ==
  ASSUME IInv, NEW s \in Shreds
  PROVE  /\ BufferOf(s) \in SUBSET Index
         /\ EndsOf(s) \in SUBSET Ends
         /\ RecoveredOf(s) \subseteq Index
         /\ ReadyOf(s) \subseteq BlocksOf(Ends)
         /\ BufferOf(s) \cap Ends \subseteq EndsOf(s)
         /\ EmittedOf(s) \subseteq ReadyOf(s)
         /\ DecodedOf(s) \subseteq Index \ Undecodable
<1>1. s.slot \in Slots /\ IngestData(s) \subseteq Index
  BY ShredFields DEF IngestData
<1>2. RecoveredOf(s) \subseteq Index
  BY RecoverIsData DEF RecoveredOf
<1>3. BufferOf(s) \in SUBSET Index /\ EndsOf(s) \in SUBSET Ends
  BY <1>1, <1>2 DEF IInv, TypeOK, BufferOf, EndsOf, Boundaries
<1>4. BufferOf(s) \cap Ends \subseteq EndsOf(s)
  BY <1>1 DEF IInv, BoundariesObserved, BufferOf, EndsOf, Boundaries
<1>5. ReadyOf(s) \subseteq BlocksOf(Ends)
  BY <1>3, <1>4, ReadyIsBatch DEF ReadyOf
<1>6. DecodedOf(s) \subseteq Index \ Undecodable
  BY <1>5 DEF DecodedOf, EmittedOf, BlocksOf
<1> QED BY <1>2, <1>3, <1>4, <1>5, <1>6 DEF EmittedOf

\* Two blocks of one set of boundaries that share an index are the same block.
LEMMA BlocksAreDisjoint ==
  ASSUME NEW E, NEW a \in BlocksOf(E), NEW b \in BlocksOf(E), NEW i \in Nat,
         i \in a[1] .. a[2], i \in b[1] .. b[2]
  PROVE  a = b
<1>1. /\ a \in Index \X Index /\ IsBlock(E, a[1], a[2])
      /\ b \in Index \X Index /\ IsBlock(E, b[1], b[2])
  BY DEF BlocksOf
<1>2. a[1] \in Nat /\ a[2] \in Nat /\ b[1] \in Nat /\ b[2] \in Nat
  BY <1>1, SizeAssumption DEF Index
<1>3. a[2] = b[2]
  BY <1>1, <1>2 DEF IsBlock
<1>4. ~(a[1] < b[1]) /\ ~(b[1] < a[1])
  BY <1>1, <1>2, <1>3 DEF IsBlock
<1> QED BY <1>1, <1>2, <1>3, <1>4

\* So are two batches of the leader.
LEMMA BatchesAreDisjoint ==
  ASSUME NEW a \in BlocksOf(Ends), NEW b \in BlocksOf(Ends), NEW i \in Index,
         i \in a[1] .. a[2], i \in b[1] .. b[2]
  PROVE  a = b
BY BlocksAreDisjoint, SizeAssumption DEF Index

-----------------------------------------------------------------------------
(* The derived blockhash *)

\* The hash is of the last batch of the shred just ingested when its slot is
\* at least that of the hash before; an older slot leaves it
\* (on_entries_decoded).
LEMMA IngestHash ==
  ASSUME IInv, BlockhashOfNewestSlot, NEW s \in Shreds, Ingest(s)
  PROVE  BlockhashOfNewestSlot'
<1> DEFINE new == {[slot |-> s.slot, start |-> b[1], end |-> b[2]] : b \in EmittedOf(s)}
           dec == {b \in blocks : b.end \notin Undecodable}
           dec2 == {b \in blocks' : b.end \notin Undecodable}
<1>1. blocks' = blocks \cup new /\ bh' \in OnEntriesDecoded(s.slot, DecodedOf(s))
  BY IngestWrites
<1>2. s.slot \in Nat /\ bh.slot \in Nat
  BY ShredFields, SlotsAssumption DEF IInv, TypeOK
<1>3. \A b \in dec : b.slot <= bh.slot /\ b.slot \in Nat
  <2>1. \A b \in dec : b.slot <= bh.slot
    BY DEF BlockhashOfNewestSlot
  <2>2. \A b \in blocks : b.slot \in Slots
    BY DEF IInv, BlocksAreBatches, Batches
  <2> QED BY <2>1, <2>2, SlotsAssumption
<1>4. \A b \in dec2 : b \in dec \/ (b.slot = s.slot /\ b.end \in DecodedOf(s))
  BY <1>1 DEF DecodedOf
<1>5. \A e \in DecodedOf(s) : \E b \in dec2 : b.slot = s.slot /\ b.end = e
  <2> SUFFICES ASSUME NEW e \in DecodedOf(s)
               PROVE  \E b \in dec2 : b.slot = s.slot /\ b.end = e
    OBVIOUS
  <2>1. PICK b \in EmittedOf(s) : b[2] = e /\ e \notin Undecodable
    BY DEF DecodedOf
  <2>2. [slot |-> s.slot, start |-> b[1], end |-> b[2]] \in new
    OBVIOUS
  <2> QED BY <1>1, <2>1, <2>2
<1>6. CASE DecodedOf(s) # {} /\ s.slot >= bh.slot
  <2>1. bh'.slot = s.slot /\ bh'.end \in DecodedOf(s)
    BY <1>1, <1>6 DEF OnEntriesDecoded, LastHash
  <2>2. \A b \in dec2 : b.slot <= bh'.slot
    BY <1>2, <1>3, <1>4, <1>6, <2>1
  <2> QED BY <1>5, <2>1, <2>2 DEF BlockhashOfNewestSlot
<1>7. CASE ~(DecodedOf(s) # {} /\ s.slot >= bh.slot)
  <2>1. bh' = bh
    BY <1>1, <1>7 DEF OnEntriesDecoded
  <2>2. \A b \in dec2 : b.slot <= bh.slot
    BY <1>2, <1>3, <1>4, <1>7
  <2>3. bh # NoHash => \E b \in dec2 : b.slot = bh.slot /\ b.end = bh.end
    BY <1>1 DEF BlockhashOfNewestSlot
  <2>4. NoHash' = NoHash
    BY DEF NoHash
  <2> QED BY <2>1, <2>2, <2>3, <2>4 DEF BlockhashOfNewestSlot
<1> QED BY <1>6, <1>7

\* Only ingest touches the hash and the blocks.
LEMMA NextHash == IInv /\ BlockhashOfNewestSlot /\ [Next]_vars => BlockhashOfNewestSlot'
<1> SUFFICES ASSUME IInv, BlockhashOfNewestSlot, [Next]_vars PROVE BlockhashOfNewestSlot'
  OBVIOUS
<1>1. ASSUME NEW s \in Shreds, Ingest(s) PROVE BlockhashOfNewestSlot'
  BY <1>1, IngestHash
<1>2. ASSUME UNCHANGED <<blocks, bh>> PROVE BlockhashOfNewestSlot'
  BY <1>2 DEF BlockhashOfNewestSlot, NoHash
<1> QED BY <1>1, <1>2 DEF Next, vars, Duplicate, Lose

\* The derived blockhash is that of a decoded batch of the newest slot any
\* batch was decoded of, for any order of arrival (on_entries_decoded).
THEOREM HashIsNewest == Spec => []BlockhashOfNewestSlot
<1>1. Init => BlockhashOfNewestSlot
  BY DEF Init, BlockhashOfNewestSlot
<1> QED BY <1>1, IInvHolds, NextHash, PTL DEF Spec

-----------------------------------------------------------------------------
(* Replays *)

\* Inductive form: a shred that is in the buffer was learnt once more than its
\* batch was emitted.
LearntOftenEnough(sl, e, i) ==
  times[<<sl, e>>] + (IF i \in buf[sl] THEN 1 ELSE 0)
    <= accepted[<<sl, i>>] + rebuilt[<<sl, i>>]

ReplayInv == \A sl \in Slots : \A b \in BlocksOf(Ends) : \A i \in b[1] .. b[2] :
               LearntOftenEnough(sl, b[2], i)

\* The indexes of a batch are data indexes.
LEMMA BatchIndexes ==
  ASSUME NEW b \in BlocksOf(Ends)
  PROVE  /\ b[1] \in Index /\ b[2] \in Index
         /\ b[1] <= b[2]
         /\ b[1] .. b[2] \subseteq Index
         /\ b[2] \in b[1] .. b[2]
<1>1. b[1] \in Index /\ b[2] \in Index /\ b[1] <= b[2]
  BY DEF BlocksOf, IsBlock
<1> QED BY <1>1, SizeAssumption DEF Index

\* A shred ingested, a block emitted: every index of the block leaves the
\* buffer, so the emission is paid with one learning of each.
LEMMA IngestReplay ==
  ASSUME IInv, ReplayInv, NEW s \in Shreds, Ingest(s)
  PROVE  ReplayInv'
<1> SUFFICES ASSUME NEW sl \in Slots, NEW b \in BlocksOf(Ends), NEW i \in b[1] .. b[2]
             PROVE  LearntOftenEnough(sl, b[2], i)'
  BY DEF ReplayInv
<1>1. i \in Index /\ b[2] \in Index /\ b[2] \in b[1] .. b[2]
  BY BatchIndexes
<1> DEFINE ke == <<sl, b[2]>>
           ki == <<sl, i>>
<1>2. ke \in Slots \X Index /\ ki \in Slots \X Index /\ ke[1] = sl /\ ke[2] = b[2]
      /\ ki[1] = sl /\ ki[2] = i
  BY <1>1
<1>3. times[ke] \in Nat /\ accepted[ki] \in Nat /\ rebuilt[ki] \in Nat
  BY <1>2 DEF IInv, TypeOK
<1>4. times[ke] + (IF i \in buf[sl] THEN 1 ELSE 0) <= accepted[ki] + rebuilt[ki]
  BY DEF ReplayInv, LearntOftenEnough
<1>5. times'[ke] = IF sl = s.slot /\ \E c \in EmittedOf(s) : c[2] = b[2]
                   THEN times[ke] + 1 ELSE times[ke]
  BY <1>2, IngestWrites
<1>6. accepted'[ki] = IF sl = s.slot /\ i \in IngestData(s)
                      THEN accepted[ki] + 1 ELSE accepted[ki]
  BY <1>2, IngestWrites
<1>7. rebuilt'[ki] = IF sl = s.slot /\ i \in RecoveredOf(s)
                     THEN rebuilt[ki] + 1 ELSE rebuilt[ki]
  BY <1>2, IngestWrites
<1>8. buf'[sl] = IF sl \in Pruned(s.slot) THEN {}
                 ELSE IF sl = s.slot THEN BufferOf(s) \ Consumed(ReadyOf(s)) ELSE buf[sl]
  <2>1. buf' = [t \in Slots |-> IF t \in Pruned(s.slot) THEN {}
                                ELSE IF t = s.slot THEN BufferOf(s) \ Consumed(ReadyOf(s))
                                ELSE buf[t]]
    BY IngestWrites
  <2> QED BY <2>1
<1> HIDE DEF ke, ki
<1>9. CASE sl # s.slot
  BY <1>3, <1>4, <1>5, <1>6, <1>7, <1>8, <1>9 DEF LearntOftenEnough, ke, ki
<1>10. CASE sl = s.slot
  <2>1. sl \notin Pruned(s.slot)
    BY <1>10, OwnSlotIsKept
  <2>2. i \in BufferOf(s) =>
          times[ke] + 1 <= accepted'[ki] + rebuilt'[ki]
    BY <1>3, <1>4, <1>6, <1>7, <1>10 DEF BufferOf
  <2>3. times[ke] <= accepted'[ki] + rebuilt'[ki]
    BY <1>3, <1>4, <1>6, <1>7
  <2>4. CASE \E c \in EmittedOf(s) : c[2] = b[2]
    <3>1. PICK c \in EmittedOf(s) : c[2] = b[2]
      BY <2>4
    <3>2. c \in ReadyOf(s) /\ c \in BlocksOf(Ends)
      BY StepBlocks
    <3>3. c = b
      <4>1. b[2] \in c[1] .. c[2]
        BY <3>1, <3>2, BatchIndexes
      <4> QED BY <1>1, <3>2, <4>1, BatchesAreDisjoint
    <3>4. i \in BufferOf(s) /\ i \in Consumed(ReadyOf(s))
      BY <3>2, <3>3 DEF ReadyOf, Ready, Consumed
    <3>5. i \notin buf'[sl]
      BY <1>8, <1>10, <2>1, <3>4
    <3>6. times'[ke] = times[ke] + 1
      BY <1>5, <1>10, <2>4
    <3> QED BY <1>3, <2>2, <3>4, <3>5, <3>6 DEF LearntOftenEnough, ke, ki
  <2>5. CASE ~\E c \in EmittedOf(s) : c[2] = b[2]
    <3>1. times'[ke] = times[ke]
      BY <1>5, <2>5
    <3>2. i \in buf'[sl] => i \in BufferOf(s)
      BY <1>8, <1>10, <2>1
    <3> QED BY <1>3, <2>2, <2>3, <3>1, <3>2 DEF LearntOftenEnough, ke, ki
  <2> QED BY <2>4, <2>5
<1> QED BY <1>9, <1>10

\* Lost and duplicate shreds change neither the counts nor the buffers.
LEMMA NextReplay == IInv /\ ReplayInv /\ [Next]_vars => ReplayInv'
<1> SUFFICES ASSUME IInv, ReplayInv, [Next]_vars PROVE ReplayInv'
  OBVIOUS
<1>1. ASSUME NEW s \in Shreds, Ingest(s) PROVE ReplayInv'
  BY <1>1, IngestReplay
<1>2. ASSUME UNCHANGED <<times, buf, accepted, rebuilt>> PROVE ReplayInv'
  BY <1>2 DEF ReplayInv, LearntOftenEnough
<1> QED BY <1>1, <1>2 DEF Next, vars, Duplicate, Lose

\* A batch is emitted again only when each of its shreds was learnt again, for
\* any geometry, dedup capacity and number of copies (Deduper::accept,
\* emit_ready_blocks).
THEOREM ReplaysNeedEveryShred == Spec => []ReplayNeedsEveryShredAgain
<1>1. Init => ReplayInv
  <2> SUFFICES ASSUME Init, NEW sl \in Slots, NEW b \in BlocksOf(Ends),
                      NEW i \in b[1] .. b[2]
               PROVE  LearntOftenEnough(sl, b[2], i)
    BY DEF ReplayInv
  <2>1. i \in Index /\ b[2] \in Index
    BY BatchIndexes
  <2> QED BY <2>1 DEF Init, LearntOftenEnough
<1>2. IInv /\ ReplayInv => ReplayNeedsEveryShredAgain
  <2> SUFFICES ASSUME IInv, ReplayInv, NEW sl \in Slots, NEW b \in BlocksOf(Ends),
                      NEW i \in b[1] .. b[2]
               PROVE  times[<<sl, b[2]>>] <= accepted[<<sl, i>>] + rebuilt[<<sl, i>>]
    BY DEF ReplayNeedsEveryShredAgain, Batches
  <2>1. i \in Index /\ b[2] \in Index
    BY BatchIndexes
  <2>2. /\ times[<<sl, b[2]>>] \in Nat
        /\ accepted[<<sl, i>>] \in Nat /\ rebuilt[<<sl, i>>] \in Nat
    BY <2>1 DEF IInv, TypeOK
  <2>3. LearntOftenEnough(sl, b[2], i)
    BY DEF ReplayInv
  <2> QED BY <2>2, <2>3 DEF LearntOftenEnough
<1> QED BY <1>1, <1>2, IInvHolds, NextReplay, PTL DEF Spec

-----------------------------------------------------------------------------
(* Delivery: what can be known of a batch has been emitted.                  *)

DataShred(k, i) == [slot |-> k[1], kind |-> "data", fec |-> k[2], n |-> i]
CodeShred(k, p) == [slot |-> k[1], kind |-> "code", fec |-> k[2], n |-> p]

KnownData(k) == {i \in Index : DataShred(k, i) \in known}
KnownCode(k) == {p \in 0 .. NumCoding - 1 : CodeShred(k, p) \in known}

\* Every coding header at the positions c of set k has the leader's geometry.
HeadersAgree(k, c) == \A p \in c : Headers[CodeShred(k, p)] = "ok"

\* A FEC set holds every shred known of it, and nothing else but recovered ones.
SetsHoldKnown == \A k \in Keys : /\ KnownData(k) \subseteq setData[k]
                                 /\ setData[k] \subseteq DataIn(k[2])
                                 /\ setCode[k] = KnownCode(k)

\* The header kept is the leader's when all the headers are.
MetaOfHeaders == \A k \in Keys :
                   /\ setCode[k] = {} => setMeta[k] = "none"
                   /\ (setCode[k] # {} /\ HeadersAgree(k, setCode[k])) => setMeta[k] = "ok"

\* A set with enough shreds is complete: maybe_recover has run on it.
SetsComplete == \A k \in Keys :
                  (/\ HeadersAgree(k, setCode[k])
                   /\ Cardinality(setData[k]) + Cardinality(setCode[k])
                        >= Cardinality(DataIn(k[2])))
                    => setData[k] = DataIn(k[2])

\* A data shred that is in its set is in the buffer or went out with its batch.
AccountedFor(sl, i) ==
  \/ i \in buf[sl]
  \/ \E b \in BlocksOf(Ends) :
       /\ i \in b[1] .. b[2]
       /\ b[2] \in Malformed \/ [slot |-> sl, start |-> b[1], end |-> b[2]] \in blocks

ShredsAccountedFor == \A k \in Keys : \A i \in setData[k] :
                        /\ AccountedFor(k[1], i)
                        /\ i \in Ends => i \in ends[k[1]]

\* The loop of emit_ready_blocks leaves no complete block behind.
NothingReady == \A sl \in Slots : Ready(buf[sl], ends[sl]) = {}

DeliverInv == /\ SetsHoldKnown
              /\ MetaOfHeaders
              /\ SetsComplete
              /\ ShredsAccountedFor
              /\ NothingReady

\* The data shreds of a FEC set and the positions of its coding shreds are
\* finitely many.
LEMMA FiniteSets ==
  ASSUME NEW f
  PROVE  /\ IsFiniteSet(Index)
         /\ IsFiniteSet(DataIn(f))
         /\ IsFiniteSet(0 .. NumCoding - 1)
<1>1. IsFiniteSet(Index)
  BY SizeAssumption, FS_Interval DEF Index
<1>2. IsFiniteSet(DataIn(f))
  BY <1>1, FS_Subset DEF DataIn
<1>3. IsFiniteSet(0 .. NumCoding - 1)
  BY SizeAssumption, FS_Interval
<1> QED BY <1>1, <1>2, <1>3

\* Reed-Solomon completes a set with enough shreds: after maybe_recover it has
\* all its data shreds, or too few shreds in all.
LEMMA RecoveryCompletes ==
  ASSUME NEW slot, NEW f, NEW meta, NEW d \in SUBSET DataIn(f),
         NEW c \in SUBSET (0 .. NumCoding - 1),
         HeadersAgree(<<slot, f>>, c),
         c # {} => meta = "ok",
         Cardinality(d \cup Recover(slot, f, meta, d, c)) + Cardinality(c)
           >= Cardinality(DataIn(f))
  PROVE  d \cup Recover(slot, f, meta, d, c) = DataIn(f)
<1> DEFINE R == Recover(slot, f, meta, d, c)
           n == Cardinality(DataIn(f))
<1>1. R = {} \/ R = DataIn(f) \ d
  BY DEF Recover
<1>2. CASE R = DataIn(f) \ d
  BY <1>2
<1>3. CASE R = {}
  <2>1. IsFiniteSet(d) /\ IsFiniteSet(c) /\ IsFiniteSet(DataIn(f))
    BY FiniteSets, FS_Subset
  <2>2. Cardinality(d) \in Nat /\ Cardinality(c) \in Nat /\ n \in Nat
    BY <2>1, FS_CardinalityType
  <2>3. Cardinality(d) <= n /\ (Cardinality(d) = n => d = DataIn(f))
    BY <2>1, FS_Subset
  <2>4. Cardinality(d) + Cardinality(c) >= n
    <3>1. d \cup R = d
      BY <1>3
    <3> QED BY <3>1
  <2>5. CASE c = {}
    <3>1. Cardinality(c) = 0
      BY <2>5, FS_EmptySet
    <3> QED BY <1>3, <2>2, <2>3, <2>4, <3>1
  <2>6. CASE c # {} /\ Cardinality(d) < n
    <3>1. meta = "ok"
      BY <2>6
    <3>2. NumDataOf(f, meta) = n
      BY <3>1 DEF NumDataOf
    <3>3. CanAttemptRecovery(f, meta, d, c)
      BY <2>4, <2>6, <3>1, <3>2 DEF CanAttemptRecovery
    <3>4. \A p \in c : Headers[[slot |-> slot, kind |-> "code", fec |-> f, n |-> p]] = "ok"
      BY DEF HeadersAgree, CodeShred
    <3>5. R = DataIn(f) \ d
      BY <3>1, <3>3, <3>4 DEF Recover
    <3> QED BY <3>5
  <2>7. CASE ~(Cardinality(d) < n)
    BY <1>3, <2>2, <2>3, <2>7
  <2> QED BY <2>5, <2>6, <2>7
<1> QED BY <1>1, <1>2, <1>3

\* A data shred belongs to the set of its index; a shred is its four fields.
LEMMA ShredIsItsFields ==
  ASSUME NEW s \in Shreds
  PROVE  /\ KeyOf(s) \in Keys /\ KeyOf(s)[1] = s.slot /\ KeyOf(s)[2] = s.fec
         /\ s.kind = "data" => /\ s = DataShred(KeyOf(s), s.n)
                               /\ s.n \in DataIn(s.fec)
         /\ s.kind # "data" => /\ s = CodeShred(KeyOf(s), s.n)
                               /\ s.kind = "code"
                               /\ s.n \in 0 .. NumCoding - 1
                               /\ Headers[s] \in {"ok", "alien", "invalid"}
<1>1. CASE s \in DataShreds
  BY <1>1, ShredFields DEF DataShreds, KeyOf, Keys, DataShred, DataIn
<1>2. CASE s \in CodeShreds
  BY <1>2, ShredFields, WireAssumption DEF CodeShreds, KeyOf, Keys, CodeShred
<1> QED BY <1>1, <1>2 DEF Shreds

\* What a step does to one set: a pruned one is emptied, the one of the shred
\* grows, the others stay.
LEMMA IngestOneSet ==
  ASSUME NEW s \in Shreds, Ingest(s), NEW k \in Keys
  PROVE  /\ k[1] \in Pruned(s.slot) =>
              /\ k # KeyOf(s)
              /\ setData'[k] = {} /\ setCode'[k] = {} /\ setMeta'[k] = "none"
         /\ k = KeyOf(s) =>
              /\ setData'[k] = DataOf(s) \cup RecoveredOf(s)
              /\ setCode'[k] = CodeOf(s)
              /\ setMeta'[k] = MetaOf(s)
         /\ (k[1] \notin Pruned(s.slot) /\ k # KeyOf(s)) =>
              setData'[k] = setData[k] /\ setCode'[k] = setCode[k] /\ setMeta'[k] = setMeta[k]
<1>1. setData' = [q \in Keys |-> IF q[1] \in Pruned(s.slot) THEN {}
                                 ELSE IF q = KeyOf(s) THEN DataOf(s) \cup RecoveredOf(s)
                                 ELSE setData[q]]
  BY IngestWrites
<1>2. setCode' = [q \in Keys |-> IF q[1] \in Pruned(s.slot) THEN {}
                                 ELSE IF q = KeyOf(s) THEN CodeOf(s) ELSE setCode[q]]
  BY IngestWrites
<1>3. setMeta' = [q \in Keys |-> IF q[1] \in Pruned(s.slot) THEN "none"
                                 ELSE IF q = KeyOf(s) THEN MetaOf(s) ELSE setMeta[q]]
  BY IngestWrites
<1>4. KeyOf(s)[1] \notin Pruned(s.slot)
  BY OwnSlotIsKept, ShredIsItsFields
<1> QED BY <1>1, <1>2, <1>3, <1>4

\* The slots of the shreds known of a set, and which are known after a step.
LEMMA IngestKnown ==
  ASSUME NEW s \in Shreds, Ingest(s), NEW k \in Keys
  PROVE  /\ k[1] \in Pruned(s.slot) => KnownData(k)' = {} /\ KnownCode(k)' = {}
         /\ k = KeyOf(s) => /\ KnownData(k)' = KnownData(k) \cup IngestData(s)
                            /\ KnownCode(k)' = KnownCode(k) \cup
                                 (IF s.kind = "code" THEN {s.n} ELSE {})
         /\ (k[1] \notin Pruned(s.slot) /\ k # KeyOf(s)) =>
              KnownData(k)' = KnownData(k) /\ KnownCode(k)' = KnownCode(k)
<1>1. known' = {t \in known : t.slot \notin Pruned(s.slot)} \cup {s}
  BY IngestWrites
<1>2. s.slot \notin Pruned(s.slot)
  BY OwnSlotIsKept
<1>3. \A x : /\ DataShred(k, x).slot = k[1] /\ DataShred(k, x).fec = k[2]
             /\ DataShred(k, x).n = x /\ DataShred(k, x).kind = "data"
             /\ CodeShred(k, x).slot = k[1] /\ CodeShred(k, x).fec = k[2]
             /\ CodeShred(k, x).n = x /\ CodeShred(k, x).kind = "code"
  BY DEF DataShred, CodeShred
<1>4. \A x : /\ DataShred(k, x) = s <=> k = KeyOf(s) /\ s.kind = "data" /\ x = s.n
             /\ CodeShred(k, x) = s <=> k = KeyOf(s) /\ s.kind = "code" /\ x = s.n
  <2>1. k = <<k[1], k[2]>>
    BY DEF Keys
  <2>2. /\ s.kind = "data" => s = DataShred(KeyOf(s), s.n)
        /\ s.kind # "data" => s = CodeShred(KeyOf(s), s.n) /\ s.kind = "code"
    BY ShredIsItsFields
  <2> QED BY <1>3, <2>1, <2>2 DEF KeyOf
<1>5. \A x : /\ DataShred(k, x) \in known' <=>
                  \/ DataShred(k, x) \in known /\ k[1] \notin Pruned(s.slot)
                  \/ k = KeyOf(s) /\ s.kind = "data" /\ x = s.n
             /\ CodeShred(k, x) \in known' <=>
                  \/ CodeShred(k, x) \in known /\ k[1] \notin Pruned(s.slot)
                  \/ k = KeyOf(s) /\ s.kind = "code" /\ x = s.n
  BY <1>1, <1>3, <1>4
<1>6. KeyOf(s)[1] = s.slot
  BY ShredIsItsFields
<1>7. s.kind = "data" => s.n \in Index
  BY ShredFields
<1>8. s.kind = "code" => s.n \in 0 .. NumCoding - 1
  BY ShredFields
<1>9. /\ KnownData(k)' = {i \in Index : DataShred(k, i) \in known'}
      /\ KnownCode(k)' = {p \in 0 .. NumCoding - 1 : CodeShred(k, p) \in known'}
  BY DEF KnownData, KnownCode, DataShred, CodeShred
<1>10. CASE k[1] \in Pruned(s.slot)
  BY <1>2, <1>5, <1>6, <1>9, <1>10
<1>11. CASE k = KeyOf(s)
  <2>1. k[1] \notin Pruned(s.slot)
    BY <1>2, <1>6, <1>11
  <2>2. KnownData(k)' = KnownData(k) \cup IngestData(s)
    BY <1>5, <1>7, <1>9, <1>11, <2>1 DEF KnownData, IngestData
  <2>3. KnownCode(k)' = KnownCode(k) \cup (IF s.kind = "code" THEN {s.n} ELSE {})
    BY <1>5, <1>8, <1>9, <1>11, <2>1 DEF KnownCode
  <2> QED BY <1>11, <2>1, <2>2, <2>3
<1>12. CASE k[1] \notin Pruned(s.slot) /\ k # KeyOf(s)
  BY <1>5, <1>9, <1>12 DEF KnownData, KnownCode
<1> QED BY <1>10, <1>11, <1>12

\* After a step every set still holds what is known of it, and only data shreds
\* of its own.
LEMMA IngestHolds ==
  ASSUME IInv, SetsHoldKnown, NEW s \in Shreds, Ingest(s)
  PROVE  SetsHoldKnown'
<1> SUFFICES ASSUME NEW k \in Keys
             PROVE  /\ KnownData(k)' \subseteq setData'[k]
                    /\ setData'[k] \subseteq DataIn(k[2])
                    /\ setCode'[k] = KnownCode(k)'
  BY DEF SetsHoldKnown, DataIn
<1>1. CASE k[1] \in Pruned(s.slot)
  BY <1>1, IngestOneSet, IngestKnown
<1>2. CASE k = KeyOf(s)
  <2>1. IngestData(s) \subseteq DataIn(k[2])
    BY <1>2, ShredIsItsFields DEF IngestData
  <2>2. RecoveredOf(s) \subseteq DataIn(k[2])
    BY <1>2, ShredIsItsFields DEF RecoveredOf, Recover
  <2>3. /\ KnownData(k)' = KnownData(k) \cup IngestData(s)
        /\ KnownCode(k)' = KnownCode(k) \cup (IF s.kind = "code" THEN {s.n} ELSE {})
    BY <1>2, IngestKnown
  <2>4. /\ setData'[k] = DataOf(s) \cup RecoveredOf(s)
        /\ setCode'[k] = CodeOf(s)
    BY <1>2, IngestOneSet
  <2>5. /\ KnownData(k) \subseteq setData[k]
        /\ setData[k] \subseteq DataIn(k[2])
        /\ setCode[k] = KnownCode(k)
    BY DEF SetsHoldKnown
  <2>6. DataOf(s) = setData[k] \cup IngestData(s)
    BY <1>2 DEF DataOf
  <2>7. CodeOf(s) = setCode[k] \cup (IF s.kind = "code" THEN {s.n} ELSE {})
    BY <1>2 DEF CodeOf
  <2>8. KnownData(k)' \subseteq setData'[k] /\ setData'[k] \subseteq DataIn(k[2])
    BY <2>1, <2>2, <2>3, <2>4, <2>5, <2>6
  <2>9. setCode'[k] = KnownCode(k)'
    BY <2>3, <2>4, <2>5, <2>7
  <2> QED BY <2>8, <2>9
<1>3. CASE k[1] \notin Pruned(s.slot) /\ k # KeyOf(s)
  BY <1>3, IngestOneSet, IngestKnown DEF SetsHoldKnown
<1> QED BY <1>1, <1>2, <1>3

\* The first valid header is kept, so it is the leader's when all agree.
LEMMA IngestMeta ==
  ASSUME IInv, MetaOfHeaders, NEW s \in Shreds, Ingest(s)
  PROVE  MetaOfHeaders'
<1> SUFFICES ASSUME NEW k \in Keys
             PROVE  /\ setCode'[k] = {} => setMeta'[k] = "none"
                    /\ (setCode'[k] # {} /\ HeadersAgree(k, setCode'[k])) =>
                         setMeta'[k] = "ok"
  BY DEF MetaOfHeaders, HeadersAgree, CodeShred
<1>0. /\ setCode[k] = {} => setMeta[k] = "none"
      /\ (setCode[k] # {} /\ HeadersAgree(k, setCode[k])) => setMeta[k] = "ok"
  BY DEF MetaOfHeaders
<1>1. CASE k[1] \in Pruned(s.slot)
  BY <1>1, IngestOneSet
<1>2. CASE k = KeyOf(s)
  <2>1. setCode'[k] = CodeOf(s) /\ setMeta'[k] = ObserveMeta(setMeta[k], s)
    BY <1>2, IngestOneSet DEF MetaOf
  <2>2. CASE s.kind = "code"
    <3>1. CodeOf(s) = setCode[k] \cup {s.n} /\ s = CodeShred(k, s.n)
      BY <1>2, <2>2, ShredIsItsFields DEF CodeOf
    <3>2. ASSUME HeadersAgree(k, CodeOf(s)) PROVE setMeta'[k] = "ok"
      <4>1. Headers[s] = "ok"
        BY <3>1, <3>2 DEF HeadersAgree
      <4>2. HeadersAgree(k, setCode[k])
        BY <3>1, <3>2 DEF HeadersAgree
      <4> QED BY <1>0, <2>1, <2>2, <4>1, <4>2 DEF ObserveMeta
    <3> QED BY <2>1, <3>1, <3>2
  <2>3. CASE s.kind # "code"
    BY <1>0, <1>2, <2>1, <2>3 DEF CodeOf, ObserveMeta
  <2> QED BY <2>2, <2>3
<1>3. CASE k[1] \notin Pruned(s.slot) /\ k # KeyOf(s)
  BY <1>0, <1>3, IngestOneSet
<1> QED BY <1>1, <1>2, <1>3

\* maybe_recover runs after every insertion, so a set with enough shreds is
\* never left incomplete.
LEMMA IngestComplete ==
  ASSUME IInv, SetsHoldKnown, MetaOfHeaders, SetsComplete, NEW s \in Shreds, Ingest(s)
  PROVE  SetsComplete'
<1> SUFFICES ASSUME NEW k \in Keys,
                    HeadersAgree(k, setCode'[k]),
                    Cardinality(setData'[k]) + Cardinality(setCode'[k])
                      >= Cardinality(DataIn(k[2]))
             PROVE  setData'[k] = DataIn(k[2])
  BY DEF SetsComplete, HeadersAgree, CodeShred, DataIn
<1>1. setData'[k] \subseteq DataIn(k[2]) /\ setCode'[k] \subseteq 0 .. NumCoding - 1
  BY IngestHolds DEF SetsHoldKnown, KnownCode
<1>2. CASE k[1] \in Pruned(s.slot)
  <2>1. Cardinality(setData'[k]) = 0 /\ Cardinality(setCode'[k]) = 0
    BY <1>2, IngestOneSet, FS_EmptySet
  <2>2. Cardinality(DataIn(k[2])) = 0
    BY <2>1, FiniteSets, FS_CardinalityType
  <2>3. DataIn(k[2]) = {}
    BY <2>2, FiniteSets, FS_EmptySet
  <2> QED BY <1>1, <2>3
<1>3. CASE k = KeyOf(s)
  <2>1. /\ setData'[k] = DataOf(s) \cup RecoveredOf(s)
        /\ setCode'[k] = CodeOf(s) /\ setMeta'[k] = MetaOf(s)
    BY <1>3, IngestOneSet
  <2>2. k = <<s.slot, k[2]>> /\ s.fec = k[2]
    BY <1>3 DEF KeyOf
  <2>3. RecoveredOf(s) = Recover(s.slot, k[2], MetaOf(s), DataOf(s), CodeOf(s))
    BY <2>2 DEF RecoveredOf
  <2>4. CodeOf(s) # {} => MetaOf(s) = "ok"
    BY <2>1, IngestMeta DEF MetaOfHeaders
  <2>5. DataOf(s) \in SUBSET DataIn(k[2]) /\ CodeOf(s) \in SUBSET (0 .. NumCoding - 1)
    BY <1>1, <2>1
  <2>6. HeadersAgree(<<s.slot, k[2]>>, CodeOf(s))
    BY <2>1, <2>2
  <2> QED BY <2>1, <2>3, <2>4, <2>5, <2>6, RecoveryCompletes
<1>4. CASE k[1] \notin Pruned(s.slot) /\ k # KeyOf(s)
  BY <1>4, IngestOneSet DEF SetsComplete
<1> QED BY <1>2, <1>3, <1>4

\* A data shred leaves the buffer only with its batch, and its boundary flag is
\* observed when it enters (insert_data_shred).
LEMMA IngestAccounted ==
  ASSUME IInv, ShredsAccountedFor, NEW s \in Shreds, Ingest(s)
  PROVE  ShredsAccountedFor'
<1> SUFFICES ASSUME NEW k \in Keys, NEW i \in setData'[k]
             PROVE  /\ AccountedFor(k[1], i)'
                    /\ i \in Ends => i \in ends'[k[1]]
  BY DEF ShredsAccountedFor
<1>1. k[1] \in Slots
  BY DEF Keys
<1>2. blocks' = blocks \cup
        {[slot |-> s.slot, start |-> b[1], end |-> b[2]] : b \in EmittedOf(s)}
  BY IngestWrites
<1>3. buf' = [t \in Slots |-> IF t \in Pruned(s.slot) THEN {}
                              ELSE IF t = s.slot THEN BufferOf(s) \ Consumed(ReadyOf(s))
                              ELSE buf[t]]
  BY IngestWrites
<1>4. ends' = [t \in Slots |-> IF t \in Pruned(s.slot) THEN {}
                               ELSE IF t = s.slot THEN EndsOf(s) ELSE ends[t]]
  BY IngestWrites
<1>5. k[1] \notin Pruned(s.slot)
  BY IngestOneSet
<1>6. i \in setData[k] => AccountedFor(k[1], i) /\ (i \in Ends => i \in ends[k[1]])
  BY DEF ShredsAccountedFor
<1>7. CASE k[1] # s.slot
  <2>1. k # KeyOf(s)
    BY <1>7, ShredIsItsFields
  <2>2. i \in setData[k]
    BY <1>5, <2>1, IngestOneSet
  <2> QED BY <1>1, <1>2, <1>3, <1>4, <1>5, <1>6, <1>7, <2>2 DEF AccountedFor
<1>8. CASE k[1] = s.slot
  <2>1. buf'[k[1]] = BufferOf(s) \ Consumed(ReadyOf(s)) /\ ends'[k[1]] = EndsOf(s)
    BY <1>1, <1>3, <1>4, <1>5, <1>8
  <2>2. i \in setData[k] \/ i \in IngestData(s) \cup RecoveredOf(s)
    <3>1. k = KeyOf(s) => setData'[k] = setData[k] \cup IngestData(s) \cup RecoveredOf(s)
      BY IngestOneSet DEF DataOf
    <3> QED BY <1>5, <3>1, IngestOneSet
  <2>3. i \in Ends => i \in EndsOf(s)
    BY <1>6, <1>8, <2>2 DEF EndsOf, Boundaries
  <2>4. i \in BufferOf(s) => AccountedFor(k[1], i)'
    <3>1. CASE i \in BufferOf(s) \ Consumed(ReadyOf(s))
      BY <2>1, <3>1 DEF AccountedFor
    <3>2. CASE i \in Consumed(ReadyOf(s))
      <4>1. PICK b \in ReadyOf(s) : i \in b[1] .. b[2]
        BY <3>2 DEF Consumed
      <4>2. b \in BlocksOf(Ends)
        BY StepBlocks
      <4>3. b[2] \in Malformed \/ [slot |-> k[1], start |-> b[1], end |-> b[2]] \in blocks'
        BY <1>2, <1>8 DEF EmittedOf
      <4> QED BY <4>1, <4>2, <4>3 DEF AccountedFor
    <3> QED BY <3>1, <3>2
  <2>5. AccountedFor(k[1], i) => (i \in BufferOf(s) \/ AccountedFor(k[1], i)')
    BY <1>2, <1>8 DEF AccountedFor, BufferOf
  <2>6. i \in IngestData(s) \cup RecoveredOf(s) => i \in BufferOf(s)
    BY DEF BufferOf
  <2> QED BY <1>6, <2>1, <2>2, <2>3, <2>4, <2>5, <2>6
<1> QED BY <1>7, <1>8

\* Taking all complete blocks out of a buffer leaves none: the loop of
\* emit_ready_blocks need not look again.
LEMMA NoneReadyAfter ==
  ASSUME NEW D, NEW E
  PROVE  Ready(D \ Consumed(Ready(D, E)), E) = {}
<1> SUFFICES ASSUME NEW b \in Ready(D \ Consumed(Ready(D, E)), E) PROVE FALSE
  OBVIOUS
<1>1. b \in Ready(D, E) /\ b[1] .. b[2] \cap Consumed(Ready(D, E)) = {}
  BY DEF Ready
<1>2. b[1] \in b[1] .. b[2]
  BY <1>1, SizeAssumption DEF Ready, BlocksOf, IsBlock, Index
<1> QED BY <1>1, <1>2 DEF Consumed

\* So no slot has a complete block in its buffer between two shreds.
LEMMA IngestNothingReady ==
  ASSUME NothingReady, NEW s \in Shreds, Ingest(s)
  PROVE  NothingReady'
<1> SUFFICES ASSUME NEW sl \in Slots PROVE Ready(buf'[sl], ends'[sl]) = {}
  BY DEF NothingReady, Ready, BlocksOf, IsBlock
<1>1. buf' = [t \in Slots |-> IF t \in Pruned(s.slot) THEN {}
                              ELSE IF t = s.slot THEN BufferOf(s) \ Consumed(ReadyOf(s))
                              ELSE buf[t]]
  BY IngestWrites
<1>2. ends' = [t \in Slots |-> IF t \in Pruned(s.slot) THEN {}
                               ELSE IF t = s.slot THEN EndsOf(s) ELSE ends[t]]
  BY IngestWrites
<1>3. CASE sl \in Pruned(s.slot)
  BY <1>1, <1>2, <1>3 DEF Ready, BlocksOf, IsBlock
<1>4. CASE sl \notin Pruned(s.slot) /\ sl = s.slot
  BY <1>1, <1>2, <1>4, NoneReadyAfter DEF ReadyOf
<1>5. CASE sl \notin Pruned(s.slot) /\ sl # s.slot
  BY <1>1, <1>2, <1>5 DEF NothingReady
<1> QED BY <1>3, <1>4, <1>5

\* Only ingest touches the sets, the buffers and what is known.
LEMMA NextDeliver == IInv /\ DeliverInv /\ [Next]_vars => DeliverInv'
<1> SUFFICES ASSUME IInv, DeliverInv, [Next]_vars PROVE DeliverInv'
  OBVIOUS
<1>1. ASSUME NEW s \in Shreds, Ingest(s) PROVE DeliverInv'
  BY <1>1, IngestHolds, IngestMeta, IngestComplete, IngestAccounted, IngestNothingReady
     DEF DeliverInv
<1>2. ASSUME UNCHANGED <<setData, setCode, setMeta, buf, ends, blocks, known>>
      PROVE  DeliverInv'
  BY <1>2 DEF DeliverInv, SetsHoldKnown, MetaOfHeaders, SetsComplete, ShredsAccountedFor,
              NothingReady, KnownData, KnownCode, HeadersAgree, AccountedFor
<1> QED BY <1>1, <1>2 DEF Next, vars, Duplicate, Lose

\* The assembler starts with empty sets of which nothing is known.
LEMMA InitDeliver == Init => DeliverInv
<1> SUFFICES ASSUME Init PROVE DeliverInv
  OBVIOUS
<1>1. SetsHoldKnown /\ MetaOfHeaders /\ ShredsAccountedFor
  BY DEF Init, SetsHoldKnown, KnownData, KnownCode, MetaOfHeaders, ShredsAccountedFor
<1>2. SetsComplete
  <2> SUFFICES ASSUME NEW k \in Keys,
                      Cardinality(setData[k]) + Cardinality(setCode[k])
                        >= Cardinality(DataIn(k[2]))
               PROVE  setData[k] = DataIn(k[2])
    BY DEF SetsComplete
  <2>1. setData[k] = {} /\ setCode[k] = {}
    BY DEF Init
  <2>2. Cardinality(setData[k]) = 0 /\ Cardinality(setCode[k]) = 0
    BY <2>1, FS_EmptySet
  <2>3. Cardinality(DataIn(k[2])) = 0
    BY <2>2, FiniteSets, FS_CardinalityType
  <2> QED BY <2>1, <2>3, FiniteSets, FS_EmptySet
<1>3. NothingReady
  BY DEF Init, NothingReady, Ready, BlocksOf, IsBlock
<1> QED BY <1>1, <1>2, <1>3 DEF DeliverInv

\* A FEC set of which enough shreds are known holds at least as many: each known
\* one is in it as a data shred or as a coding shred.
LEMMA KnownAreHeld ==
  ASSUME IInv, SetsHoldKnown, NEW k \in Keys
  PROVE  /\ IsFiniteSet(InSet(k[1], k[2]))
         /\ Cardinality(InSet(k[1], k[2])) <= Cardinality(setData[k]) + Cardinality(setCode[k])
<1> DEFINE I == InSet(k[1], k[2])
           Dt == {t \in I : t.kind = "data"}
           Ct == {t \in I : t.kind # "data"}
<1>1. k = <<k[1], k[2]>> /\ I \subseteq known /\ I \subseteq Shreds
  BY DEF Keys, InSet, IInv, TypeOK
<1>2. \A t \in I : KeyOf(t) = k
  BY <1>1 DEF InSet, KeyOf
<1>3. \A t \in Dt : t = DataShred(k, t.n) /\ t.n \in setData[k]
  <2> SUFFICES ASSUME NEW t \in Dt PROVE t = DataShred(k, t.n) /\ t.n \in setData[k]
    OBVIOUS
  <2>1. t = DataShred(k, t.n) /\ t.n \in Index
    BY <1>1, <1>2, ShredIsItsFields DEF DataIn
  <2> QED BY <1>1, <2>1 DEF SetsHoldKnown, KnownData
<1>4. \A t \in Ct : t = CodeShred(k, t.n) /\ t.n \in setCode[k]
  <2> SUFFICES ASSUME NEW t \in Ct PROVE t = CodeShred(k, t.n) /\ t.n \in setCode[k]
    OBVIOUS
  <2>1. t = CodeShred(k, t.n) /\ t.n \in 0 .. NumCoding - 1
    BY <1>1, <1>2, ShredIsItsFields
  <2> QED BY <1>1, <2>1 DEF SetsHoldKnown, KnownCode
<1>5. IsFiniteSet(setData[k]) /\ IsFiniteSet(setCode[k])
  <2>1. setData[k] \subseteq Index /\ setCode[k] \subseteq 0 .. NumCoding - 1
    BY DEF IInv, TypeOK
  <2> QED BY <2>1, FiniteSets, FS_Subset
<1> DEFINE fd == [t \in Dt |-> t.n]
           fc == [t \in Ct |-> t.n]
<1>6. fd \in Injection(Dt, setData[k])
  BY <1>3 DEF Injection, IsInjective
<1>7. fc \in Injection(Ct, setCode[k])
  BY <1>4 DEF Injection, IsInjective
<1>8. IsFiniteSet(Dt) /\ Cardinality(Dt) <= Cardinality(setData[k])
  BY <1>5, <1>6, FS_Injection
<1>9. IsFiniteSet(Ct) /\ Cardinality(Ct) <= Cardinality(setCode[k])
  BY <1>5, <1>7, FS_Injection
<1>10. I = Dt \cup Ct /\ Dt \cap Ct = {}
  OBVIOUS
<1> HIDE DEF I, Dt, Ct, fd, fc
<1>11. /\ IsFiniteSet(I)
       /\ Cardinality(I) = Cardinality(Dt) + Cardinality(Ct) - Cardinality(Dt \cap Ct)
  BY <1>8, <1>9, <1>10, FS_Union
<1>12. Cardinality(Dt \cap Ct) = 0
  BY <1>10, FS_EmptySet
<1>13. /\ Cardinality(Dt) \in Nat /\ Cardinality(Ct) \in Nat
       /\ Cardinality(setData[k]) \in Nat /\ Cardinality(setCode[k]) \in Nat
  BY <1>5, <1>8, <1>9, FS_CardinalityType
<1>14. Cardinality(I) <= Cardinality(setData[k]) + Cardinality(setCode[k])
  BY <1>8, <1>9, <1>11, <1>12, <1>13
<1> QED BY <1>11, <1>14 DEF I

\* A shred that can be known is in its FEC set: it arrived, or Reed-Solomon gave
\* it back.
LEMMA DeterminedIsHeld ==
  ASSUME IInv, DeliverInv, NEW sl \in Slots, NEW i \in Index, Determined(sl, i)
  PROVE  /\ <<sl, FecOf(i)>> \in Keys
         /\ i \in setData[<<sl, FecOf(i)>>]
<1> DEFINE f == FecOf(i)
           k == <<sl, f>>
<1>1. k \in Keys /\ k[1] = sl /\ k[2] = f
  BY DEF Keys, FecSets
<1>2. i \in DataIn(f)
  BY DEF DataIn
<1>3. CASE [slot |-> sl, kind |-> "data", fec |-> f, n |-> i] \in known
  BY <1>1, <1>3 DEF DeliverInv, SetsHoldKnown, KnownData, DataShred
<1>4. CASE /\ Cardinality(InSet(sl, f)) >= Cardinality(DataIn(f))
           /\ \A t \in InSet(sl, f) : t.kind = "code" => Headers[t] = "ok"
  <2>1. Cardinality(InSet(sl, f)) <= Cardinality(setData[k]) + Cardinality(setCode[k])
    BY <1>1, KnownAreHeld DEF DeliverInv
  <2>2. HeadersAgree(k, setCode[k])
    <3> SUFFICES ASSUME NEW p \in setCode[k] PROVE Headers[CodeShred(k, p)] = "ok"
      BY DEF HeadersAgree
    <3>1. CodeShred(k, p) \in known
      BY <1>1 DEF DeliverInv, SetsHoldKnown, KnownCode
    <3>2. CodeShred(k, p) \in InSet(sl, f) /\ CodeShred(k, p).kind = "code"
      BY <1>1, <3>1 DEF InSet, CodeShred
    <3> QED BY <1>4, <3>2
  <2>3. IsFiniteSet(setData[k]) /\ IsFiniteSet(setCode[k]) /\ IsFiniteSet(DataIn(f))
    <3>1. setData[k] \subseteq Index /\ setCode[k] \subseteq 0 .. NumCoding - 1
      BY <1>1 DEF IInv, TypeOK
    <3> QED BY <3>1, FiniteSets, FS_Subset
  <2>4. IsFiniteSet(InSet(sl, f))
    BY <1>1, KnownAreHeld DEF DeliverInv
  <2>5. /\ Cardinality(setData[k]) \in Nat /\ Cardinality(setCode[k]) \in Nat
        /\ Cardinality(DataIn(f)) \in Nat /\ Cardinality(InSet(sl, f)) \in Nat
    BY <2>3, <2>4, FS_CardinalityType
  <2>6. Cardinality(setData[k]) + Cardinality(setCode[k]) >= Cardinality(DataIn(f))
    BY <1>4, <2>1, <2>5
  <2>7. setData[k] = DataIn(f)
    BY <1>1, <2>2, <2>6 DEF DeliverInv, SetsComplete
  <2> QED BY <1>1, <1>2, <2>7
<1> QED BY <1>1, <1>3, <1>4 DEF Determined

\* A batch whose shreds, and the boundary before it, can be known from what was
\* accepted since its slot was pruned has been emitted: for any loss, order,
\* geometry and headers, neither FEC recovery nor the scan of
\* find_complete_data_block forgets a block.
THEOREM DeterminedIsDelivered == Spec => []DeliveredOnceDetermined
<1>1. IInv /\ DeliverInv => DeliveredOnceDetermined
  <2> SUFFICES ASSUME IInv, DeliverInv, NEW sl \in Slots, NEW b \in BlocksOf(Ends),
                      b[2] \notin Malformed,
                      \A i \in b[1] .. b[2] : Determined(sl, i),
                      b[1] > 0 => Determined(sl, b[1] - 1)
               PROVE  [slot |-> sl, start |-> b[1], end |-> b[2]] \in blocks
    BY DEF DeliveredOnceDetermined, Batches
  <2>1. /\ b \in Index \X Index /\ IsBlock(Ends, b[1], b[2])
        /\ b[1] \in Nat /\ b[2] \in Nat
        /\ b[1] .. b[2] \subseteq Index /\ b[2] \in b[1] .. b[2]
    BY BatchIndexes, SizeAssumption DEF BlocksOf, Index
  <2>2. \A i \in b[1] .. b[2] :
          AccountedFor(sl, i) /\ (i \in Ends => i \in ends[sl])
    <3> SUFFICES ASSUME NEW i \in b[1] .. b[2]
                 PROVE  AccountedFor(sl, i) /\ (i \in Ends => i \in ends[sl])
      OBVIOUS
    <3>1. <<sl, FecOf(i)>> \in Keys /\ i \in setData[<<sl, FecOf(i)>>]
      BY <2>1, DeterminedIsHeld
    <3>2. <<sl, FecOf(i)>>[1] = sl
      OBVIOUS
    <3> QED BY <3>1, <3>2 DEF DeliverInv, ShredsAccountedFor
  <2>3. b[1] > 0 => b[1] - 1 \in ends[sl]
    <3> SUFFICES ASSUME b[1] > 0 PROVE b[1] - 1 \in ends[sl]
      OBVIOUS
    <3>1. b[1] - 1 \in Ends /\ b[1] - 1 \in Index
      BY <2>1, BlockAssumption DEF IsBlock
    <3>2. <<sl, FecOf(b[1] - 1)>> \in Keys /\ b[1] - 1 \in setData[<<sl, FecOf(b[1] - 1)>>]
      BY <3>1, DeterminedIsHeld
    <3>3. <<sl, FecOf(b[1] - 1)>>[1] = sl
      OBVIOUS
    <3> QED BY <3>1, <3>2, <3>3 DEF DeliverInv, ShredsAccountedFor
  <2>4. ends[sl] \subseteq Ends
    BY DEF IInv, TypeOK
  <2>5. IsBlock(ends[sl], b[1], b[2])
    BY <2>1, <2>2, <2>3, <2>4 DEF IsBlock
  <2>6. PICK i \in b[1] .. b[2] : i \notin buf[sl]
    <3> SUFFICES ASSUME b[1] .. b[2] \subseteq buf[sl] PROVE FALSE
      OBVIOUS
    <3>1. b \in Ready(buf[sl], ends[sl])
      BY <2>1, <2>5 DEF Ready, BlocksOf
    <3> QED BY <3>1 DEF DeliverInv, NothingReady
  <2>7. PICK c \in BlocksOf(Ends) :
          /\ i \in c[1] .. c[2]
          /\ c[2] \in Malformed \/ [slot |-> sl, start |-> c[1], end |-> c[2]] \in blocks
    BY <2>2, <2>6 DEF AccountedFor
  <2>8. c = b
    BY <2>1, <2>7, BatchesAreDisjoint
  <2> QED BY <2>7, <2>8
<1> QED BY <1>1, InitDeliver, NextDeliver, IInvHolds, PTL DEF Spec

-----------------------------------------------------------------------------
(* The loop of emit_ready_blocks.                                          *)

\* Induction up to n, for a set of numbers.
LEMMA Upwards ==
  ASSUME NEW n \in Nat, NEW S, 0 \in S, \A i \in 1 .. n : i - 1 \in S => i \in S
  PROVE  0 .. n \subseteq S
<1> DEFINE Bad == (0 .. n) \ S
<1>1. SUFFICES ASSUME Bad # {} PROVE FALSE
  OBVIOUS
<1>2. PICK k \in Bad : \A m \in Bad : ~(<<m, k>> \in OpToRel(<, Nat))
  <2>1. PICK x \in Bad : x \in Nat /\ Bad \subseteq Nat
    BY <1>1
  <2> HIDE DEF Bad
  <2> QED BY <2>1, NatLessThanWellFounded, WFMin
<1>3. k \in 1 .. n /\ k - 1 \in 0 .. n
  OBVIOUS
<1>4. k - 1 \notin Bad
  <2>1. <<k - 1, k>> \in OpToRel(<, Nat)
    BY <1>3 DEF OpToRel
  <2> HIDE DEF Bad
  <2> QED BY <1>2, <2>1
<1> QED BY <1>2, <1>3, <1>4

\* g gives each state, after the one before it.
Iterated(g, n, first, step) == g = [i \in 0 .. n |-> IF i = 0 THEN first ELSE step[<<i, g[i - 1]>>]]

LEMMA IterationExists ==
  ASSUME NEW n \in Nat, NEW States, NEW first \in States,
         NEW step \in [(1 .. n) \X States -> States]
  PROVE  \E g \in [0 .. n -> States] : Iterated(g, n, first, step)
<1> DEFINE S == {k \in 0 .. n : \E g \in [0 .. k -> States] : Iterated(g, k, first, step)}
<1>1. 0 \in S
  <2> DEFINE h == [i \in 0 .. 0 |-> first]
  <2>1. h \in [0 .. 0 -> States] /\ Iterated(h, 0, first, step)
    BY DEF Iterated
  <2> HIDE DEF h
  <2> QED BY <2>1
<1>2. ASSUME NEW k \in 1 .. n, k - 1 \in S PROVE k \in S
  <2>1. PICK g \in [0 .. (k - 1) -> States] : Iterated(g, k - 1, first, step)
    BY <1>2
  <2> DEFINE After(f, i) == IF i = 0 THEN first ELSE step[<<i, f[i - 1]>>]
             h == [i \in 0 .. k |-> IF i = k THEN step[<<k, g[k - 1]>>] ELSE g[i]]
  <2>2. step[<<k, g[k - 1]>>] \in States
    OBVIOUS
  <2>3. h \in [0 .. k -> States]
    <3>1. \A i \in 0 .. k : i # k => i \in 0 .. (k - 1)
      OBVIOUS
    <3> QED BY <2>2, <3>1
  <2>4. ASSUME NEW i \in 0 .. k PROVE h[i] = After(h, i)
    <3>1. i = 0 \/ (i - 1 \in 0 .. (k - 1) /\ h[i - 1] = g[i - 1])
      OBVIOUS
    <3>2. After(h, i) = After(g, i)
      BY <3>1
    <3>3. ASSUME i # k PROVE g[i] = After(g, i)
      <4>1. i \in 0 .. (k - 1)
        BY <3>3
      <4> QED BY <2>1, <4>1 DEF Iterated
    <3>4. i = k => h[i] = After(g, i)
      OBVIOUS
    <3>5. i # k => h[i] = g[i]
      OBVIOUS
    <3> HIDE DEF After, h
    <3> QED BY <3>2, <3>3, <3>4, <3>5
  <2>5. Iterated(h, k, first, step)
    <3>1. h = [i \in 0 .. k |-> h[i]]
      OBVIOUS
    <3>2. h = [i \in 0 .. k |-> After(h, i)]
      <4> HIDE DEF h, After
      <4> QED BY <2>4, <3>1
    <3> HIDE DEF h
    <3> QED BY <3>2 DEF Iterated
  <2> HIDE DEF h
  <2> QED BY <2>3, <2>5
<1>3. n \in S
  <2>1. 0 .. n \subseteq S
    <3> HIDE DEF S
    <3> QED BY <1>1, <1>2, Upwards
  <2> QED BY <2>1
<1> QED BY <1>3

\* The states of the scan: start_index and the block found.
Scanning == [start : Nat, found : SUBSET (Nat \X Nat)]

LEMMA PastIndexType ==
  ASSUME NEW s \in Scanning, NEW e \in Nat, NEW D, NEW E
  PROVE  PastIndex(s, e, D, E) \in Scanning
BY DEF PastIndex, Scanning

ScanStates(D, E, g) ==
  /\ Scan(D, E) = g[NumData] /\ g[0] = [start |-> 0, found |-> {}]
  /\ \A i \in 1 .. NumData : g[i] = PastIndex(g[i - 1], i - 1, D, E)

LEMMA ScanDef ==
  ASSUME NEW D, NEW E
  PROVE  \E g : ScanStates(D, E, g)
<1> DEFINE first == [start |-> 0, found |-> {}]
           After(g, i) == IF i = 0 THEN first ELSE PastIndex(g[i - 1], i - 1, D, E)
           Good(g) == g = [i \in 0 .. NumData |-> After(g, i)]
           step == [x \in (1 .. NumData) \X Scanning |-> PastIndex(x[2], x[1] - 1, D, E)]
<1>0. NumData \in Nat
  BY SizeAssumption
<1>1. first \in Scanning
  BY DEF Scanning
<1>2. step \in [(1 .. NumData) \X Scanning -> Scanning]
  <2>1. ASSUME NEW x \in (1 .. NumData) \X Scanning PROVE PastIndex(x[2], x[1] - 1, D, E) \in Scanning
    BY <1>0, PastIndexType
  <2> QED BY <2>1
<1>3. PICK g \in [0 .. NumData -> Scanning] : Iterated(g, NumData, first, step)
  <2> HIDE DEF first, step
  <2> QED BY <1>0, <1>1, <1>2, IterationExists
<1>4. Good(g)
  <2>1. ASSUME NEW i \in 0 .. NumData PROVE g[i] = After(g, i)
    <3>1. CASE i = 0
      BY <1>0, <1>3, <3>1 DEF Iterated
    <3>2. CASE i # 0
      <4>1. i \in 1 .. NumData /\ i - 1 \in 0 .. NumData
        BY <1>0, <3>2
      <4>2. g[i] = step[<<i, g[i - 1]>>]
        <5> HIDE DEF step
        <5> QED BY <1>3, <3>2 DEF Iterated
      <4>3. <<i, g[i - 1]>> \in (1 .. NumData) \X Scanning
        BY <4>1
      <4>4. step[<<i, g[i - 1]>>] = PastIndex(g[i - 1], i - 1, D, E)
        BY <4>3
      <4> QED BY <3>2, <4>2, <4>4
    <3> QED BY <3>1, <3>2
  <2>2. g = [i \in 0 .. NumData |-> g[i]]
    OBVIOUS
  <2> HIDE DEF After
  <2> QED BY <2>1, <2>2
<1>5. Scan(D, E) = (CHOOSE f : Good(f))[NumData]
  BY DEF Scan
<1>6. Good(CHOOSE f : Good(f))
  <2> HIDE DEF Good
  <2> QED BY <1>4
<1>7. ASSUME NEW f, Good(f), Scan(D, E) = f[NumData] PROVE ScanStates(D, E, f)
  <2>1. \A i \in 0 .. NumData : f[i] = After(f, i)
    <3> HIDE DEF After
    <3> QED BY <1>7
  <2>2. f[0] = first
    BY <1>0, <2>1
  <2>3. \A i \in 1 .. NumData : f[i] = PastIndex(f[i - 1], i - 1, D, E)
    BY <2>1
  <2> QED BY <1>7, <2>2, <2>3 DEF ScanStates
<1> HIDE DEF Good
<1> QED BY <1>5, <1>6, <1>7

LEMMA LeastIsLeast ==
  ASSUME NEW D \in SUBSET Nat, NEW a \in D
  PROVE  Min(D) \in D /\ Min(D) <= a
<1>1. \E x \in D : \A y \in D : x <= y
  <2>1. PICK x \in D : \A m \in D : ~(<<m, x>> \in OpToRel(<, Nat))
    BY NatLessThanWellFounded, WFMin
  <2>2. ASSUME NEW y \in D PROVE x <= y
    <3>1. y < x => <<y, x>> \in OpToRel(<, Nat)
      BY DEF OpToRel
    <3>2. x \in Nat /\ y \in Nat
      OBVIOUS
    <3>3. ~(y < x)
      BY <2>1, <3>1, <3>2
    <3> QED BY <3>2, <3>3
  <2> QED BY <2>2
<1> QED BY <1>1 DEF Min

\* find_complete_data_block counts the buffered indexes of a range.
LEMMA CountsAll ==
  ASSUME NEW D, NEW a \in Nat, NEW e \in Nat, a <= e
  PROVE  Cardinality(D \cap (a .. e)) = e - a + 1 <=> a .. e \subseteq D
<1>1. IsFiniteSet(a .. e) /\ Cardinality(a .. e) = e - a + 1
  BY FS_Interval
<1>2. ASSUME Cardinality(D \cap (a .. e)) = e - a + 1 PROVE a .. e \subseteq D
  <2>1. a .. e = D \cap (a .. e)
    <3> DEFINE T == D \cap (a .. e)
               S == a .. e
    <3>1. T \in SUBSET S /\ Cardinality(S) = Cardinality(T) /\ IsFiniteSet(S)
      BY <1>1, <1>2
    <3> HIDE DEF S, T
    <3>2. S = T
      BY <3>1, FS_Subset
    <3> QED BY <3>2 DEF S, T
  <2> QED BY <2>1
<1>3. ASSUME a .. e \subseteq D PROVE Cardinality(D \cap (a .. e)) = e - a + 1
  <2>1. D \cap (a .. e) = a .. e
    BY <1>3
  <2> QED BY <1>1, <2>1
<1> QED BY <1>2, <1>3

\* The scan before index i: the next block starts at start, just after the last
\* boundary below i, and no block of the buffer ends below i.
ScanInv(s, i, D, E) ==
  /\ s \in Scanning
  /\ s.found = {} => /\ s.start \in 0 .. i
                     /\ s.start = 0 \/ s.start - 1 \in E
                     /\ \A x \in E : x < i => x < s.start
                     /\ \A b \in Ready(D, E) : i <= b[2]
  /\ s.found # {} => \E b \in Ready(D, E) : s.found = {b}

LEMMA ScanStep ==
  ASSUME NEW D \in SUBSET Index, NEW E \in SUBSET Index, NEW i \in 1 .. NumData,
         NEW s, ScanInv(s, i - 1, D, E)
  PROVE  ScanInv(PastIndex(s, i - 1, D, E), i, D, E)
<1> DEFINE e == i - 1
           t == PastIndex(s, e, D, E)
<1>0. NumData \in Nat /\ e \in Nat /\ e \in Index /\ D \subseteq Nat /\ E \subseteq Nat
  BY SizeAssumption DEF Index
<1>1. \A b \in Ready(D, E) : /\ b \in BlocksOf(E) /\ b[1] .. b[2] \subseteq D
                             /\ b[1] \in Nat /\ b[2] \in Nat /\ b[2] \in E /\ b[1] <= b[2]
  BY <1>0 DEF Ready, BlocksOf, IsBlock, Index
<1>2. t \in Scanning /\ s \in Scanning
  BY <1>0, PastIndexType DEF ScanInv
<1>3. CASE s.found # {}
  BY <1>2, <1>3 DEF PastIndex, ScanInv
<1>4. CASE s.found = {} /\ e \notin E
  <2>1. t = s
    BY <1>4 DEF PastIndex
  <2>2. \A x \in E : x < i => x < s.start
    BY <1>0, <1>4 DEF ScanInv
  <2>3. \A b \in Ready(D, E) : i <= b[2]
    BY <1>0, <1>1, <1>4 DEF ScanInv
  <2>4. s.start \in 0 .. i /\ (s.start = 0 \/ s.start - 1 \in E)
    BY <1>0, <1>4 DEF ScanInv
  <2> QED BY <1>2, <1>4, <2>1, <2>2, <2>3, <2>4 DEF ScanInv
<1>5. CASE s.found = {} /\ e \in E
  <2> DEFINE a == s.start
  <2>1. /\ a \in 0 .. e /\ (a = 0 \/ a - 1 \in E)
        /\ \A x \in E : x < e => x < a
        /\ \A b \in Ready(D, E) : e <= b[2]
    BY <1>5 DEF ScanInv
  <2>2. <<a, e>> \in BlocksOf(E)
    BY <1>0, <1>5, <2>1 DEF BlocksOf, IsBlock, Index
  <2>3. a >= Min(D) /\ Cardinality(D \cap (a .. e)) = e - a + 1 <=> a .. e \subseteq D
    <3>1. a .. e \subseteq D => a \in D
      BY <1>0, <2>1
    <3>2. a \in D => Min(D) <= a
      BY <1>0, LeastIsLeast
    <3>3. Cardinality(D \cap (a .. e)) = e - a + 1 <=> a .. e \subseteq D
      <4>1. SUFFICES ASSUME NEW m \in Nat, m = a, m <= e
                     PROVE  Cardinality(D \cap (m .. e)) = e - m + 1 <=> m .. e \subseteq D
        BY <1>0, <2>1
      <4> HIDE DEF e
      <4> QED BY <1>0, <4>1, CountsAll
    <3>4. a \in D => a >= Min(D)
      <4>1. ASSUME a \in D PROVE a >= Min(D)
        <5>1. Min(D) \in D
          BY <4>1, <1>0, LeastIsLeast
        <5> QED BY <1>0, <3>2, <4>1, <5>1
      <4> QED BY <4>1
    <3> QED BY <3>1, <3>3, <3>4
  <2>4. CASE a .. e \subseteq D
    <3>1. t = [s EXCEPT !.found = {<<a, e>>}]
      BY <1>5, <2>3, <2>4 DEF PastIndex
    <3>2. t.found = {<<a, e>>}
      BY <1>2, <3>1 DEF Scanning
    <3>3. <<a, e>> \in Ready(D, E)
      BY <2>2, <2>4 DEF Ready
    <3> QED BY <1>2, <3>2, <3>3 DEF ScanInv
  <2>5. CASE ~(a .. e \subseteq D)
    <3>1. t = [s EXCEPT !.start = e + 1]
      BY <1>5, <2>3, <2>5 DEF PastIndex
    <3>2. t.start = i /\ t.found = {}
      BY <1>0, <1>2, <1>5, <3>1 DEF Scanning
    <3>3. \A b \in Ready(D, E) : i <= b[2]
      <4> SUFFICES ASSUME NEW b \in Ready(D, E), b[2] = e PROVE FALSE
        BY <1>0, <1>1, <2>1
      <4>1. b = <<a, e>>
        <5> DEFINE c == <<a, e>>
        <5>1. c \in BlocksOf(E) /\ c[1] = a /\ c[2] = e
          BY <2>2
        <5>2. e \in c[1] .. c[2] /\ e \in b[1] .. b[2]
          BY <1>0, <1>1, <2>1, <5>1
        <5> HIDE DEF c
        <5>3. b = c
          BY <1>0, <1>1, <5>1, <5>2, BlocksAreDisjoint
        <5> QED BY <5>3 DEF c
      <4> QED BY <1>1, <2>5, <4>1
    <3>4. t.start \in 0 .. i /\ t.start - 1 \in E /\ \A x \in E : x < i => x < t.start
      BY <1>0, <1>5, <3>2
    <3> QED BY <1>2, <3>2, <3>3, <3>4 DEF ScanInv
  <2> QED BY <2>4, <2>5
<1> QED BY <1>3, <1>4, <1>5

\* find_complete_data_block returns a block of the buffer whenever there is one.
LEMMA FindIs ==
  ASSUME NEW D \in SUBSET Index, NEW E \in SUBSET Index
  PROVE  \/ FindCompleteDataBlock(D, E) = {} /\ Ready(D, E) = {}
         \/ \E b \in Ready(D, E) : FindCompleteDataBlock(D, E) = {b}
<1>0. NumData \in Nat
  BY SizeAssumption
<1>1. \A b \in Ready(D, E) : b[1] \in D /\ b[2] \in Nat /\ b[2] < NumData
  BY <1>0 DEF Ready, BlocksOf, IsBlock, Index
<1>2. CASE D = {}
  BY <1>1, <1>2 DEF FindCompleteDataBlock
<1>3. CASE D # {}
  <2>1. PICK g : ScanStates(D, E, g)
    BY ScanDef
  <2> DEFINE S == {i \in 0 .. NumData : ScanInv(g[i], i, D, E)}
  <2>2. 0 \in S
    <3>1. g[0] = [start |-> 0, found |-> {}]
      BY <2>1 DEF ScanStates
    <3>2. \A x \in E : ~(x < 0)
      BY DEF Index
    <3>3. g[0] \in Scanning
      BY <3>1 DEF Scanning
    <3>4. ScanInv(g[0], 0, D, E)
      BY <1>1, <3>1, <3>2, <3>3 DEF ScanInv
    <3> QED BY <1>0, <3>4
  <2>3. ASSUME NEW i \in 1 .. NumData, i - 1 \in S PROVE i \in S
    <3>1. g[i] = PastIndex(g[i - 1], i - 1, D, E)
      BY <2>1 DEF ScanStates
    <3>2. ScanInv(g[i - 1], i - 1, D, E)
      BY <2>3
    <3>3. ScanInv(g[i], i, D, E)
      BY <3>1, <3>2, ScanStep
    <3> QED BY <1>0, <3>3
  <2>4. 0 .. NumData \subseteq S
    <3> HIDE DEF S
    <3> QED BY <1>0, <2>2, <2>3, Upwards
  <2>5. ScanInv(g[NumData], NumData, D, E)
    BY <1>0, <2>4
  <2>6. FindCompleteDataBlock(D, E) = g[NumData].found
    BY <1>3, <2>1 DEF FindCompleteDataBlock, ScanStates
  <2> QED BY <1>0, <1>1, <2>5, <2>6 DEF ScanInv
<1> QED BY <1>2, <1>3

\* Taking a block out of the buffer neither hides nor makes another one.
LEMMA TakingOneBlock ==
  ASSUME NEW L \in SUBSET Index, NEW E \in SUBSET Index, NEW b \in Ready(L, E)
  PROVE  Ready(L \ (b[1] .. b[2]), E) = Ready(L, E) \ {b}
<1>1. \A c \in BlocksOf(E) : c[1] \in Nat /\ c[2] \in Nat /\ c[1] <= c[2]
  BY SizeAssumption DEF BlocksOf, IsBlock, Index
<1>2. \A c \in Ready(L, E) : c \in BlocksOf(E)
  BY DEF Ready
<1>3. ASSUME NEW c \in Ready(L, E), c # b PROVE c \in Ready(L \ (b[1] .. b[2]), E)
  <2>1. SUFFICES ASSUME NEW i \in c[1] .. c[2], i \in b[1] .. b[2] PROVE FALSE
    BY <1>2 DEF Ready
  <2>2. i \in Nat
    BY <1>1, <1>2
  <2> QED BY <1>2, <1>3, <2>1, <2>2, BlocksAreDisjoint
<1>4. ASSUME NEW c \in Ready(L \ (b[1] .. b[2]), E) PROVE c \in Ready(L, E) /\ c # b
  <2>1. c \in BlocksOf(E) /\ c[1] .. c[2] \subseteq L \ (b[1] .. b[2])
    BY DEF Ready
  <2>2. c[1] \in c[1] .. c[2]
    BY <1>1, <2>1
  <2> QED BY <2>1, <2>2 DEF Ready
<1> QED BY <1>3, <1>4

\* The loop's state: the shreds left in the buffer, and the blocks taken.
Looping == [left : SUBSET Index, blocks : SUBSET (Nat \X Nat)]

\* After k turns: the blocks still to be taken are the ready ones not taken,
\* and every turn that found one left fewer shreds.
LoopInv(s, k, D, E) ==
  /\ s \in Looping
  /\ s.blocks \subseteq Ready(D, E)
  /\ Ready(s.left, E) = Ready(D, E) \ s.blocks
  /\ Ready(s.left, E) # {} => Cardinality(s.left) <= NumData - k

LEMMA TakeBlockType ==
  ASSUME NEW s \in Looping, NEW E \in SUBSET Index
  PROVE  TakeBlock(s, E) \in Looping
<1>1. s.left \in SUBSET Index /\ s.blocks \in SUBSET (Nat \X Nat)
  BY DEF Looping
<1>2. FindCompleteDataBlock(s.left, E) \subseteq Nat \X Nat
  <2>1. \A b \in Ready(s.left, E) : b \in Nat \X Nat
    BY SizeAssumption DEF Ready, BlocksOf, Index
  <2> QED BY <1>1, <2>1, FindIs
<1> QED BY <1>1, <1>2 DEF TakeBlock, Looping

LEMMA LoopStep ==
  ASSUME NEW D \in SUBSET Index, NEW E \in SUBSET Index, NEW k \in 1 .. NumData,
         NEW s, LoopInv(s, k - 1, D, E)
  PROVE  LoopInv(TakeBlock(s, E), k, D, E)
<1> DEFINE t == TakeBlock(s, E)
           f == FindCompleteDataBlock(s.left, E)
<1>0. NumData \in Nat /\ s \in Looping /\ s.left \in SUBSET Index
  BY SizeAssumption DEF LoopInv, Looping
<1>1. t \in Looping
  BY <1>0, TakeBlockType
<1>2. t.left = s.left \ UNION {r[1] .. r[2] : r \in f} /\ t.blocks = s.blocks \cup f
  BY DEF TakeBlock
<1>3. CASE f = {} /\ Ready(s.left, E) = {}
  <2>1. t.left = s.left /\ t.blocks = s.blocks
    BY <1>2, <1>3
  <2> QED BY <1>1, <1>3, <2>1 DEF LoopInv
<1>4. CASE \E b \in Ready(s.left, E) : f = {b}
  <2>1. PICK b \in Ready(s.left, E) : f = {b}
    BY <1>4
  <2>2. t.left = s.left \ (b[1] .. b[2]) /\ t.blocks = s.blocks \cup {b}
    <3> HIDE DEF f, t
    <3> QED BY <1>2, <2>1
  <2>3. Ready(t.left, E) = Ready(s.left, E) \ {b}
    BY <1>0, <2>2, TakingOneBlock
  <2>4. t.blocks \subseteq Ready(D, E) /\ Ready(t.left, E) = Ready(D, E) \ t.blocks
    <3>1. s.blocks \subseteq Ready(D, E) /\ Ready(s.left, E) = Ready(D, E) \ s.blocks
      BY DEF LoopInv
    <3> HIDE DEF t
    <3> QED BY <2>1, <2>2, <2>3, <3>1
  <2>5. Cardinality(t.left) <= NumData - k
    <3>1. IsFiniteSet(s.left)
      <4>1. IsFiniteSet(Index)
        BY <1>0, FS_Interval DEF Index
      <4> QED BY <1>0, <4>1, FS_Subset
    <3>2. Cardinality(s.left) <= NumData - (k - 1)
      BY <2>1 DEF LoopInv
    <3>3. b[1] \in s.left /\ b[1] \notin t.left /\ t.left \subseteq s.left
      <4>1. b[1] \in b[1] .. b[2] /\ b[1] .. b[2] \subseteq s.left
        BY <2>1, SizeAssumption DEF Ready, BlocksOf, IsBlock, Index
      <4> QED BY <2>2, <4>1
    <3>4. /\ IsFiniteSet(s.left \ {b[1]})
          /\ Cardinality(s.left \ {b[1]}) = Cardinality(s.left) - 1
      BY <3>1, <3>3, FS_RemoveElement
    <3>5. IsFiniteSet(t.left) /\ Cardinality(t.left) <= Cardinality(s.left \ {b[1]})
      <4>1. t.left \in SUBSET (s.left \ {b[1]})
        BY <3>3
      <4> HIDE DEF t
      <4> QED BY <3>4, <4>1, FS_Subset
    <3>6. Cardinality(t.left) \in Nat /\ Cardinality(s.left) \in Nat
      BY <3>1, <3>5, FS_CardinalityType
    <3> HIDE DEF t
    <3> QED BY <1>0, <3>2, <3>4, <3>5, <3>6
  <2> QED BY <1>1, <2>4, <2>5 DEF LoopInv
<1> QED BY <1>0, <1>3, <1>4, FindIs

LoopStates(D, E, g) ==
  /\ EmitLoop(D, E) = g[NumData] /\ g[0] = [left |-> D, blocks |-> {}]
  /\ \A i \in 1 .. NumData : g[i] = TakeBlock(g[i - 1], E)

LEMMA LoopDef ==
  ASSUME NEW D \in SUBSET Index, NEW E \in SUBSET Index
  PROVE  \E g : LoopStates(D, E, g)
<1> DEFINE first == [left |-> D, blocks |-> {}]
           After(g, i) == IF i = 0 THEN first ELSE TakeBlock(g[i - 1], E)
           Good(g) == g = [i \in 0 .. NumData |-> After(g, i)]
           step == [x \in (1 .. NumData) \X Looping |-> TakeBlock(x[2], E)]
<1>0. NumData \in Nat
  BY SizeAssumption
<1>1. first \in Looping
  BY DEF Looping
<1>2. step \in [(1 .. NumData) \X Looping -> Looping]
  <2>1. ASSUME NEW x \in (1 .. NumData) \X Looping PROVE TakeBlock(x[2], E) \in Looping
    BY TakeBlockType
  <2> QED BY <2>1
<1>3. PICK g \in [0 .. NumData -> Looping] : Iterated(g, NumData, first, step)
  <2> HIDE DEF first, step
  <2> QED BY <1>0, <1>1, <1>2, IterationExists
<1>4. Good(g)
  <2>1. ASSUME NEW i \in 0 .. NumData PROVE g[i] = After(g, i)
    <3>1. CASE i = 0
      BY <1>0, <1>3, <3>1 DEF Iterated
    <3>2. CASE i # 0
      <4>1. i \in 1 .. NumData /\ i - 1 \in 0 .. NumData
        BY <1>0, <3>2
      <4>2. g[i] = step[<<i, g[i - 1]>>]
        <5> HIDE DEF step
        <5> QED BY <1>3, <3>2 DEF Iterated
      <4>3. <<i, g[i - 1]>> \in (1 .. NumData) \X Looping
        BY <4>1
      <4>4. step[<<i, g[i - 1]>>] = TakeBlock(g[i - 1], E)
        BY <4>3
      <4> QED BY <3>2, <4>2, <4>4
    <3> QED BY <3>1, <3>2
  <2>2. g = [i \in 0 .. NumData |-> g[i]]
    OBVIOUS
  <2> HIDE DEF After
  <2> QED BY <2>1, <2>2
<1>5. EmitLoop(D, E) = (CHOOSE f : Good(f))[NumData]
  BY DEF EmitLoop
<1>6. Good(CHOOSE f : Good(f))
  <2> HIDE DEF Good
  <2> QED BY <1>4
<1>7. ASSUME NEW f, Good(f), EmitLoop(D, E) = f[NumData] PROVE LoopStates(D, E, f)
  <2>1. \A i \in 0 .. NumData : f[i] = After(f, i)
    <3> HIDE DEF After
    <3> QED BY <1>7
  <2>2. f[0] = first
    <3>1. f[0] = After(f, 0)
      <4> HIDE DEF After
      <4> QED BY <1>0, <2>1
    <3> HIDE DEF first
    <3> QED BY <3>1
  <2>3. \A i \in 1 .. NumData : f[i] = TakeBlock(f[i - 1], E)
    BY <2>1
  <2> QED BY <1>7, <2>2, <2>3 DEF LoopStates
<1> HIDE DEF Good
<1> QED BY <1>5, <1>6, <1>7

LEMMA LoopEnds ==
  ASSUME NEW D \in SUBSET Index, NEW E \in SUBSET Index
  PROVE  LoopInv(EmitLoop(D, E), NumData, D, E)
<1>0. NumData \in Nat
  BY SizeAssumption
<1>1. PICK g : LoopStates(D, E, g)
  BY LoopDef
<1> DEFINE S == {i \in 0 .. NumData : LoopInv(g[i], i, D, E)}
<1>2. 0 \in S
  <2>1. g[0] = [left |-> D, blocks |-> {}]
    BY <1>1 DEF LoopStates
  <2>2. Cardinality(D) <= NumData
    <3>1. IsFiniteSet(Index) /\ Cardinality(Index) = NumData
      BY <1>0, FS_Interval DEF Index
    <3> QED BY <3>1, FS_Subset
  <2>3. g[0] \in Looping
    BY <2>1 DEF Looping
  <2>4. LoopInv(g[0], 0, D, E)
    BY <1>0, <2>1, <2>2, <2>3 DEF LoopInv
  <2> QED BY <1>0, <2>4
<1>3. ASSUME NEW i \in 1 .. NumData, i - 1 \in S PROVE i \in S
  <2>1. g[i] = TakeBlock(g[i - 1], E)
    BY <1>1 DEF LoopStates
  <2>2. LoopInv(g[i - 1], i - 1, D, E)
    BY <1>3
  <2>3. LoopInv(g[i], i, D, E)
    BY <2>1, <2>2, LoopStep
  <2> QED BY <1>0, <2>3
<1>4. 0 .. NumData \subseteq S
  <2> HIDE DEF S
  <2> QED BY <1>0, <1>2, <1>3, Upwards
<1>5. LoopInv(g[NumData], NumData, D, E)
  BY <1>0, <1>4
<1> QED BY <1>1, <1>5 DEF LoopStates

\* For every buffer and every set of boundaries the loop takes exactly the
\* ready blocks, and finds none in what it leaves.
LEMMA LoopTakesAll ==
  LoopTakesReady
<1> SUFFICES ASSUME NEW E \in SUBSET Index, NEW D \in SUBSET Index
             PROVE  /\ EmitLoop(D, E).blocks = Ready(D, E)
                    /\ FindCompleteDataBlock(EmitLoop(D, E).left, E) = {}
  BY DEF LoopTakesReady
<1> DEFINE s == EmitLoop(D, E)
<1>1. LoopInv(s, NumData, D, E)
  BY LoopEnds
<1> HIDE DEF s
<1>2. s.left \in SUBSET Index
  BY <1>1 DEF LoopInv, Looping
<1>3. Ready(s.left, E) = {}
  <2> SUFFICES ASSUME NEW b \in Ready(s.left, E) PROVE FALSE
    OBVIOUS
  <2>1. Cardinality(s.left) <= 0
    BY <1>1, SizeAssumption DEF LoopInv
  <2>2. IsFiniteSet(s.left)
    <3>1. IsFiniteSet(Index)
      BY SizeAssumption, FS_Interval DEF Index
    <3> QED BY <1>2, <3>1, FS_Subset
  <2>3. s.left = {}
    BY <2>1, <2>2, FS_EmptySet, FS_CardinalityType
  <2>4. b[1] \in s.left
    BY SizeAssumption DEF Ready, BlocksOf, IsBlock, Index
  <2> QED BY <2>3, <2>4
<1>4. s.blocks = Ready(D, E)
  BY <1>1, <1>3 DEF LoopInv
<1>5. FindCompleteDataBlock(s.left, E) = {}
  BY <1>2, <1>3, FindIs
<1> QED BY <1>4, <1>5 DEF s

\* For every block layout and number of data shreds, emit_ready_blocks takes
\* exactly the blocks of Ready (the scan of find_complete_data_block and the
\* loop around it).
THEOREM LoopIsReady == MCSpec => []ReadyIsTheLoop
<1>1. ReadyIsTheLoop
  BY LoopTakesAll DEF ReadyIsTheLoop
<1> QED BY <1>1, PTL

-----------------------------------------------------------------------------
(* The signal processor.                                                    *)

GraduatedThreads == [kind : {"graduated"}, pool : Pools]
ReactiveThreads == [kind : {"reactive"}, pool : Pools, left : SUBSET Pools]
PredictedThreads ==
  [kind : {"predicted"}, pool : Pools, left : SUBSET [pool : Pools, meta : BOOLEAN],
   wrote : BOOLEAN]
SearchThreads ==
  [kind : {"search"}, mint : Mints, left : SUBSET DOMAIN Listed, seen : DOMAIN Listed \cup {"none"}]
Threads == GraduatedThreads \cup ReactiveThreads \cup PredictedThreads \cup SearchThreads

\* A thread that writes to a pool without looking it up was given a cached one,
\* and no pool leaves the cache.
ThreadsSound ==
  /\ threads \subseteq Threads
  /\ \A j \in threads :
       /\ j.kind = "graduated" => Processor!Known(j.pool)
       /\ j.kind = "predicted" => \A c \in j.left : Processor!Known(c.pool)

\* What has been sent of the transaction, from step to step.
PhasesSound ==
  /\ pc \in {"idle", "classify", "watch", "creations", "forget", "liquidity", "observe", "apply"}
  /\ pc # "idle" => tx \in Txs
  /\ at \in Nat \ {0}
  /\ pc \in {"classify", "watch", "creations", "forget", "liquidity"} => sent = {}
  /\ pc = "watch" => Processor!Graduates(tx)
  /\ pc \in {"creations", "forget", "liquidity", "observe", "apply"} => ~Processor!Graduates(tx)
  /\ pc \in {"observe", "apply"} =>
       /\ sent \subseteq {"whale"}
       /\ \E i \in DOMAIN tx : tx[i].prog \in Processor!Monitored

\* A watched token is watched with a pool it graduated to.
WatchedGraduated ==
  \A m \in Mints : watching[m] # Processor!NotWatched =>
    /\ watching[m].pool \in Pools /\ MintOf[watching[m].pool] = m
    /\ \E t \in Txs : /\ Processor!Graduates(t)
                      /\ Processor!Graduation(t).pool = watching[m].pool

\* A signal is still to be sent: by a thread that wrote, or for the transaction.
Owed ==
  \/ \E j \in threads : j.kind = "predicted" /\ j.wrote
  \/ pc \in {"observe", "apply"} /\ "whale" \notin sent

Announced == pending # "none" \/ Owed \/ \A w \in stale : w[2] = "trailing"

SigInv ==
  /\ Processor!TypeOK /\ ThreadsSound /\ PhasesSound /\ WatchedGraduated
  /\ Announced /\ Processor!ForwardedOnce /\ Processor!SecondPoolIsAnother

-----------------------------------------------------------------------------
LEMMA Kinds ==
  ASSUME NEW j \in Threads
  PROVE  /\ j.kind = "graduated" => j \in GraduatedThreads
         /\ j.kind = "reactive" => j \in ReactiveThreads
         /\ j.kind = "predicted" => j \in PredictedThreads
         /\ j.kind = "search" => j \in SearchThreads
  BY DEF Threads, GraduatedThreads, ReactiveThreads, PredictedThreads, SearchThreads

\* A cached pool has an entry of its venue.
LEMMA KnownEntry ==
  ASSUME Processor!TypeOK, NEW p \in Pools, Processor!Known(p)
  PROVE  /\ cache[p] \in [dex : Dexes, from : {"empty", "partial", "estimate", "chain"},
                          meta : BOOLEAN]
         /\ cache[p] = [dex |-> cache[p].dex, from |-> cache[p].from, meta |-> cache[p].meta]
  BY DEF Processor!TypeOK, Processor!Entries, Processor!Known, Dexes

\* An entry is no missing pool.
LEMMA EntryIsKnown ==
  ASSUME NEW e \in [dex : Dexes, from : {"empty", "partial", "estimate", "chain"}, meta : BOOLEAN]
  PROVE  e # Processor!Missing /\ e \in Processor!Entries
<1>1. e \in Processor!Entries
  BY DEF Processor!Entries, Dexes
<1>2. DOMAIN e = {"dex", "from", "meta"} /\ DOMAIN Processor!Missing = {"from"}
  BY DEF Processor!Missing
<1> QED BY <1>1, <1>2

\* Writing an entry of a pool keeps the cache typed and forgets no pool.
CacheGrows ==
  /\ cache' \in [Pools -> Processor!Entries]
  /\ \A p \in Pools : Processor!Known(p) => cache'[p] # Processor!Missing

LEMMA WriteEntry ==
  ASSUME Processor!TypeOK, NEW p \in Pools,
         NEW e \in [dex : Dexes, from : {"empty", "partial", "estimate", "chain"}, meta : BOOLEAN],
         cache' = [cache EXCEPT ![p] = e]
  PROVE  CacheGrows /\ cache'[p] # Processor!Missing
  BY EntryIsKnown DEF CacheGrows, Processor!TypeOK, Processor!Known

LEMMA WriteFrom ==
  ASSUME Processor!TypeOK, NEW p \in Pools, Processor!Known(p),
         NEW f \in {"empty", "partial", "estimate", "chain"},
         cache' = [cache EXCEPT ![p].from = f]
  PROVE  CacheGrows
<1> DEFINE e == [dex |-> cache[p].dex, from |-> f, meta |-> cache[p].meta]
<1>1. e \in [dex : Dexes, from : {"empty", "partial", "estimate", "chain"}, meta : BOOLEAN]
  BY KnownEntry
<1>2. [cache[p] EXCEPT !.from = f] = e
  <2>1. PICK d, g, m : cache[p] = [dex |-> d, from |-> g, meta |-> m]
    BY KnownEntry
  <2>2. [[dex |-> d, from |-> g, meta |-> m] EXCEPT !.from = f] = [dex |-> d, from |-> f, meta |-> m]
    OBVIOUS
  <2> QED BY <2>1, <2>2
<1>3. cache' = [cache EXCEPT ![p] = e]
  BY <1>2
<1> HIDE DEF e
<1> QED BY <1>1, <1>3, WriteEntry

LEMMA SameCache ==
  ASSUME Processor!TypeOK, cache' = cache
  PROVE  CacheGrows
  BY DEF CacheGrows, Processor!TypeOK, Processor!Known

\* What a thread was given is still cached.
Given(j) ==
  /\ j.kind = "graduated" => cache'[j.pool] # Processor!Missing
  /\ j.kind = "predicted" => \A c \in j.left : cache'[c.pool] # Processor!Missing

LEMMA OldThread ==
  ASSUME ThreadsSound, CacheGrows, NEW j \in threads
  PROVE  j \in Threads /\ Given(j)
<1>1. j \in Threads
  BY DEF ThreadsSound
<1>2. CASE j.kind = "graduated"
  BY <1>1, <1>2, Kinds DEF ThreadsSound, CacheGrows, Processor!Known, GraduatedThreads, Given
<1>3. CASE j.kind = "predicted"
  <2>1. \A c \in j.left : c.pool \in Pools
    BY <1>1, <1>3, Kinds DEF PredictedThreads
  <2> QED BY <1>1, <1>3, <2>1 DEF ThreadsSound, CacheGrows, Processor!Known, Given
<1> QED BY <1>1, <1>2, <1>3 DEF Given

\* With a cache that grows, old threads and sound new ones are sound.
LEMMA ThreadsGrow ==
  ASSUME ThreadsSound, CacheGrows, NEW new, threads' \subseteq threads \cup new,
         \A j \in new : j \in Threads /\ Given(j)
  PROVE  ThreadsSound'
  BY OldThread DEF ThreadsSound, Given, Processor!Known

LEMMA ThreadsStay ==
  ASSUME ThreadsSound, CacheGrows, threads' \subseteq threads
  PROVE  ThreadsSound'
  BY OldThread DEF ThreadsSound, Given, Processor!Known

LEMMA ReportsStay ==
  ASSUME Processor!TypeOK, Processor!SecondPoolIsAnother, CacheGrows, reported' \subseteq reported
  PROVE  Processor!SecondPoolIsAnother'
  BY DEF Processor!TypeOK, Processor!SecondPoolIsAnother, CacheGrows, Processor!Known

\* A signal sent leaves one queued, whether the queue was full or not.
LEMMA EventQueued ==
  ASSUME Processor!TypeOK, Processor!Signal("event")
  PROVE  pending' \in {"none", "transaction", "event"} /\ pending' # "none"
  BY DEF Processor!TypeOK, Processor!Signal

LEMMA TransactionQueued ==
  ASSUME Processor!TypeOK, Processor!Signal("transaction")
  PROVE  pending' \in {"none", "transaction", "event"} /\ pending' # "none"
  BY DEF Processor!TypeOK, Processor!Signal
-----------------------------------------------------------------------------
(* The first states and the steps.                                          *)

\* The token of a pool, the graduation and the creations of a transaction.
LEMMA Assumed ==
  /\ \A q \in Pools : MintOf[q] \in Mints
  /\ \A q \in DOMAIN Listed : q \in Pools /\ Listed[q] \in Dexes
  /\ \A q \in DOMAIN Bootstrapped : q \in Pools /\ Bootstrapped[q] \in Dexes
  /\ \A t \in Txs : Processor!Graduates(t) =>
       LET g == Processor!Graduation(t) IN g.pool \in Pools /\ g.mint = MintOf[g.pool]
  /\ \A t \in Txs : ~Processor!Graduates(t) =>
       /\ Len(Processor!Creations(t)) \in Nat
       /\ \A i \in 1..Len(Processor!Creations(t)) :
            LET c == Processor!Creations(t)[i]
            IN /\ c.pool \in Pools /\ c.dex \in Dexes
               /\ {c.a, c.b} \cap Mints \subseteq {MintOf[c.pool]}
               /\ \A u \in Txs : Processor!Graduates(u) => Processor!Graduation(u).pool # c.pool
  BY SignalAssumption DEF TxsName

LEMMA InitSignals == Processor!Init => SigInv
<1> SUFFICES ASSUME Processor!Init PROVE SigInv
  OBVIOUS
<1> USE DEF Processor!Init
<1>1. PICK loaded \in SUBSET DOMAIN Bootstrapped :
        cache = [q \in Pools |-> IF q \in loaded THEN Processor!Entry(Bootstrapped[q], "chain", TRUE)
                                 ELSE Processor!Missing]
  OBVIOUS
<1>2. cache \in [Pools -> Processor!Entries]
  <2> SUFFICES ASSUME NEW q \in Pools PROVE cache[q] \in Processor!Entries
    BY <1>1
  <2>1. CASE q \in loaded
    <3>1. cache[q] = [dex |-> Bootstrapped[q], from |-> "chain", meta |-> TRUE]
      BY <1>1, <2>1 DEF Processor!Entry
    <3> QED BY <3>1, <2>1, Assumed, EntryIsKnown
  <2>2. CASE q \notin loaded
    BY <1>1, <2>2 DEF Processor!Entries
  <2> QED BY <2>1, <2>2
<1>3. watching \in [Mints -> {Processor!NotWatched} \union [pool : Pools, expired : BOOLEAN]]
  OBVIOUS
<1>4. Processor!TypeOK
  BY <1>2, <1>3 DEF Processor!TypeOK
<1>5. ThreadsSound /\ PhasesSound /\ WatchedGraduated /\ Announced
  BY DEF ThreadsSound, PhasesSound, WatchedGraduated, Announced
<1>6. Processor!ForwardedOnce /\ Processor!SecondPoolIsAnother
  BY DEF Processor!ForwardedOnce, Processor!SecondPoolIsAnother
<1> QED BY <1>4, <1>5, <1>6 DEF SigInv

\* A step that leaves the phase and what belongs to it alone.
LEMMA PhasesStay ==
  ASSUME PhasesSound, Processor!ForwardedOnce, UNCHANGED Processor!procVars
  PROVE  PhasesSound' /\ Processor!ForwardedOnce'
  BY DEF PhasesSound, Processor!ForwardedOnce, Processor!procVars

LEMMA WatchStays ==
  ASSUME WatchedGraduated,
         \A m \in Mints : \/ watching'[m] = Processor!NotWatched
                          \/ watching'[m] = watching[m]
                          \/ watching[m] # Processor!NotWatched /\ watching'[m].pool = watching[m].pool
  PROVE  WatchedGraduated'
  BY DEF WatchedGraduated

LEMMA ReceiveStep == SigInv /\ Processor!Receive => SigInv'
<1> SUFFICES ASSUME SigInv, Processor!Receive PROVE SigInv'
  OBVIOUS
<1> USE DEF SigInv
<1>1. PICK t \in Txs : tx' = t
  BY DEF Processor!Receive
<1>2. /\ pc = "idle" /\ pc' = "classify" /\ at' = 1 /\ sent' = {}
      /\ UNCHANGED <<cache, watching, cooling, threads, pending, dropping, engine, stale, reported>>
  BY DEF Processor!Receive
<1>3. Processor!TypeOK'
  BY <1>2 DEF Processor!TypeOK
<1>4. CacheGrows
  BY <1>2, SameCache
<1>5. ThreadsSound' /\ Processor!SecondPoolIsAnother'
  BY <1>2, <1>4, ThreadsStay, ReportsStay
<1>6. PhasesSound' /\ Processor!ForwardedOnce'
  BY <1>1, <1>2 DEF PhasesSound, Processor!ForwardedOnce
<1>7. WatchedGraduated' /\ Announced'
  BY <1>2 DEF WatchedGraduated, Announced, Owed
<1> QED BY <1>3, <1>5, <1>6, <1>7

LEMMA GraduateStep == SigInv /\ Processor!Graduate => SigInv'
<1> SUFFICES ASSUME SigInv, Processor!Graduate PROVE SigInv'
  OBVIOUS
<1> DEFINE g == Processor!Graduation(tx)
<1> USE DEF SigInv
<1>0. /\ pc = "classify" /\ tx \in Txs /\ sent = {}
      /\ UNCHANGED <<taken, watching, cooling, pending, dropping, engine, tx, at, sent, stale, reported>>
  BY DEF Processor!Graduate, PhasesSound
<1>1. CASE Processor!Graduates(tx)
  <2>1. /\ cache' = Processor!Upserted(g.pool, Processor!GraduationDex(tx), Processor!EstimateFor(g.mint))
        /\ threads' = threads \union {[kind |-> "graduated", pool |-> g.pool]}
        /\ pc' = "watch"
    BY <1>1 DEF Processor!Graduate
  <2>2. g.pool \in Pools
    BY <1>0, <1>1, Assumed
  <2>3. /\ Processor!GraduationDex(tx) \in Dexes
        /\ Processor!EstimateFor(g.mint) \in {"empty", "partial", "estimate", "chain"}
    BY DEF Processor!GraduationDex, Processor!EstimateFor, Dexes
  <2> HIDE DEF g
  <2>4. CacheGrows /\ cache'[g.pool] # Processor!Missing
    <3> DEFINE e == [dex |-> Processor!GraduationDex(tx), from |-> Processor!EstimateFor(g.mint),
                     meta |-> FALSE]
    <3>1. cache' = [cache EXCEPT ![g.pool] = e]
      BY <2>1 DEF Processor!Upserted, Processor!Entry
    <3>2. e \in [dex : Dexes, from : {"empty", "partial", "estimate", "chain"}, meta : BOOLEAN]
      BY <2>3
    <3> HIDE DEF e
    <3> QED BY <2>2, <3>1, <3>2, WriteEntry
  <2>5. ThreadsSound'
    <3> DEFINE new == {[kind |-> "graduated", pool |-> g.pool]}
    <3>1. \A j \in new : j \in Threads /\ Given(j)
      BY <2>2, <2>4 DEF Threads, GraduatedThreads, Given
    <3>2. threads' \subseteq threads \cup new
      BY <2>1
    <3> HIDE DEF new
    <3> QED BY <2>4, <3>1, <3>2, ThreadsGrow
  <2>6. Processor!TypeOK'
    BY <1>0, <2>4 DEF CacheGrows, Processor!TypeOK
  <2>7. PhasesSound' /\ Processor!ForwardedOnce'
    BY <1>0, <1>1, <2>1 DEF PhasesSound, Processor!ForwardedOnce
  <2>8. WatchedGraduated'
    BY <1>0 DEF WatchedGraduated
  <2>9. Announced'
    BY <1>0, <2>1 DEF Announced, Owed
  <2> QED BY <1>0, <2>4, <2>5, <2>6, <2>7, <2>8, <2>9, ReportsStay
<1>2. CASE ~Processor!Graduates(tx)
  <2>1. pc' = "creations" /\ UNCHANGED <<cache, threads>>
    BY <1>2 DEF Processor!Graduate
  <2>2. ThreadsSound' /\ Processor!SecondPoolIsAnother' /\ Processor!TypeOK'
    BY <1>0, <2>1, SameCache, ThreadsStay, ReportsStay DEF Processor!TypeOK
  <2>3. PhasesSound' /\ Processor!ForwardedOnce'
    BY <1>0, <1>2, <2>1 DEF PhasesSound, Processor!ForwardedOnce
  <2>4. WatchedGraduated' /\ Announced'
    BY <1>0, <2>1 DEF WatchedGraduated, Announced, Owed
  <2> QED BY <2>2, <2>3, <2>4
<1> QED BY <1>1, <1>2

LEMMA GraduationSignalStep == SigInv /\ Processor!GraduationSignal => SigInv'
<1> SUFFICES ASSUME SigInv, Processor!GraduationSignal PROVE SigInv'
  OBVIOUS
<1> DEFINE g == Processor!Graduation(tx)
<1> USE DEF SigInv
<1>1. /\ pc = "watch" /\ tx \in Txs /\ sent = {} /\ Processor!Graduates(tx)
      /\ watching' = Processor!OnGraduation(g.mint, g.pool)
      /\ Processor!Signal("event") /\ sent' = sent \union {"graduation"} /\ pc' = "idle"
      /\ UNCHANGED <<taken, cache, cooling, threads, dropping, engine, tx, at, stale, reported>>
  BY DEF Processor!GraduationSignal, PhasesSound
<1>2. g.pool \in Pools /\ g.mint = MintOf[g.pool] /\ g.mint \in Mints
  BY <1>1, Assumed
<1>3. \/ watching' = watching
      \/ watching' = [watching EXCEPT ![g.mint] = [pool |-> g.pool, expired |-> FALSE]]
  BY <1>1 DEF Processor!OnGraduation
<1>4. Processor!TypeOK'
  <2>1. watching' \in [Mints -> {Processor!NotWatched} \union [pool : Pools, expired : BOOLEAN]]
    <3>1. [pool |-> g.pool, expired |-> FALSE] \in [pool : Pools, expired : BOOLEAN]
      BY <1>2
    <3> HIDE DEF g
    <3> QED BY <1>3, <3>1 DEF Processor!TypeOK
  <2> QED BY <1>1, <2>1, EventQueued DEF Processor!TypeOK
<1>5. ThreadsSound' /\ Processor!SecondPoolIsAnother'
  BY <1>1, SameCache, ThreadsStay, ReportsStay
<1>6. PhasesSound' /\ Processor!ForwardedOnce'
  BY <1>1 DEF PhasesSound, Processor!ForwardedOnce
<1>7. WatchedGraduated'
  <2>1. CASE watching' = watching
    BY <2>1 DEF WatchedGraduated
  <2>2. CASE watching' = [watching EXCEPT ![g.mint] = [pool |-> g.pool, expired |-> FALSE]]
    <3> SUFFICES ASSUME NEW m \in Mints, watching'[m] # Processor!NotWatched
                 PROVE  /\ watching'[m].pool \in Pools /\ MintOf[watching'[m].pool] = m
                        /\ \E t \in Txs : /\ Processor!Graduates(t)
                                          /\ Processor!Graduation(t).pool = watching'[m].pool
      BY DEF WatchedGraduated
    <3>1. CASE m = g.mint
      <4>1. watching'[m].pool = g.pool
        BY <1>2, <2>2, <3>1 DEF Processor!TypeOK
      <4> QED BY <1>1, <1>2, <3>1, <4>1
    <3>2. CASE m # g.mint
      <4>1. watching'[m] = watching[m]
        BY <1>2, <2>2, <3>2 DEF Processor!TypeOK
      <4> QED BY <4>1 DEF WatchedGraduated
    <3> QED BY <3>1, <3>2
  <2> QED BY <1>3, <2>1, <2>2
<1>8. Announced'
  BY <1>1, EventQueued DEF Announced
<1> QED BY <1>4, <1>5, <1>6, <1>7, <1>8

LEMMA CreatePoolStep == SigInv /\ Processor!CreatePool => SigInv'
<1> SUFFICES ASSUME SigInv, Processor!CreatePool PROVE SigInv'
  OBVIOUS
<1> DEFINE creations == Processor!Creations(tx)
<1> USE DEF SigInv
<1>1. /\ pc = "creations" /\ tx \in Txs /\ sent = {} /\ ~Processor!Graduates(tx)
      /\ at \in Nat \ {0} /\ Len(creations) \in Nat
      /\ UNCHANGED <<taken, watching, cooling, threads, pending, dropping, engine, tx, sent, stale>>
  BY Assumed DEF Processor!CreatePool, PhasesSound
<1>2. CASE at <= Len(creations)
  <2> DEFINE c == creations[at]
  <2>1. /\ cache' = Processor!InsertCreated(c)
        /\ reported' = {Processor!Report(m, c.pool) : m \in Processor!WatchedMints(c)}
        /\ pc' = "forget" /\ at' = at
    BY <1>2 DEF Processor!CreatePool
  <2>2. /\ c.pool \in Pools /\ c.dex \in Dexes
        /\ {c.a, c.b} \cap Mints \subseteq {MintOf[c.pool]}
        /\ \A u \in Txs : Processor!Graduates(u) => Processor!Graduation(u).pool # c.pool
    BY <1>1, <1>2, Assumed
  <2> HIDE DEF c
  <2>3. CacheGrows /\ cache'[c.pool] # Processor!Missing
    <3>1. CASE Processor!Known(c.pool)
      BY <2>1, <2>2, <3>1, SameCache DEF Processor!InsertCreated, Processor!Known
    <3>2. CASE ~Processor!Known(c.pool)
      <4> DEFINE e == [dex |-> c.dex, from |-> "empty", meta |-> FALSE]
      <4>1. cache' = [cache EXCEPT ![c.pool] = e]
        BY <2>1, <3>2 DEF Processor!InsertCreated, Processor!Upserted, Processor!Entry
      <4>2. e \in [dex : Dexes, from : {"empty", "partial", "estimate", "chain"}, meta : BOOLEAN]
        BY <2>2
      <4> HIDE DEF e
      <4> QED BY <2>2, <4>1, <4>2, WriteEntry
    <3> QED BY <3>1, <3>2
  <2>4. \A r \in reported' : /\ r \in Pools \X Pools /\ r[1] # r[2]
                             /\ MintOf[r[1]] = MintOf[r[2]] /\ cache'[r[2]] # Processor!Missing
    <3> SUFFICES ASSUME NEW m \in Processor!WatchedMints(c)
                 PROVE  LET r == <<watching[m].pool, c.pool>>
                        IN /\ r \in Pools \X Pools /\ r[1] # r[2]
                           /\ MintOf[r[1]] = MintOf[r[2]] /\ cache'[r[2]] # Processor!Missing
      BY <2>1 DEF Processor!Report
    <3>1. m \in Mints /\ watching[m] # Processor!NotWatched /\ MintOf[c.pool] = m
      BY <2>2 DEF Processor!WatchedMints
    <3>2. watching[m].pool \in Pools /\ MintOf[watching[m].pool] = m /\ watching[m].pool # c.pool
      BY <2>2, <3>1 DEF WatchedGraduated
    <3> QED BY <2>2, <2>3, <3>1, <3>2
  <2>5. Processor!SecondPoolIsAnother'
    BY <2>4 DEF Processor!SecondPoolIsAnother, Processor!Known
  <2>6. Processor!TypeOK'
    BY <1>1, <2>3, <2>4 DEF CacheGrows, Processor!TypeOK
  <2>7. PhasesSound' /\ Processor!ForwardedOnce'
    BY <1>1, <2>1 DEF PhasesSound, Processor!ForwardedOnce
  <2>8. ThreadsSound' /\ WatchedGraduated'
    BY <1>1, <2>3, ThreadsStay DEF WatchedGraduated
  <2>9. Announced'
    BY <1>1, <2>1 DEF Announced, Owed
  <2> QED BY <2>5, <2>6, <2>7, <2>8, <2>9
<1>3. CASE ~(at <= Len(creations))
  <2>1. pc' = "liquidity" /\ at' = 1 /\ UNCHANGED <<cache, reported>>
    BY <1>3 DEF Processor!CreatePool
  <2>2. ThreadsSound' /\ Processor!SecondPoolIsAnother' /\ Processor!TypeOK'
    BY <1>1, <2>1, SameCache, ThreadsStay, ReportsStay DEF Processor!TypeOK
  <2>3. PhasesSound' /\ Processor!ForwardedOnce'
    BY <1>1, <2>1 DEF PhasesSound, Processor!ForwardedOnce
  <2>4. WatchedGraduated' /\ Announced'
    BY <1>1, <2>1 DEF WatchedGraduated, Announced, Owed
  <2> QED BY <2>2, <2>3, <2>4
<1> QED BY <1>2, <1>3

\* A step that changes the watch list only by taking tokens off it, or by
\* letting them expire.
LEMMA WatchStep ==
  ASSUME SigInv, UNCHANGED <<cache, threads, cooling, stale>>, UNCHANGED Processor!procVars,
         watching' \in [Mints -> {Processor!NotWatched} \union [pool : Pools, expired : BOOLEAN]],
         \A m \in Mints : \/ watching'[m] = Processor!NotWatched
                          \/ watching'[m] = watching[m]
                          \/ watching[m] # Processor!NotWatched /\ watching'[m].pool = watching[m].pool,
         pending' = pending, dropping' \subseteq Mints, reported' \subseteq reported,
         engine' \in {"ready", "resting", "checking"}
  PROVE  SigInv'
<1> USE DEF SigInv
<1>1. Processor!TypeOK'
  BY DEF Processor!TypeOK, Processor!procVars
<1>2. ThreadsSound' /\ Processor!SecondPoolIsAnother'
  BY SameCache, ThreadsStay, ReportsStay
<1>3. PhasesSound' /\ Processor!ForwardedOnce'
  BY PhasesStay
<1>4. WatchedGraduated'
  BY WatchStays
<1>5. Announced'
  BY DEF Announced, Owed, Processor!procVars
<1> QED BY <1>1, <1>2, <1>3, <1>4, <1>5

LEMMA ForgetStep == SigInv /\ Processor!ForgetWatched => SigInv'
<1> SUFFICES ASSUME SigInv, Processor!ForgetWatched PROVE SigInv'
  OBVIOUS
<1> USE DEF SigInv
<1>1. /\ pc = "forget" /\ tx \in Txs /\ sent = {} /\ ~Processor!Graduates(tx)
      /\ pc' = "creations" /\ at' = at + 1 /\ at \in Nat \ {0} /\ reported' = {}
      /\ UNCHANGED <<taken, cache, cooling, threads, pending, dropping, engine, tx, sent, stale>>
  BY DEF Processor!ForgetWatched, PhasesSound
<1>2. PICK gone : watching' = [m \in Mints |-> IF m \in gone THEN Processor!NotWatched ELSE watching[m]]
  BY DEF Processor!ForgetWatched
<1>3. watching' \in [Mints -> {Processor!NotWatched} \union [pool : Pools, expired : BOOLEAN]]
  BY <1>2 DEF Processor!TypeOK
<1>4. Processor!TypeOK'
  BY <1>1, <1>3 DEF Processor!TypeOK
<1>5. ThreadsSound' /\ Processor!SecondPoolIsAnother'
  BY <1>1, SameCache, ThreadsStay, ReportsStay
<1>6. PhasesSound' /\ Processor!ForwardedOnce'
  BY <1>1 DEF PhasesSound, Processor!ForwardedOnce
<1>7. WatchedGraduated'
  BY <1>2, WatchStays
<1>8. Announced'
  BY <1>1 DEF Announced, Owed
<1> QED BY <1>4, <1>5, <1>6, <1>7, <1>8

\* A signal that is dropped unscanned leaves nothing that was not announced.
LEMMA EngineDropsStep == SigInv /\ Processor!EngineDrops => SigInv'
<1> SUFFICES ASSUME SigInv, Processor!EngineDrops PROVE SigInv'
  OBVIOUS
<1> USE DEF SigInv
<1>1. /\ pending' = "none" /\ stale' = {}
      /\ UNCHANGED <<cache, watching, cooling, threads, dropping, engine, reported>>
      /\ UNCHANGED Processor!procVars
  BY DEF Processor!EngineDrops
<1>2. Processor!TypeOK'
  BY <1>1 DEF Processor!TypeOK, Processor!procVars
<1>3. ThreadsSound' /\ Processor!SecondPoolIsAnother'
  BY <1>1, SameCache, ThreadsStay, ReportsStay
<1>4. PhasesSound' /\ Processor!ForwardedOnce'
  BY <1>1, PhasesStay
<1>5. WatchedGraduated' /\ Announced'
  BY <1>1 DEF WatchedGraduated, Announced
<1> QED BY <1>2, <1>3, <1>4, <1>5

LEMMA EngineWakesStep == SigInv /\ Processor!EngineWakes => SigInv'
<1> SUFFICES ASSUME SigInv, Processor!EngineWakes PROVE SigInv'
  OBVIOUS
<1> USE DEF SigInv
<1>1. /\ pending' = "none" /\ stale' = {} /\ dropping' = Processor!DueTokens
      /\ engine' = "checking"
      /\ UNCHANGED <<cache, watching, cooling, threads>> /\ UNCHANGED Processor!procVars
  BY DEF Processor!EngineWakes
<1>2. PICK second \in [{m \in Processor!DueTokens : ~watching[m].expired} -> Pools] :
        /\ \A m \in DOMAIN second : second[m] \in Processor!SecondPools(m)
        /\ reported' = {Processor!Report(m, second[m]) : m \in DOMAIN second}
  BY DEF Processor!EngineWakes
<1>3. \A r \in reported' : /\ r \in Pools \X Pools /\ r[1] # r[2]
                           /\ MintOf[r[1]] = MintOf[r[2]] /\ Processor!Known(r[2])
  <2> SUFFICES ASSUME NEW m \in DOMAIN second
               PROVE  LET r == <<watching[m].pool, second[m]>>
                      IN /\ r \in Pools \X Pools /\ r[1] # r[2]
                         /\ MintOf[r[1]] = MintOf[r[2]] /\ Processor!Known(r[2])
    BY <1>2 DEF Processor!Report
  <2>1. m \in Mints /\ watching[m] # Processor!NotWatched
    BY DEF Processor!DueTokens
  <2>2. watching[m].pool \in Pools /\ MintOf[watching[m].pool] = m
    BY <2>1 DEF WatchedGraduated
  <2>3. /\ second[m] \in Pools /\ second[m] # watching[m].pool
        /\ Processor!Known(second[m]) /\ MintOf[second[m]] = m
    BY <1>2 DEF Processor!SecondPools, Processor!PoolsForToken
  <2> QED BY <2>2, <2>3
<1>4. Processor!SecondPoolIsAnother'
  BY <1>1, <1>3 DEF Processor!SecondPoolIsAnother, Processor!Known
<1>5. Processor!TypeOK'
  <2>1. Processor!DueTokens \subseteq Mints /\ reported' \subseteq Pools \X Pools
    BY <1>3 DEF Processor!DueTokens
  <2> QED BY <1>1, <2>1 DEF Processor!TypeOK, Processor!procVars
<1>6. ThreadsSound'
  BY <1>1, SameCache, ThreadsStay
<1>7. PhasesSound' /\ Processor!ForwardedOnce'
  BY <1>1, PhasesStay
<1>8. WatchedGraduated' /\ Announced'
  BY <1>1 DEF WatchedGraduated, Announced
<1> QED BY <1>4, <1>5, <1>6, <1>7, <1>8

LEMMA Expire ==
  ASSUME NEW q, NEW x, NEW y
  PROVE  [[pool |-> q, expired |-> x] EXCEPT !.expired = y] = [pool |-> q, expired |-> y]
  OBVIOUS

\* The list is swept by the engine and grows old; the cooldown ends.
LEMMA SweepSteps ==
  SigInv /\ (\/ Processor!EngineRemoves \/ Processor!RestEnds \/ Processor!WatchExpires)
    => SigInv'
<1> USE DEF SigInv
<1>1. ASSUME SigInv, Processor!EngineRemoves PROVE SigInv'
  <2>1. PICK gone :
          watching' = [m \in Mints |-> IF m \in gone THEN Processor!NotWatched ELSE watching[m]]
    BY <1>1 DEF Processor!EngineRemoves
  <2>2. watching' \in [Mints -> {Processor!NotWatched} \union [pool : Pools, expired : BOOLEAN]]
    BY <1>1, <2>1 DEF Processor!TypeOK
  <2>3. /\ UNCHANGED <<cache, threads, cooling, stale, pending>> /\ UNCHANGED Processor!procVars
        /\ dropping' = {} /\ reported' = {} /\ engine' \in {"ready", "resting", "checking"}
    BY <1>1 DEF Processor!EngineRemoves
  <2>4. \A m \in Mints : watching'[m] = Processor!NotWatched \/ watching'[m] = watching[m]
    BY <2>1
  <2> HIDE DEF SigInv
  <2> QED BY <1>1, <2>2, <2>3, <2>4, WatchStep
<1>2. ASSUME SigInv, Processor!RestEnds PROVE SigInv'
  <2>1. /\ UNCHANGED <<cache, threads, cooling, stale, pending, watching, dropping, reported>>
        /\ UNCHANGED Processor!procVars /\ engine' = "ready"
    BY <1>2 DEF Processor!RestEnds
  <2>2. /\ watching \in [Mints -> {Processor!NotWatched} \union [pool : Pools, expired : BOOLEAN]]
        /\ dropping \subseteq Mints
    BY <1>2 DEF Processor!TypeOK
  <2> HIDE DEF SigInv
  <2> QED BY <1>2, <2>1, <2>2, WatchStep
<1>3. ASSUME SigInv, Processor!WatchExpires PROVE SigInv'
  <2>1. PICK m \in Mints, y \in BOOLEAN :
          /\ watching[m] # Processor!NotWatched
          /\ watching' = [watching EXCEPT ![m].expired = y]
          /\ UNCHANGED <<cache, cooling, threads, pending, dropping, engine, stale, reported>>
          /\ UNCHANGED Processor!procVars
    BY <1>3 DEF Processor!WatchExpires
  <2>2. PICK q \in Pools, x \in BOOLEAN : watching[m] = [pool |-> q, expired |-> x]
    BY <1>3, <2>1 DEF Processor!TypeOK
  <2>3. [watching[m] EXCEPT !.expired = y] = [pool |-> q, expired |-> y]
    BY <2>2, Expire
  <2>4. watching' = [watching EXCEPT ![m] = [pool |-> q, expired |-> y]]
    BY <2>1, <2>3
  <2>5. watching' \in [Mints -> {Processor!NotWatched} \union [pool : Pools, expired : BOOLEAN]]
    <3>1. [pool |-> q, expired |-> y] \in [pool : Pools, expired : BOOLEAN]
      OBVIOUS
    <3> QED BY <1>3, <2>4, <3>1 DEF Processor!TypeOK
  <2>6. /\ watching'[m].pool = watching[m].pool
        /\ \A n \in Mints : n # m => watching'[n] = watching[n]
    BY <1>3, <2>2, <2>4 DEF Processor!TypeOK
  <2> QED BY <1>3, <2>1, <2>5, <2>6, WatchStep DEF Processor!TypeOK
<1> QED BY <1>1, <1>2, <1>3

LEMMA CooldownStep == SigInv /\ Processor!CooldownEnds => SigInv'
<1> SUFFICES ASSUME SigInv, Processor!CooldownEnds PROVE SigInv'
  OBVIOUS
<1> USE DEF SigInv
<1>1. /\ cooling' \subseteq cooling
      /\ UNCHANGED <<cache, watching, threads, pending, dropping, engine, stale, reported>>
      /\ UNCHANGED Processor!procVars
  BY DEF Processor!CooldownEnds
<1>2. Processor!TypeOK'
  BY <1>1 DEF Processor!TypeOK, Processor!procVars
<1>3. ThreadsSound' /\ Processor!SecondPoolIsAnother'
  BY <1>1, SameCache, ThreadsStay, ReportsStay
<1>4. PhasesSound' /\ Processor!ForwardedOnce'
  BY <1>1, PhasesStay
<1>5. WatchedGraduated' /\ Announced'
  BY <1>1 DEF WatchedGraduated, Announced, Owed, Processor!procVars
<1> QED BY <1>2, <1>3, <1>4, <1>5

LEMMA LiquidityStep == SigInv /\ Processor!LiquidityAndFilter => SigInv'
<1> SUFFICES ASSUME SigInv, Processor!LiquidityAndFilter PROVE SigInv'
  OBVIOUS
<1> USE DEF SigInv
<1>1. /\ pc = "liquidity" /\ tx \in Txs /\ sent = {} /\ ~Processor!Graduates(tx)
      /\ at \in Nat \ {0}
      /\ pc' = IF \E i \in DOMAIN tx : tx[i].prog \in Processor!Monitored THEN "observe" ELSE "idle"
      /\ UNCHANGED <<taken, cache, watching, cooling, threads, dropping, engine, tx, at, sent, stale, reported>>
      /\ Processor!Signal("event") \/ UNCHANGED pending
  BY DEF Processor!LiquidityAndFilter, PhasesSound
<1>2. pending' \in {"none", "transaction", "event"} /\ (pending # "none" => pending' # "none")
  BY <1>1, EventQueued DEF Processor!TypeOK
<1>3. Processor!TypeOK'
  BY <1>1, <1>2 DEF Processor!TypeOK
<1>4. ThreadsSound' /\ Processor!SecondPoolIsAnother'
  BY <1>1, SameCache, ThreadsStay, ReportsStay
<1>5. PhasesSound' /\ Processor!ForwardedOnce'
  BY <1>1 DEF PhasesSound, Processor!ForwardedOnce
<1>6. WatchedGraduated'
  BY <1>1 DEF WatchedGraduated
<1>7. Announced'
  BY <1>1, <1>2 DEF Announced, Owed
<1> QED BY <1>3, <1>4, <1>5, <1>6, <1>7

\* The threads of an alert are sound, whatever they will do.
LEMMA AlertThreads ==
  ASSUME SigInv, NEW q \in Pools, CacheGrows,
         NEW j \in Processor!SearchThread(MintOf[q]) \cup Processor!PredictedThread(q)
  PROVE  j \in Threads /\ Given(j)
<1>1. CASE j \in Processor!SearchThread(MintOf[q])
  <2>1. j = [kind |-> "search", mint |-> MintOf[q], left |-> DOMAIN Listed, seen |-> "none"]
    BY <1>1 DEF Processor!SearchThread
  <2>2. j \in SearchThreads
    BY <2>1, Assumed DEF SearchThreads
  <2> QED BY <2>1, <2>2 DEF Threads, Given
<1>2. CASE j \in Processor!PredictedThread(q)
  <2> DEFINE copies == {[pool |-> c, meta |-> cache[c].meta] : c \in Processor!Counterparts(q)}
  <2>1. j = [kind |-> "predicted", pool |-> q, left |-> copies, wrote |-> FALSE]
    BY <1>2 DEF Processor!PredictedThread
  <2>2. \A c \in Processor!Counterparts(q) :
          c \in Pools /\ cache[c].meta \in BOOLEAN /\ cache'[c] # Processor!Missing
    <3> SUFFICES ASSUME NEW c \in Processor!Counterparts(q)
                 PROVE  c \in Pools /\ cache[c].meta \in BOOLEAN /\ cache'[c] # Processor!Missing
      OBVIOUS
    <3>1. c \in Pools /\ Processor!Known(c)
      BY DEF Processor!Counterparts, Processor!PoolsForToken
    <3> QED BY <3>1, KnownEntry DEF SigInv, CacheGrows
  <2>3. \A d \in copies : d \in [pool : Pools, meta : BOOLEAN] /\ cache'[d.pool] # Processor!Missing
    BY <2>2
  <2> HIDE DEF copies
  <2>4. copies \in SUBSET [pool : Pools, meta : BOOLEAN]
    BY <2>3
  <2>5. j \in PredictedThreads
    BY <2>1, <2>4 DEF PredictedThreads
  <2> QED BY <2>1, <2>3, <2>5 DEF Threads, Given
<1> QED BY <1>1, <1>2

LEMMA PredictStep == SigInv /\ Processor!Predict => SigInv'
<1> SUFFICES ASSUME SigInv, Processor!Predict PROVE SigInv'
  OBVIOUS
<1> USE DEF SigInv
<1> DEFINE q == Processor!SwapPool
<1>1. PICK alert : /\ alert => q \in Pools
                   /\ Processor!Signal("event") \/ UNCHANGED pending
                   /\ IF alert /\ Processor!Venues(q) > 0 /\ MintOf[q] \notin cooling
                      THEN /\ cooling' = cooling \union {MintOf[q]}
                           /\ threads' = threads \union Processor!SearchThread(MintOf[q])
                                           \union Processor!PredictedThread(q)
                      ELSE UNCHANGED <<cooling, threads>>
  BY DEF Processor!Predict
<1>2. /\ pc = "observe" /\ pc' = "apply" /\ tx \in Txs /\ ~Processor!Graduates(tx)
      /\ UNCHANGED <<taken, cache, watching, dropping, engine, tx, at, sent, stale, reported>>
  BY DEF Processor!Predict, PhasesSound
<1>3. CacheGrows
  BY <1>2, SameCache
<1>4. ThreadsSound' /\ cooling' \subseteq Mints /\ threads \subseteq threads'
  <2>1. CASE q \in Pools /\ threads' = threads \union (Processor!SearchThread(MintOf[q])
                                           \union Processor!PredictedThread(q))
             /\ cooling' = cooling \union {MintOf[q]}
    <3> DEFINE new == Processor!SearchThread(MintOf[q]) \union Processor!PredictedThread(q)
    <3>1. \A j \in new : j \in Threads /\ Given(j)
      BY <1>3, <2>1, AlertThreads
    <3>2. threads' \subseteq threads \cup new
      BY <2>1
    <3> HIDE DEF new
    <3>3. ThreadsSound'
      BY <1>3, <3>1, <3>2, ThreadsGrow
    <3> QED BY <2>1, <3>3, Assumed DEF Processor!TypeOK
  <2>2. CASE UNCHANGED <<cooling, threads>>
    BY <1>3, <2>2, ThreadsStay DEF Processor!TypeOK
  <2>3. CASE alert /\ Processor!Venues(q) > 0 /\ MintOf[q] \notin cooling
    BY <1>1, <2>1, <2>3
  <2> QED BY <1>1, <2>2, <2>3
<1> HIDE DEF q
<1>6. pending' \in {"none", "transaction", "event"} /\ (pending # "none" => pending' # "none")
  BY <1>1, EventQueued DEF Processor!TypeOK
<1>7. Processor!TypeOK'
  BY <1>2, <1>4, <1>6 DEF Processor!TypeOK
<1>8. Processor!SecondPoolIsAnother'
  BY <1>2, <1>3, ReportsStay
<1>9. PhasesSound' /\ Processor!ForwardedOnce'
  BY <1>2 DEF PhasesSound, Processor!ForwardedOnce
<1>10. WatchedGraduated'
  BY <1>2 DEF WatchedGraduated
<1>11. Announced'
  BY <1>2, <1>4, <1>6 DEF Announced, Owed
<1> QED BY <1>4, <1>7, <1>8, <1>9, <1>10, <1>11

LEMMA ApplyStep == SigInv /\ Processor!ApplySwap => SigInv'
<1> SUFFICES ASSUME SigInv, Processor!ApplySwap PROVE SigInv'
  OBVIOUS
<1> USE DEF SigInv
<1> DEFINE q == Processor!SwapPool
           swap == Processor!Swap
           impact == Processor!Impact(swap)
           others == Processor!Counterparts(q)
<1>1. /\ pc = "apply" /\ pc' = "observe" /\ tx \in Txs /\ ~Processor!Graduates(tx)
      /\ at \in Nat \ {0} /\ at' = at + 1
      /\ UNCHANGED <<taken, watching, cooling, dropping, engine, tx, reported>>
  BY DEF Processor!ApplySwap, PhasesSound
<1>2. CASE q \in Pools /\ Processor!Known(q)
  <2>1. /\ cache' = Processor!Moved(swap)
        /\ stale' = IF swap.amount = "none" THEN stale ELSE stale \union {<<q, Processor!Position>>}
        /\ \E spread \in BOOLEAN :
             /\ sent' = sent \union (IF impact \in {"whale", "huge"} THEN {"whale"} ELSE {})
             /\ IF spread \/ impact \in {"whale", "huge"} THEN Processor!Signal("event")
                ELSE UNCHANGED pending
        /\ threads' = IF impact = "huge" /\ others # {}
                      THEN threads \union {[kind |-> "reactive", pool |-> q, left |-> others]}
                      ELSE threads
    BY <1>2 DEF Processor!ApplySwap
  <2>2. swap.pool = q
    BY DEF Processor!SwapPool
  <2> HIDE DEF q, swap
  <2>3. CacheGrows
    <3>1. cache' = cache \/ cache' = [cache EXCEPT ![q].from = "partial"]
      BY <2>1, <2>2 DEF Processor!Moved
    <3> QED BY <1>2, <3>1, SameCache, WriteFrom
  <2>4. ThreadsSound' /\ threads \subseteq threads'
    <3> DEFINE new == {[kind |-> "reactive", pool |-> q, left |-> others]}
    <3>1. others \in SUBSET Pools
      BY DEF Processor!Counterparts, Processor!PoolsForToken
    <3> HIDE DEF others
    <3>2. \A j \in new : j \in Threads /\ Given(j)
      BY <1>2, <3>1 DEF Threads, ReactiveThreads, Given
    <3>3. threads' \subseteq threads \cup new /\ threads \subseteq threads'
      BY <2>1
    <3> HIDE DEF new
    <3> QED BY <2>3, <3>2, <3>3, ThreadsGrow
  <2>5. /\ sent \subseteq sent' /\ sent' \subseteq sent \cup {"whale"}
        /\ pending' \in {"none", "transaction", "event"} /\ (pending # "none" => pending' # "none")
        /\ "whale" \in sent' => pending' # "none" \/ "whale" \in sent
    <3>1. PICK spread \in BOOLEAN :
             /\ sent' = sent \union (IF impact \in {"whale", "huge"} THEN {"whale"} ELSE {})
             /\ IF spread \/ impact \in {"whale", "huge"} THEN Processor!Signal("event")
                ELSE UNCHANGED pending
      BY <2>1
    <3> HIDE DEF impact
    <3>2. CASE Processor!Signal("event")
      BY <3>1, <3>2, EventQueued
    <3>3. CASE pending' = pending /\ impact \notin {"whale", "huge"}
      BY <3>1, <3>3 DEF Processor!TypeOK
    <3> QED BY <3>1, <3>2, <3>3
  <2>6. stale' \subseteq Pools \X {"leading", "trailing"}
    BY <1>2, <2>1 DEF Processor!TypeOK, Processor!Position
  <2>7. Processor!TypeOK'
    BY <1>1, <2>3, <2>5, <2>6 DEF CacheGrows, Processor!TypeOK
  <2>8. Processor!SecondPoolIsAnother'
    BY <1>1, <2>3, ReportsStay
  <2>9. PhasesSound' /\ Processor!ForwardedOnce'
    BY <1>1, <2>5 DEF PhasesSound, Processor!ForwardedOnce
  <2>10. WatchedGraduated'
    BY <1>1 DEF WatchedGraduated
  <2>11. Announced'
    <3>1. CASE "whale" \notin sent'
      BY <1>1, <3>1 DEF Announced, Owed
    <3>2. CASE "whale" \in sent' /\ "whale" \notin sent
      BY <2>5, <3>2 DEF Announced
    <3>3. CASE "whale" \in sent
      <4>1. \A w \in stale' : w \in stale \/ w[2] = "trailing"
        BY <2>1, <3>3 DEF Processor!Position
      <4> QED BY <2>4, <2>5, <3>3, <4>1 DEF Announced, Owed
    <3> QED BY <3>1, <3>2, <3>3
  <2> QED BY <2>4, <2>7, <2>8, <2>9, <2>10, <2>11
<1>3. CASE ~(q \in Pools /\ Processor!Known(q))
  <2>1. UNCHANGED <<cache, stale, sent, pending, threads>>
    BY <1>3 DEF Processor!ApplySwap
  <2>2. ThreadsSound' /\ Processor!SecondPoolIsAnother' /\ Processor!TypeOK'
    BY <1>1, <2>1, SameCache, ThreadsStay, ReportsStay DEF Processor!TypeOK
  <2>3. PhasesSound' /\ Processor!ForwardedOnce'
    BY <1>1, <2>1 DEF PhasesSound, Processor!ForwardedOnce
  <2>4. WatchedGraduated' /\ Announced'
    BY <1>1, <2>1 DEF WatchedGraduated, Announced, Owed
  <2> QED BY <2>2, <2>3, <2>4
<1> QED BY <1>2, <1>3

LEMMA ForwardStep == SigInv /\ Processor!Forward => SigInv'
<1> SUFFICES ASSUME SigInv, Processor!Forward PROVE SigInv'
  OBVIOUS
<1> USE DEF SigInv
<1>1. /\ pc = "observe" /\ pc' = "idle" /\ tx \in Txs /\ ~Processor!Graduates(tx)
      /\ at' = 1
      /\ UNCHANGED <<taken, cache, watching, cooling, threads, dropping, engine, tx, stale, reported>>
  BY DEF Processor!Forward, PhasesSound
<1>2. \/ "whale" \in sent /\ UNCHANGED <<sent, pending>>
      \/ "whale" \notin sent /\ sent' = sent \union {"transaction"} /\ Processor!Signal("transaction")
  BY DEF Processor!Forward
<1>2a. Processor!Signal("transaction") =>
         pending' \in {"none", "transaction", "event"} /\ pending' # "none"
  BY TransactionQueued
<1>3. Processor!TypeOK'
  BY <1>1, <1>2, <1>2a DEF Processor!TypeOK
<1>4. ThreadsSound' /\ Processor!SecondPoolIsAnother'
  BY <1>1, SameCache, ThreadsStay, ReportsStay
<1>5. PhasesSound'
  BY <1>1, <1>2 DEF PhasesSound
<1>6. Processor!ForwardedOnce'
  <2>1. "transaction" \notin sent /\ \E i \in DOMAIN tx : tx[i].prog \in Processor!Monitored
    BY <1>1 DEF PhasesSound
  <2>2. ("whale" \in sent') # ("transaction" \in sent')
    BY <1>2, <2>1
  <2> QED BY <1>1, <2>1, <2>2 DEF Processor!ForwardedOnce
<1>7. WatchedGraduated'
  BY <1>1 DEF WatchedGraduated
<1>8. Announced'
  BY <1>1, <1>2, <1>2a DEF Announced, Owed
<1> QED BY <1>3, <1>4, <1>5, <1>6, <1>7, <1>8

LEMMA UnrelatedStep == SigInv /\ Processor!ForwardUnrelated => SigInv'
<1> SUFFICES ASSUME SigInv, Processor!ForwardUnrelated PROVE SigInv'
  OBVIOUS
<1> USE DEF SigInv
<1>1. /\ Processor!Signal("transaction")
      /\ UNCHANGED <<cache, watching, cooling, threads, dropping, engine, stale, reported>>
      /\ UNCHANGED Processor!procVars
  BY DEF Processor!ForwardUnrelated
<1>2. pending' \in {"none", "transaction", "event"} /\ pending' # "none"
  BY <1>1, TransactionQueued
<1>3. Processor!TypeOK'
  BY <1>1, <1>2 DEF Processor!TypeOK, Processor!procVars
<1>4. ThreadsSound' /\ Processor!SecondPoolIsAnother'
  BY <1>1, SameCache, ThreadsStay, ReportsStay
<1>5. PhasesSound' /\ Processor!ForwardedOnce'
  BY <1>1, PhasesStay
<1>6. WatchedGraduated' /\ Announced'
  BY <1>1, <1>2 DEF WatchedGraduated, Announced
<1> QED BY <1>3, <1>4, <1>5, <1>6

-----------------------------------------------------------------------------
(* The refresh threads and the search.                                      *)

\* A thread's step: it may announce what it wrote, and goes on as next, sound
\* ones, or ends.
LEMMA ThreadStep ==
  ASSUME SigInv, CacheGrows, NEW j \in threads, NEW next,
         threads' = (threads \ {j}) \union next,
         \A k \in next : k \in Threads /\ Given(k),
         UNCHANGED <<watching, cooling, dropping, engine, reported>>, UNCHANGED Processor!procVars,
         pending' \in {"none", "transaction", "event"}, stale' \subseteq Pools \X {"leading", "trailing"},
         Announced'
  PROVE  SigInv'
<1> USE DEF SigInv
<1>1. Processor!TypeOK'
  BY DEF Processor!TypeOK, Processor!procVars, CacheGrows
<1>2. ThreadsSound' /\ Processor!SecondPoolIsAnother'
  BY ThreadsGrow, ReportsStay
<1>3. PhasesSound' /\ Processor!ForwardedOnce'
  BY PhasesStay
<1>4. WatchedGraduated'
  BY DEF WatchedGraduated
<1> QED BY <1>1, <1>2, <1>3, <1>4

\* The thread ends.
LEMMA ThreadEnds ==
  ASSUME SigInv, CacheGrows, NEW j \in threads, threads' = threads \ {j},
         UNCHANGED <<watching, cooling, dropping, engine, reported, stale>>, UNCHANGED Processor!procVars,
         pending' \in {"none", "transaction", "event"}, Announced'
  PROVE  SigInv'
<1> DEFINE next == {}
<1>1. threads' = (threads \ {j}) \union next /\ \A k \in next : k \in Threads /\ Given(k)
  OBVIOUS
<1>2. stale' \subseteq Pools \X {"leading", "trailing"}
  BY DEF SigInv, Processor!TypeOK
<1> HIDE DEF next
<1> QED BY <1>1, <1>2, ThreadStep

\* Nothing is written, and the thread that goes on owes what j owed.
LEMMA NothingWritten ==
  ASSUME Announced, NEW j \in threads, NEW next, threads' = (threads \ {j}) \union next,
         j.kind = "predicted" /\ j.wrote => \E k \in next : k.kind = "predicted" /\ k.wrote,
         stale' = stale, pending' = pending, UNCHANGED Processor!procVars
  PROVE  Announced'
<1>1. CASE \E k \in threads : k.kind = "predicted" /\ k.wrote
  <2>1. PICK k \in threads : k.kind = "predicted" /\ k.wrote
    BY <1>1
  <2>2. CASE k = j
    BY <2>1, <2>2 DEF Announced, Owed
  <2>3. CASE k # j
    BY <2>1, <2>3 DEF Announced, Owed
  <2> QED BY <2>2, <2>3
<1>2. CASE ~\E k \in threads : k.kind = "predicted" /\ k.wrote
  BY <1>2 DEF Announced, Owed, Processor!procVars
<1> QED BY <1>1, <1>2

LEMMA RefreshGraduatedStep == SigInv /\ Processor!RefreshGraduated => SigInv'
<1> SUFFICES ASSUME SigInv, Processor!RefreshGraduated PROVE SigInv'
  OBVIOUS
<1> USE DEF SigInv
<1>1. PICK j \in threads :
        /\ j.kind = "graduated" /\ threads' = threads \ {j}
        /\ \/ UNCHANGED cache
           \/ cache' = [cache EXCEPT ![j.pool].from = "chain"]
        /\ UNCHANGED <<watching, cooling, pending, dropping, engine, stale, reported>>
        /\ UNCHANGED Processor!procVars
  BY DEF Processor!RefreshGraduated
<1>2. j.pool \in Pools /\ Processor!Known(j.pool)
  BY <1>1, Kinds DEF ThreadsSound, GraduatedThreads
<1>3. CacheGrows
  BY <1>1, <1>2, SameCache, WriteFrom
<1>4. threads' = (threads \ {j}) \union {}
  BY <1>1
<1>5. Announced'
  BY <1>1, <1>4, NothingWritten
<1>6. pending' \in {"none", "transaction", "event"}
  BY <1>1 DEF Processor!TypeOK
<1> HIDE DEF SigInv
<1> QED BY <1>1, <1>3, <1>5, <1>6, ThreadEnds

LEMMA RefreshReactiveStep == SigInv /\ Processor!RefreshReactive => SigInv'
<1> SUFFICES ASSUME SigInv, Processor!RefreshReactive PROVE SigInv'
  OBVIOUS
<1> USE DEF SigInv
<1>1. PICK j \in threads :
        /\ j.kind = "reactive"
        /\ IF j.left = {}
           THEN /\ threads' = threads \ {j}
                /\ UNCHANGED <<cache, watching, cooling, pending, dropping, engine, stale, reported>>
                /\ UNCHANGED Processor!procVars
           ELSE \E c \in j.left :
             /\ threads' = (threads \ {j}) \union {[j EXCEPT !.left = @ \ {c}]}
             /\ \/ UNCHANGED <<cache, stale, pending>>
                \/ /\ Processor!Known(c)
                   /\ cache' = Processor!Fetched(c)
                   /\ stale' = IF cache' = cache THEN stale ELSE stale \union {<<c, "leading">>}
                   /\ Processor!Signal("event")
             /\ UNCHANGED <<watching, cooling, dropping, engine, reported>>
             /\ UNCHANGED Processor!procVars
  BY DEF Processor!RefreshReactive
<1>2. PICK p \in Pools, left \in SUBSET Pools : j = [kind |-> "reactive", pool |-> p, left |-> left]
  <2>1. j \in ReactiveThreads
    BY <1>1, Kinds DEF ThreadsSound
  <2> QED BY <2>1 DEF ReactiveThreads
<1>3. CASE j.left = {}
  <2>1. /\ threads' = threads \ {j} /\ threads' = (threads \ {j}) \union {} /\ CacheGrows
        /\ UNCHANGED <<watching, cooling, pending, dropping, engine, stale, reported>>
        /\ UNCHANGED Processor!procVars
    BY <1>1, <1>3, SameCache
  <2>2. Announced'
    BY <1>1, <2>1, NothingWritten
  <2>3. pending' \in {"none", "transaction", "event"}
    BY <2>1 DEF Processor!TypeOK
  <2> HIDE DEF SigInv
  <2> QED BY <2>1, <2>2, <2>3, ThreadEnds
<1>4. CASE j.left # {}
  <2>1. PICK c \in j.left :
          /\ threads' = (threads \ {j}) \union {[j EXCEPT !.left = @ \ {c}]}
          /\ \/ UNCHANGED <<cache, stale, pending>>
             \/ /\ Processor!Known(c)
                /\ cache' = Processor!Fetched(c)
                /\ stale' = IF cache' = cache THEN stale ELSE stale \union {<<c, "leading">>}
                /\ Processor!Signal("event")
          /\ UNCHANGED <<watching, cooling, dropping, engine, reported>>
          /\ UNCHANGED Processor!procVars
    BY <1>1, <1>4
  <2>2. c \in Pools
    BY <1>2
  <2> DEFINE next == {[kind |-> "reactive", pool |-> p, left |-> left \ {c}]}
  <2>3. threads' = (threads \ {j}) \union next
    BY <1>2, <2>1
  <2>4. CacheGrows
    BY <2>1, <2>2, SameCache, WriteFrom DEF Processor!Fetched
  <2>5. \A k \in next : k \in Threads /\ Given(k)
    BY <2>2 DEF Threads, ReactiveThreads, Given
  <2> HIDE DEF next
  <2>6. Announced'
    <3>1. CASE UNCHANGED <<cache, stale, pending>>
      BY <1>1, <2>1, <2>3, <3>1, NothingWritten
    <3>2. CASE Processor!Signal("event")
      BY <3>2, EventQueued DEF Announced
    <3> QED BY <2>1, <3>1, <3>2
  <2>7. pending' \in {"none", "transaction", "event"} /\ stale' \subseteq Pools \X {"leading", "trailing"}
    <3>1. CASE UNCHANGED <<cache, stale, pending>>
      BY <3>1 DEF Processor!TypeOK
    <3>2. CASE /\ Processor!Signal("event")
               /\ stale' = IF cache' = cache THEN stale ELSE stale \union {<<c, "leading">>}
      BY <2>2, <3>2, EventQueued DEF Processor!TypeOK
    <3> QED BY <2>1, <3>1, <3>2
  <2> HIDE DEF SigInv
  <2> QED BY <2>1, <2>3, <2>4, <2>5, <2>6, <2>7, ThreadStep
<1> QED BY <1>3, <1>4

LEMMA RefreshPredictedStep == SigInv /\ Processor!RefreshPredicted => SigInv'
<1> SUFFICES ASSUME SigInv, Processor!RefreshPredicted PROVE SigInv'
  OBVIOUS
<1> USE DEF SigInv
<1>1. PICK j \in threads :
        /\ j.kind = "predicted"
        /\ IF j.left = {}
           THEN /\ threads' = threads \ {j}
                /\ IF Processor!Announces(j) THEN Processor!Signal("event") ELSE UNCHANGED pending
                /\ UNCHANGED <<cache, watching, cooling, dropping, engine, stale, reported>>
                /\ UNCHANGED Processor!procVars
           ELSE \E c \in j.left :
             /\ \/ /\ threads' = (threads \ {j}) \union {[j EXCEPT !.left = @ \ {c}]}
                   /\ UNCHANGED <<cache, stale>>
                \/ /\ cache' = Processor!Fetched(c.pool)
                   /\ stale' = stale \union {<<c.pool, "leading">>}
                   /\ threads' = (threads \ {j}) \union
                                 {[j EXCEPT !.left = @ \ {c}, !.wrote = TRUE]}
             /\ UNCHANGED <<watching, cooling, pending, dropping, engine, reported>>
             /\ UNCHANGED Processor!procVars
  BY DEF Processor!RefreshPredicted
<1>2. PICK p \in Pools, left \in SUBSET [pool : Pools, meta : BOOLEAN], wrote \in BOOLEAN :
        j = [kind |-> "predicted", pool |-> p, left |-> left, wrote |-> wrote]
  <2>1. j \in PredictedThreads
    BY <1>1, Kinds DEF ThreadsSound
  <2> QED BY <2>1 DEF PredictedThreads
<1>3. CASE j.left = {}
  <2>1. /\ threads' = threads \ {j}
        /\ IF j.wrote THEN Processor!Signal("event") ELSE UNCHANGED pending
        /\ UNCHANGED <<cache, watching, cooling, dropping, engine, stale, reported>>
        /\ UNCHANGED Processor!procVars
    BY <1>1, <1>3 DEF Processor!Announces
  <2>2. CacheGrows /\ threads' = (threads \ {j}) \union {}
    BY <2>1, SameCache
  <2>3. Announced'
    <3>1. CASE j.wrote
      BY <2>1, <3>1, EventQueued DEF Announced
    <3>2. CASE ~j.wrote
      BY <2>1, <2>2, <3>2, NothingWritten
    <3> QED BY <3>1, <3>2
  <2>4. pending' \in {"none", "transaction", "event"}
    <3>1. CASE Processor!Signal("event")
      BY <3>1, EventQueued
    <3>2. CASE pending' = pending
      BY <3>2 DEF Processor!TypeOK
    <3> QED BY <2>1, <3>1, <3>2
  <2> HIDE DEF SigInv
  <2> QED BY <2>1, <2>2, <2>3, <2>4, ThreadEnds
<1>4. CASE j.left # {}
  <2>1. PICK c \in j.left :
          /\ \/ /\ threads' = (threads \ {j}) \union {[j EXCEPT !.left = @ \ {c}]}
                /\ UNCHANGED <<cache, stale>>
             \/ /\ cache' = Processor!Fetched(c.pool)
                /\ stale' = stale \union {<<c.pool, "leading">>}
                /\ threads' = (threads \ {j}) \union
                              {[j EXCEPT !.left = @ \ {c}, !.wrote = TRUE]}
          /\ UNCHANGED <<watching, cooling, pending, dropping, engine, reported>>
          /\ UNCHANGED Processor!procVars
    BY <1>1, <1>4
  <2>2. c.pool \in Pools /\ Processor!Known(c.pool)
    BY <1>1, <1>2 DEF ThreadsSound
  <2>3. CacheGrows
    BY <2>1, <2>2, SameCache, WriteFrom DEF Processor!Fetched
  <2>3a. PICK yes \in BOOLEAN : yes = TRUE
    OBVIOUS
  <2>4. PICK more \in BOOLEAN :
          /\ threads' = (threads \ {j}) \union
                {[kind |-> "predicted", pool |-> p, left |-> left \ {c}, wrote |-> more]}
          /\ \/ more = wrote /\ UNCHANGED <<cache, stale>>
             \/ more = yes /\ stale' = stale \union {<<c.pool, "leading">>}
    <3>1. CASE threads' = (threads \ {j}) \union {[j EXCEPT !.left = @ \ {c}]}
               /\ UNCHANGED <<cache, stale>>
      <4>1. [j EXCEPT !.left = @ \ {c}]
              = [kind |-> "predicted", pool |-> p, left |-> left \ {c}, wrote |-> wrote]
        BY <1>2
      <4> QED BY <3>1, <4>1
    <3>2. CASE threads' = (threads \ {j}) \union {[j EXCEPT !.left = @ \ {c}, !.wrote = yes]}
               /\ stale' = stale \union {<<c.pool, "leading">>}
      <4>1. [j EXCEPT !.left = @ \ {c}, !.wrote = yes]
              = [kind |-> "predicted", pool |-> p, left |-> left \ {c}, wrote |-> yes]
        <5> DEFINE r == [j EXCEPT !.left = @ \ {c}]
        <5>1. r = [kind |-> "predicted", pool |-> p, left |-> left \ {c}, wrote |-> wrote]
          BY <1>2
        <5>2. [j EXCEPT !.left = @ \ {c}, !.wrote = yes] = [r EXCEPT !.wrote = yes]
          OBVIOUS
        <5> HIDE DEF r
        <5>3. [r EXCEPT !.wrote = yes]
                = [kind |-> "predicted", pool |-> p, left |-> left \ {c}, wrote |-> yes]
          BY <5>1
        <5> QED BY <5>2, <5>3
      <4> QED BY <3>2, <4>1
    <3> QED BY <2>1, <2>3a, <3>1, <3>2
  <2> DEFINE k == [kind |-> "predicted", pool |-> p, left |-> left \ {c}, wrote |-> more]
             next == {k}
  <2>5. \A x \in next : x \in Threads /\ Given(x)
    <3>1. k \in Threads
      BY DEF Threads, PredictedThreads
    <3>2. Given(j)
      BY <2>3, OldThread
    <3>3. Given(k)
      BY <1>2, <3>2 DEF Given
    <3> QED BY <3>1, <3>3
  <2>6. k.kind = "predicted" /\ k.wrote = more
    OBVIOUS
  <2>7. threads' = (threads \ {j}) \union next
    BY <2>4
  <2> HIDE DEF k
  <2>8. Announced'
    <3>1. CASE more = wrote /\ UNCHANGED <<cache, stale>>
      <4>1. j.wrote = wrote
        BY <1>2
      <4>2. j.wrote => k.wrote
        BY <2>6, <3>1, <4>1
      <4>3. \E x \in next : x = k
        OBVIOUS
      <4> HIDE DEF next
      <4> QED BY <2>1, <2>6, <2>7, <3>1, <4>2, <4>3, NothingWritten
    <3>2. CASE more = yes
      <4>1. k \in threads' /\ k.kind = "predicted" /\ k.wrote
        BY <2>3a, <2>6, <2>7, <3>2
      <4> QED BY <4>1 DEF Announced, Owed
    <3> QED BY <2>4, <3>1, <3>2
  <2> HIDE DEF next
  <2>9. pending' \in {"none", "transaction", "event"} /\ stale' \subseteq Pools \X {"leading", "trailing"}
    BY <2>1, <2>2 DEF Processor!TypeOK
  <2> HIDE DEF SigInv
  <2> QED BY <2>1, <2>3, <2>5, <2>7, <2>8, <2>9, ThreadStep
<1> QED BY <1>3, <1>4

LEMMA SearchLooksStep == SigInv /\ Processor!SearchLooks => SigInv'
<1> SUFFICES ASSUME SigInv, Processor!SearchLooks PROVE SigInv'
  OBVIOUS
<1> USE DEF SigInv
<1>1. PICK j \in threads :
        /\ j.kind = "search" /\ j.seen = "none"
        /\ \/ /\ threads' = threads \ {j}
              /\ UNCHANGED <<cache, watching, cooling, pending, dropping, engine, stale, reported>>
              /\ UNCHANGED Processor!procVars
           \/ \E p \in j.left :
                /\ threads' = (threads \ {j}) \union
                     {[j EXCEPT !.left = @ \ {p},
                                !.seen = IF Processor!Known(p) \/ MintOf[p] # j.mint THEN "none" ELSE p]}
                /\ UNCHANGED <<cache, watching, cooling, pending, dropping, engine, stale, reported>>
                /\ UNCHANGED Processor!procVars
  BY DEF Processor!SearchLooks
<1>2. PICK m \in Mints, left \in SUBSET DOMAIN Listed, seen0 \in DOMAIN Listed \cup {"none"} :
        j = [kind |-> "search", mint |-> m, left |-> left, seen |-> seen0]
  <2>1. j \in SearchThreads
    BY <1>1, Kinds DEF ThreadsSound
  <2> QED BY <2>1 DEF SearchThreads
<1>3. /\ CacheGrows /\ pending' = pending /\ pending' \in {"none", "transaction", "event"} /\ stale' = stale
      /\ UNCHANGED <<watching, cooling, dropping, engine, reported>> /\ UNCHANGED Processor!procVars
      /\ stale' \subseteq Pools \X {"leading", "trailing"}
  BY <1>1, SameCache DEF Processor!TypeOK
<1>4. CASE threads' = threads \ {j}
  <2>1. threads' = (threads \ {j}) \union {}
    BY <1>4
  <2>2. Announced'
    BY <1>1, <1>3, <2>1, NothingWritten
  <2> HIDE DEF SigInv
  <2> QED BY <1>3, <1>4, <2>2, ThreadEnds
<1>5. ASSUME NEW p \in j.left,
             threads' = (threads \ {j}) \union
               {[j EXCEPT !.left = @ \ {p},
                          !.seen = IF Processor!Known(p) \/ MintOf[p] # j.mint THEN "none" ELSE p]}
      PROVE  SigInv'
  <2>1. PICK found \in DOMAIN Listed \cup {"none"} :
          found = IF Processor!Known(p) \/ MintOf[p] # j.mint THEN "none" ELSE p
    BY <1>2
  <2> DEFINE k == [j EXCEPT !.left = @ \ {p}, !.seen = found]
             next == {k}
  <2>2. threads' = (threads \ {j}) \union next
    BY <1>5, <2>1
  <2>3. k = [kind |-> "search", mint |-> m, left |-> left \ {p}, seen |-> found]
    <3> DEFINE r == [j EXCEPT !.left = @ \ {p}]
    <3>1. r = [kind |-> "search", mint |-> m, left |-> left \ {p}, seen |-> seen0]
      BY <1>2
    <3>2. k = [r EXCEPT !.seen = found]
      OBVIOUS
    <3> HIDE DEF r, k
    <3> QED BY <3>1, <3>2
  <2>4. k \in SearchThreads
    BY <2>3 DEF SearchThreads
  <2> HIDE DEF k
  <2>5. \A x \in next : x \in Threads /\ Given(x)
    BY <2>3, <2>4 DEF Threads, Given
  <2> HIDE DEF next
  <2>6. Announced'
    BY <1>1, <1>3, <2>2, NothingWritten
  <2> HIDE DEF SigInv
  <2> QED BY <1>3, <2>2, <2>5, <2>6, ThreadStep
<1> QED BY <1>1, <1>4, <1>5

LEMMA SearchInsertsStep == SigInv /\ Processor!SearchInserts => SigInv'
<1> SUFFICES ASSUME SigInv, Processor!SearchInserts PROVE SigInv'
  OBVIOUS
<1> USE DEF SigInv
<1>1. PICK j \in threads :
        /\ j.kind = "search" /\ j.seen # "none"
        /\ cache' = Processor!Upserted(j.seen, Listed[j.seen], "estimate")
        /\ threads' = (threads \ {j}) \union {[j EXCEPT !.seen = "none"]}
        /\ UNCHANGED <<watching, cooling, pending, dropping, engine, stale, reported>>
        /\ UNCHANGED Processor!procVars
  BY DEF Processor!SearchInserts
<1>2. PICK m \in Mints, left \in SUBSET DOMAIN Listed, p \in DOMAIN Listed :
        j = [kind |-> "search", mint |-> m, left |-> left, seen |-> p]
  <2>1. j \in SearchThreads
    BY <1>1, Kinds DEF ThreadsSound
  <2> QED BY <1>1, <2>1 DEF SearchThreads
<1>3. CacheGrows
  <2> DEFINE e == [dex |-> Listed[p], from |-> "estimate", meta |-> FALSE]
  <2>1. p \in Pools /\ Listed[p] \in Dexes
    BY Assumed
  <2>2. cache' = [cache EXCEPT ![p] = e]
    BY <1>1, <1>2 DEF Processor!Upserted, Processor!Entry
  <2>3. e \in [dex : Dexes, from : {"empty", "partial", "estimate", "chain"}, meta : BOOLEAN]
    BY <2>1
  <2> HIDE DEF e
  <2> QED BY <2>1, <2>2, <2>3, WriteEntry
<1> DEFINE k == [kind |-> "search", mint |-> m, left |-> left, seen |-> "none"]
           next == {k}
<1>4. threads' = (threads \ {j}) \union next
  BY <1>1, <1>2
<1>5. \A x \in next : x \in Threads /\ Given(x)
  BY DEF Threads, SearchThreads, Given
<1> HIDE DEF next
<1>6. Announced'
  BY <1>1, <1>4, NothingWritten
<1>7. pending' \in {"none", "transaction", "event"} /\ stale' \subseteq Pools \X {"leading", "trailing"}
  BY <1>1 DEF Processor!TypeOK
<1> HIDE DEF SigInv
<1> QED BY <1>1, <1>3, <1>4, <1>5, <1>6, <1>7, ThreadStep

LEMMA HydrateStep == SigInv /\ Processor!Hydrate => SigInv'
<1> SUFFICES ASSUME SigInv, Processor!Hydrate PROVE SigInv'
  OBVIOUS
<1> USE DEF SigInv
<1>0. PICK yes \in BOOLEAN : yes = TRUE
  OBVIOUS
<1>1. PICK p \in Pools :
        /\ Processor!Known(p)
        /\ cache' = [cache EXCEPT ![p].from = "chain", ![p].meta = yes]
        /\ UNCHANGED <<watching, cooling, threads, pending, dropping, engine, stale, reported>>
        /\ UNCHANGED Processor!procVars
  BY <1>0 DEF Processor!Hydrate
<1> DEFINE e == [dex |-> cache[p].dex, from |-> "chain", meta |-> yes]
           first == [cache EXCEPT ![p].from = "chain"]
<1>2. CacheGrows
  <2>1. e \in [dex : Dexes, from : {"empty", "partial", "estimate", "chain"}, meta : BOOLEAN]
    BY <1>1, KnownEntry
  <2>2. cache' = [first EXCEPT ![p].meta = yes]
    BY <1>1
  <2>3. PICK d, g, w : cache[p] = [dex |-> d, from |-> g, meta |-> w]
    BY <1>1, KnownEntry
  <2>4. /\ first[p] = [dex |-> d, from |-> "chain", meta |-> w]
        /\ first \in [Pools -> {first[x] : x \in Pools}]
        /\ \A x \in Pools : x # p => first[x] = cache[x]
    BY <2>3 DEF Processor!TypeOK
  <2> HIDE DEF first
  <2>5. [first[p] EXCEPT !.meta = yes] = e
    <3>1. cache[p].dex = d
      BY <2>3
    <3> QED BY <2>4, <3>1
  <2> HIDE DEF e
  <2>6. cache' = [first EXCEPT ![p] = e]
    BY <2>2, <2>5
  <2>7. cache' = [cache EXCEPT ![p] = e]
    BY <2>4, <2>6 DEF Processor!TypeOK
  <2> QED BY <1>1, <2>1, <2>7, WriteEntry
<1>3. Processor!TypeOK'
  BY <1>1, <1>2 DEF CacheGrows, Processor!TypeOK, Processor!procVars
<1>4. ThreadsSound' /\ Processor!SecondPoolIsAnother'
  BY <1>1, <1>2, ThreadsStay, ReportsStay
<1>5. PhasesSound' /\ Processor!ForwardedOnce'
  BY <1>1, PhasesStay
<1>6. WatchedGraduated' /\ Announced'
  BY <1>1 DEF WatchedGraduated, Announced, Owed, Processor!procVars
<1> QED BY <1>3, <1>4, <1>5, <1>6

LEMMA SignalsStep == SigInv /\ [Processor!Next]_processorVars => SigInv'
<1>1. ASSUME SigInv, UNCHANGED processorVars PROVE SigInv'
  <2> USE DEF SigInv, processorVars
  <2>1. Processor!TypeOK' /\ UNCHANGED Processor!procVars
    BY <1>1 DEF Processor!TypeOK, Processor!procVars
  <2>2. ThreadsSound' /\ Processor!SecondPoolIsAnother'
    BY <1>1, SameCache, ThreadsStay, ReportsStay
  <2>3. PhasesSound' /\ Processor!ForwardedOnce'
    BY <1>1, <2>1, PhasesStay
  <2>4. WatchedGraduated' /\ Announced'
    BY <1>1 DEF WatchedGraduated, Announced, Owed
  <2> QED BY <2>1, <2>2, <2>3, <2>4
<1>2. ASSUME SigInv, Processor!Processor PROVE SigInv'
  BY <1>2, GraduateStep, GraduationSignalStep, CreatePoolStep, ForgetStep, LiquidityStep,
     PredictStep, ApplyStep, ForwardStep, UnrelatedStep DEF Processor!Processor
<1>3. ASSUME SigInv, Processor!Engine PROVE SigInv'
  BY <1>3, EngineWakesStep, EngineDropsStep, SweepSteps
     DEF Processor!Engine, Processor!EngineTooOld, Processor!EngineRests
<1>4. ASSUME SigInv,
             \/ Processor!RefreshGraduated \/ Processor!RefreshReactive \/ Processor!RefreshPredicted
             \/ Processor!SearchLooks \/ Processor!SearchInserts \/ Processor!Hydrate
      PROVE  SigInv'
  BY <1>4, RefreshGraduatedStep, RefreshReactiveStep, RefreshPredictedStep, SearchLooksStep,
     SearchInsertsStep, HydrateStep
<1>5. ASSUME SigInv,
             \/ Processor!Receive \/ Processor!RestEnds
             \/ Processor!WatchExpires \/ Processor!CooldownEnds
      PROVE  SigInv'
  BY <1>5, ReceiveStep, SweepSteps, CooldownStep
<1> QED BY <1>1, <1>2, <1>3, <1>4, <1>5 DEF Processor!Next

\* Once the processor and the threads of swaps are done, nothing is owed.
LEMMA SigInvComplete == SigInv => SignalsAreComplete
  BY DEF SigInv, SignalsAreComplete, Announced, Owed, Processor!ChangesAreAnnounced,
         Processor!Settled

\* A step of the pipeline is a step of the processor or leaves it alone.
LEMMA ProcessorSteps ==
  [MCNext]_<<part, vars, processorVars, trackerVars>> => [Processor!Next]_processorVars
  BY DEF MCNext

\* Every message the processor owes the route engine goes out, whatever the
\* transactions, the pools and the interleaving of its threads, also when the
\* engine drops what it takes: one signal per forwarded transaction, one after
\* every write that no whale swap preceded, and no opportunity between a pool and itself (handle_new_tx, refresh threads,
\* on_new_pool_detected, check_watched_tokens).
THEOREM SignalsStayComplete == MCSpec => []SignalsAreComplete
<1>1. MCInit => SigInv
  BY InitSignals DEF MCInit
<1>2. SigInv /\ [MCNext]_<<part, vars, processorVars, trackerVars>> => SigInv'
  BY SignalsStep, ProcessorSteps
<1> QED BY <1>1, <1>2, SigInvComplete, PTL DEF MCSpec

\* What EstimatesYield says of one pool and one step.
Yields(p) ==
  cache[p] # Processor!Missing /\ cache[p].from = "chain" =>
    \/ cache'[p].from = "chain"
    \/ pc = "classify" /\ Processor!Graduates(tx) /\ Processor!Graduation(tx).pool = p
    \/ \E j \in threads : j.kind = "search" /\ j.seen = p

LEMMA EntryReplaced ==
  ASSUME Processor!TypeOK, NEW p \in Pools, NEW q, NEW e, cache' = [cache EXCEPT ![q] = e],
         p # q
  PROVE  cache'[p] = cache[p]
  BY DEF Processor!TypeOK

\* Setting where a pool's reserves come from changes no other pool's.
LEMMA FromReplaced ==
  ASSUME Processor!TypeOK, NEW p \in Pools, NEW q, NEW f, cache' = [cache EXCEPT ![q].from = f]
  PROVE  IF p = q /\ Processor!Known(p) THEN cache'[p].from = f
         ELSE p # q => cache'[p] = cache[p]
<1>1. CASE p = q /\ Processor!Known(p)
  <2>1. cache'[p] = [cache[p] EXCEPT !.from = f]
    BY <1>1 DEF Processor!TypeOK
  <2>2. PICK d, g, w : cache[p] = [dex |-> d, from |-> g, meta |-> w]
    BY <1>1, KnownEntry
  <2> QED BY <1>1, <2>1, <2>2
<1>2. CASE p # q
  BY <1>2 DEF Processor!TypeOK
<1> QED BY <1>1, <1>2

LEMMA EstimatesYieldStep ==
  ASSUME SigInv, [Processor!Next]_processorVars, NEW p \in Pools
  PROVE  Yields(p)
<1> SUFFICES ASSUME cache[p] # Processor!Missing, cache[p].from = "chain"
             PROVE  \/ cache'[p].from = "chain"
                    \/ /\ pc = "classify" /\ Processor!Graduates(tx)
                       /\ Processor!Graduation(tx).pool = p
                    \/ \E j \in threads : j.kind = "search" /\ j.seen = p
  BY DEF Yields
<1>0. Processor!TypeOK /\ Processor!Known(p)
  BY DEF SigInv, Processor!Known
<1>1. CASE UNCHANGED cache
  BY <1>1
<1>2. CASE Processor!Graduate
  <2> DEFINE g == Processor!Graduation(tx)
  <2>1. CASE Processor!Graduates(tx)
    <3>1. PICK e : cache' = [cache EXCEPT ![g.pool] = e]
      BY <1>2, <2>1 DEF Processor!Graduate, Processor!Upserted
    <3>2. pc = "classify"
      BY <1>2 DEF Processor!Graduate
    <3> QED BY <1>0, <2>1, <3>1, <3>2, EntryReplaced
  <2>2. CASE ~Processor!Graduates(tx)
    BY <1>1, <1>2, <2>2 DEF Processor!Graduate
  <2> QED BY <2>1, <2>2
<1>3. CASE Processor!CreatePool
  <2>1. PICK c : UNCHANGED cache \/ cache' = Processor!InsertCreated(c)
    BY <1>3 DEF Processor!CreatePool
  <2>2. \/ UNCHANGED cache
        \/ ~Processor!Known(c.pool) /\ \E e : cache' = [cache EXCEPT ![c.pool] = e]
    BY <2>1 DEF Processor!InsertCreated, Processor!Upserted
  <2>3. CASE ~Processor!Known(c.pool) /\ \E e : cache' = [cache EXCEPT ![c.pool] = e]
    <3>1. p # c.pool
      BY <1>0, <2>3
    <3> QED BY <1>0, <2>3, <3>1, EntryReplaced
  <2> QED BY <1>1, <2>2, <2>3
<1>4. CASE Processor!ApplySwap
  <2> DEFINE q == Processor!SwapPool
  <2>1. \/ UNCHANGED cache
        \/ cache[q].from = "empty" /\ cache' = [cache EXCEPT ![q].from = "partial"]
    BY <1>4 DEF Processor!ApplySwap, Processor!Moved, Processor!SwapPool
  <2> HIDE DEF q
  <2>2. CASE cache[q].from = "empty" /\ cache' = [cache EXCEPT ![q].from = "partial"]
    <3>1. p # q
      BY <2>2
    <3> QED BY <1>0, <2>2, <3>1, FromReplaced
  <2> QED BY <1>1, <2>1, <2>2
<1>5. CASE \E q : cache' = [cache EXCEPT ![q].from = "chain"]
  BY <1>0, <1>5, FromReplaced
<1>6. CASE Processor!RefreshGraduated \/ Processor!RefreshReactive \/ Processor!RefreshPredicted
  <2>1. UNCHANGED cache \/ \E q : cache' = [cache EXCEPT ![q].from = "chain"]
    BY <1>6 DEF Processor!RefreshGraduated, Processor!RefreshReactive, Processor!RefreshPredicted,
                Processor!Fetched
  <2> QED BY <1>1, <1>5, <2>1
<1>7. CASE Processor!SearchInserts
  <2>1. PICK j \in threads : /\ j.kind = "search"
                             /\ \E e : cache' = [cache EXCEPT ![j.seen] = e]
    BY <1>7 DEF Processor!SearchInserts, Processor!Upserted
  <2> QED BY <1>0, <2>1, EntryReplaced
<1>8. CASE Processor!Hydrate
  <2>1. PICK q : cache' = [cache EXCEPT ![q].from = "chain", ![q].meta = TRUE]
    BY <1>8 DEF Processor!Hydrate
  <2>2. CASE p # q
    BY <1>0, <2>1, <2>2 DEF Processor!TypeOK
  <2>3. CASE p = q
    <3> DEFINE first == [cache EXCEPT ![q].from = "chain"]
    <3>1. cache' = [first EXCEPT ![q].meta = TRUE]
      BY <2>1
    <3>2. PICK d, g, w : cache[p] = [dex |-> d, from |-> g, meta |-> w]
      BY <1>0, KnownEntry
    <3>3. first[p] = [dex |-> d, from |-> "chain", meta |-> w] /\ p \in DOMAIN first
      BY <2>3, <3>2, <1>0 DEF Processor!TypeOK
    <3> HIDE DEF first
    <3>4. cache'[p] = [first[p] EXCEPT !.meta = TRUE]
      BY <2>3, <3>1, <3>3
    <3> QED BY <3>3, <3>4
  <2> QED BY <2>2, <2>3
<1>9. ASSUME \/ Processor!Receive \/ Processor!GraduationSignal \/ Processor!ForgetWatched
             \/ Processor!LiquidityAndFilter \/ Processor!Predict \/ Processor!Forward
             \/ Processor!ForwardUnrelated
      PROVE  UNCHANGED cache
  BY <1>9 DEF Processor!Receive, Processor!GraduationSignal, Processor!ForgetWatched,
              Processor!LiquidityAndFilter, Processor!Predict, Processor!Forward,
              Processor!ForwardUnrelated
<1>10. ASSUME \/ Processor!Engine \/ Processor!RestEnds \/ Processor!WatchExpires
              \/ Processor!CooldownEnds \/ Processor!SearchLooks
       PROVE  UNCHANGED cache
  BY <1>10 DEF Processor!Engine, Processor!EngineTooOld, Processor!EngineRests,
               Processor!EngineDrops, Processor!EngineWakes, Processor!EngineRemoves,
               Processor!RestEnds, Processor!WatchExpires, Processor!CooldownEnds,
               Processor!SearchLooks
<1> QED BY <1>1, <1>2, <1>3, <1>4, <1>6, <1>7, <1>8, <1>9, <1>10
     DEF Processor!Next, Processor!Processor, processorVars

\* Fetched reserves give way to an estimate only when the pool graduates again,
\* or when a search that found it missing inserts it late, whatever the
\* transactions and the threads (upsert in handle_new_tx and
\* discover_pools_from_dexscreener).
THEOREM EstimatesStayYielding == MCSpec => Processor!EstimatesYield
<1>1. MCInit => SigInv
  BY InitSignals DEF MCInit
<1>2. SigInv /\ [MCNext]_<<part, vars, processorVars, trackerVars>> => SigInv'
  BY SignalsStep, ProcessorSteps
<1>3. SigInv /\ [MCNext]_<<part, vars, processorVars, trackerVars>>
        => [\A p \in Pools : Yields(p)]_Processor!vars
  BY EstimatesYieldStep, ProcessorSteps
<1> QED BY <1>1, <1>2, <1>3, PTL DEF MCSpec, Processor!EstimatesYield, Yields

-----------------------------------------------------------------------------
(* The wallet tracker.                                                      *)

\* Every swap counted is a buy or a sell, and no category is the one that asks
\* for a win rate of more than one half.
Tracked(w) ==
  /\ \E swaps, buys, sells, category, seenAt :
       /\ buys \in Nat /\ sells \in Nat
       /\ w = [swaps |-> swaps, total |-> buys + sells, buys |-> buys, sells |-> sells,
               category |-> category, seen |-> seenAt]
  /\ w.category # "smart_money"

TrackInv == \A x \in DOMAIN wallets : Tracked(wallets[x])

\* A half of the swaps, rounded down and in percent.
LEMMA HalfInPercent ==
  ASSUME NEW m \in Nat, NEW t \in Nat, t # 0, 2 * m <= t
  PROVE  2 * ((100 * m) \div t) <= 100
<1> DEFINE q == (100 * m) \div t
<1>1. q \in Int /\ t * q <= 100 * m
  OBVIOUS
<1> HIDE DEF q
<1>2. CASE q >= 51
  <2>1. t * q >= t * 51
    BY <1>1, <1>2
  <2> QED BY <1>1, <2>1
<1> QED BY <1>1, <1>2 DEF q

LEMMA AtMostHalf ==
  ASSUME NEW w, Tracked(w)
  PROVE  2 * Tracker!WinPercent(w) <= 100
<1>1. PICK swaps, buys, sells, category, seenAt :
        /\ buys \in Nat /\ sells \in Nat
        /\ w = [swaps |-> swaps, total |-> buys + sells, buys |-> buys, sells |-> sells,
                category |-> category, seen |-> seenAt]
  BY DEF Tracked
<1>2. w.total = buys + sells /\ w.buys = buys /\ w.sells = sells
  BY <1>1
<1> DEFINE matched == IF sells < buys THEN sells ELSE buys
<1>3. matched \in Nat /\ 2 * matched <= buys + sells /\ buys + sells \in Nat
  BY <1>1
<1>4. Tracker!WinPercent(w) = IF buys + sells = 0 THEN 0 ELSE (100 * matched) \div (buys + sells)
  BY <1>2 DEF Tracker!WinPercent
<1> HIDE DEF matched
<1>5. CASE buys + sells = 0
  BY <1>4, <1>5
<1>6. CASE buys + sells # 0
  BY <1>3, <1>4, <1>6, HalfInPercent
<1> QED BY <1>5, <1>6

LEMMA PushedTracked ==
  ASSUME NEW w, Tracked(w), NEW s
  PROVE  Tracked(Tracker!PushSwap(w, s))
<1>1. PICK swaps, buys, sells, category, seenAt :
        /\ buys \in Nat /\ sells \in Nat
        /\ w = [swaps |-> swaps, total |-> buys + sells, buys |-> buys, sells |-> sells,
                category |-> category, seen |-> seenAt]
        /\ w.category # "smart_money"
  BY DEF Tracked
<1> DEFINE ring == Append(IF Len(w.swaps) >= HistorySize THEN Tail(w.swaps) ELSE w.swaps, s)
           b == IF s.buy THEN w.buys + 1 ELSE w.buys
           l == IF s.buy THEN w.sells ELSE w.sells + 1
           w1 == [w EXCEPT !.swaps = ring]
           w2 == [w1 EXCEPT !.total = w.total + 1]
           w3 == [w2 EXCEPT !.buys = b]
           w4 == [w3 EXCEPT !.sells = l]
           w5 == [w4 EXCEPT !.seen = s.at]
<1>2. Tracker!PushSwap(w, s) = w5
  BY DEF Tracker!PushSwap
<1>3. b \in Nat /\ l \in Nat /\ w.total + 1 = b + l
  BY <1>1
<1> HIDE DEF ring, b, l
<1>4. w1 = [swaps |-> ring, total |-> buys + sells, buys |-> buys, sells |-> sells,
            category |-> category, seen |-> seenAt]
  BY <1>1
<1> HIDE DEF w1
<1>5. w2 = [swaps |-> ring, total |-> b + l, buys |-> buys, sells |-> sells,
            category |-> category, seen |-> seenAt]
  BY <1>3, <1>4
<1> HIDE DEF w2
<1>6. w3 = [swaps |-> ring, total |-> b + l, buys |-> b, sells |-> sells,
            category |-> category, seen |-> seenAt]
  BY <1>5
<1> HIDE DEF w3
<1>7. w4 = [swaps |-> ring, total |-> b + l, buys |-> b, sells |-> l,
            category |-> category, seen |-> seenAt]
  BY <1>6
<1> HIDE DEF w4
<1>8. w5 = [swaps |-> ring, total |-> b + l, buys |-> b, sells |-> l,
            category |-> category, seen |-> s.at]
  BY <1>7
<1> HIDE DEF w5
<1>9. w5.category # "smart_money"
  BY <1>1, <1>8
<1> QED BY <1>2, <1>3, <1>8, <1>9 DEF Tracked

LEMMA ClassifiedTracked ==
  ASSUME NEW w, Tracked(w)
  PROVE  Tracked([w EXCEPT !.category = Tracker!Classified(w)])
<1> DEFINE c == Tracker!Classified(w)
<1>1. PICK swaps, buys, sells, category, seenAt :
        /\ buys \in Nat /\ sells \in Nat
        /\ w = [swaps |-> swaps, total |-> buys + sells, buys |-> buys, sells |-> sells,
                category |-> category, seen |-> seenAt]
        /\ w.category # "smart_money"
  BY DEF Tracked
<1>2. Tracker!WinPercent(w) \in Int
  <2>1. w.total = buys + sells /\ w.buys = buys /\ w.sells = sells
    BY <1>1
  <2> QED BY <1>1, <2>1 DEF Tracker!WinPercent
<1>3. ~(Tracker!WinPercent(w) >= 60)
  BY <1>2, AtMostHalf
<1>4. c # "smart_money"
  BY <1>1, <1>3 DEF Tracker!Classified
<1> HIDE DEF c
<1>5. [w EXCEPT !.category = c]
        = [swaps |-> swaps, total |-> buys + sells, buys |-> buys, sells |-> sells,
           category |-> c, seen |-> seenAt]
  BY <1>1
<1>6. [w EXCEPT !.category = c].category # "smart_money"
  BY <1>4, <1>5
<1>7. Tracked([w EXCEPT !.category = c])
  <2> DEFINE u == [w EXCEPT !.category = c]
  <2> HIDE DEF u
  <2>1. /\ buys \in Nat /\ sells \in Nat
        /\ u = [swaps |-> swaps, total |-> buys + sells, buys |-> buys, sells |-> sells,
                category |-> c, seen |-> seenAt]
        /\ u.category # "smart_money"
    BY <1>1, <1>5, <1>6 DEF u
  <2>2. Tracked(u)
    BY <2>1 DEF Tracked
  <2> QED BY <2>2 DEF u
<1> QED BY <1>7 DEF c

LEMMA ObserveSwapStep ==
  ASSUME TrackInv, NEW who \in Wallets, Tracker!ObserveSwap(who)
  PROVE  TrackInv'
<1>1. PICK s \in [buy : BOOLEAN, token : Tokens, slot : SwapSlots, at : {now}, large : BOOLEAN] :
        LET pushed == Tracker!PushSwap(Tracker!StateOf(who), s)
            w == [pushed EXCEPT !.category = Tracker!Classified(pushed)]
        IN wallets' = Tracker!Evicted([x \in DOMAIN wallets \union {who} |->
                                         IF x = who THEN w ELSE wallets[x]])
  BY DEF Tracker!ObserveSwap
<1> DEFINE pushed == Tracker!PushSwap(Tracker!StateOf(who), s)
           w == [pushed EXCEPT !.category = Tracker!Classified(pushed)]
           ws == [x \in DOMAIN wallets \union {who} |-> IF x = who THEN w ELSE wallets[x]]
<1>2. Tracked(Tracker!Fresh)
  <2>1. Tracker!Fresh = [swaps |-> <<>>, total |-> 0 + 0, buys |-> 0, sells |-> 0,
                         category |-> "unknown", seen |-> 0]
    BY DEF Tracker!Fresh
  <2>2. Tracker!Fresh.category # "smart_money"
    BY <2>1
  <2> QED BY <2>1, <2>2 DEF Tracked
<1>3. Tracked(Tracker!StateOf(who))
  BY <1>2 DEF TrackInv, Tracker!StateOf
<1>5. wallets' = Tracker!Evicted(ws)
  BY <1>1
<1>6. Tracked(pushed)
  BY <1>3, PushedTracked
<1> HIDE DEF pushed
<1>7. Tracked(w)
  BY <1>6, ClassifiedTracked
<1> HIDE DEF w
<1>8. \A x \in DOMAIN ws : Tracked(ws[x])
  BY <1>7 DEF TrackInv
<1> HIDE DEF ws
<1>9. \A x \in DOMAIN wallets' : x \in DOMAIN ws /\ wallets'[x] = ws[x]
  BY <1>5 DEF Tracker!Evicted
<1> QED BY <1>8, <1>9 DEF TrackInv

LEMMA TrackStep == TrackInv /\ [Tracker!TrackerNext]_trackerVars => TrackInv'
<1>1. ASSUME TrackInv, UNCHANGED wallets PROVE TrackInv'
  BY <1>1 DEF TrackInv
<1>2. ASSUME Tracker!TimePasses PROVE UNCHANGED wallets
  BY <1>2 DEF Tracker!TimePasses
<1> QED BY <1>1, <1>2, ObserveSwapStep DEF Tracker!TrackerNext, trackerVars

LEMMA TrackInvFinds == TrackInv => SmartMoneyIsNeverFound
  BY AtMostHalf DEF TrackInv, Tracked, SmartMoneyIsNeverFound, Tracker!SmartMoneyIsNeverFound

\* A win rate counts each sell once against a buy: it never exceeds one half,
\* so no wallet is ever smart money, whatever the thresholds, the ring and the
\* swaps (win_rate, classify).
THEOREM SmartMoneyStaysUnfound == MCSpec => []SmartMoneyIsNeverFound
<1>1. MCInit => TrackInv
  BY DEF MCInit, Tracker!TrackerInit, TrackInv
<1>2. TrackInv /\ [MCNext]_<<part, vars, processorVars, trackerVars>> => TrackInv'
  <2>1. [MCNext]_<<part, vars, processorVars, trackerVars>> => [Tracker!TrackerNext]_trackerVars
    BY DEF MCNext
  <2> QED BY <2>1, TrackStep
<1> QED BY <1>1, <1>2, TrackInvFinds, PTL DEF MCSpec
=============================================================================
