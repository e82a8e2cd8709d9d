------------------------- MODULE VectorFenceProofs -------------------------
(***************************************************************************)
(* Proofs about VectorFence, for any set of files, any set of embedding    *)
(* spaces and any bounds.                                                  *)
(***************************************************************************)
EXTENDS VectorFence, FiniteSetTheorems, TLAPS

(* What the helpers of the model return.                                   *)

\* A table without rows is a table.
LEMMA EmptyVecsType == EmptyVecs \in Vecs
  BY DEF EmptyVecs, Vecs

\* install_shard keeps a shard with vectors and drops one without.
LEMMA AsShardType ==
  ASSUME NEW v \in Vecs, NEW id \in Identities
  PROVE  AsShard(v, id) \in MaybeShard
  BY DEF AsShard, MaybeShard, NonEmptyShard, Shard

\* Of the shards a run retires, retain_stale keeps one or the old snapshot.
LEMMA RetainStaleType ==
  ASSUME NEW live \in MaybeShard, NEW base \in MaybeShard, stale \in MaybeShard
  PROVE  retain_stale(live, base) \in MaybeShard
  BY DEF retain_stale

\* A warm's chunk count is a number: the files are finitely many.
LEMMA CountType ==
  ASSUME NEW v
  PROVE  Cardinality(NonEmpty(v)) \in Nat
<1>1. IsFiniteSet(NonEmpty(v))
  BY FenceAssumption, FS_Subset DEF NonEmpty
<1> QED
  BY <1>1, FS_CardinalityType

\* Spending a bound keeps the counters' type.
LEMMA SpendType ==
  ASSUME NEW b \in Bounds, used \in [Bounds -> Nat], Spend(b)
  PROVE  used' \in [Bounds -> Nat]
  BY DEF Spend

\* Losing a statement spends one of its bounds.
LEMMA LoseType ==
  ASSUME NEW b \in {"lostclears", "lostrows"}, used \in [Bounds -> Nat], Lose(b)
  PROVE  used' \in [Bounds -> Nat] /\ used'[b] # 0
  BY DEF Lose, Spend, Bounds

\* What was lost stays lost.
LEMMA LostForGood ==
  ASSUME NEW b \in Bounds, used \in [Bounds -> Nat], Spend(b)
  PROVE  (ClearsSeen' => ClearsSeen) /\ (RowsSeen' => RowsSeen)
  BY DEF Spend, ClearsSeen, RowsSeen, Bounds

-----------------------------------------------------------------------------
(* Types.                                                                  *)

\* Every step of an index run keeps the types.
LEMMA RunTypes == TypeOK /\ RunStep => TypeOK'
<1> SUFFICES ASSUME TypeOK, RunStep PROVE TypeOK'
  OBVIOUS
<1> USE DEF TypeOK, DurableTypeOK, MemTypeOK, RunTypeOK, WarmTypeOK, QueryTypeOK,
            dbVars, fileVars, memVars, runVars, warmVars, queryVars, envVars, NoJob
<1>1. ASSUME NEW force \in BOOLEAN, NEW adopt \in BOOLEAN, NEW files \in SUBSET Changes,
             NEW hasData \in BOOLEAN, StartRun(force, adopt, hasData, files)
      PROVE  TypeOK'
  <2>1. used' \in [Bounds -> Nat]
    BY <1>1, SpendType DEF StartRun, Bounds
  <2>2. files \in SUBSET Files
    BY DEF Changes
  <2>3. (IF current = NoFile THEN 0 ELSE current.gen) \in Nat
    BY DEF PersistedFile
  <2> QED
    BY <1>1, <2>1, <2>2, <2>3, EmptyVecsType DEF StartRun, MaybeId
<1>2. CASE BeginFull
  <2>1. PICK captured \in load_stale_snapshot_if_cold : begin_full_update(captured)
    BY <1>2 DEF BeginFull
  <2>2. captured \in MaybeShard
    BY <1>2, AsShardType DEF load_stale_snapshot_if_cold, BeginFull, MaybeShard
  <2>3. /\ shard' \in MaybeShard /\ pending' \in MaybeShard /\ stale' \in MaybeShard
        /\ mutating' \in BOOLEAN /\ epoch' \in Nat
        /\ incremental_identity' \in MaybeId
    BY <2>1, <2>2, RetainStaleType DEF begin_full_update, MaybeId, MaybeShard
  <2> QED
    BY <1>2, <2>3 DEF BeginFull
<1>3. CASE BeginIncremental
  BY <1>3 DEF BeginIncremental, begin_incremental_update, MaybeId, MaybeShard
<1>4. CASE ClearMarker
  BY <1>4 DEF ClearMarker, MaybeId
<1>4a. CASE ClearMarkerLost
  <2>1. used' \in [Bounds -> Nat]
    BY <1>4a, LoseType DEF ClearMarkerLost
  <2> QED
    BY <1>4a, <2>1 DEF ClearMarkerLost
<1>5. CASE bump_index_epoch
  BY <1>5 DEF bump_index_epoch
<1>6. CASE DeleteRows
  BY <1>6 DEF DeleteRows, Vecs
<1>7. ASSUME NEW f \in Files, StoreFile(f)
      PROVE  TypeOK'
  BY <1>7 DEF StoreFile, Vecs, Row
<1>7a. ASSUME NEW f \in Files, StoreFileLost(f)
       PROVE  TypeOK'
  <2>1. used' \in [Bounds -> Nat]
    BY <1>7a, LoseType DEF StoreFileLost
  <2> QED
    BY <1>7a, <2>1 DEF StoreFileLost, Vecs, Row
<1>8. ASSUME NEW f \in Files, SkipFile(f)
      PROVE  TypeOK'
  <2>1. used' \in [Bounds -> Nat]
    BY <1>8, SpendType DEF SkipFile, Bounds
  <2> QED
    BY <1>8, <2>1 DEF SkipFile
<1>9. CASE CommitMarker
  BY <1>9 DEF CommitMarker, MaybeId
<1>10. CASE CommitMarkerFails
  <2>1. used' \in [Bounds -> Nat]
    BY <1>10, SpendType DEF CommitMarkerFails, Bounds
  <2>2. needs_rebuild' \in BOOLEAN
    BY <1>10, Zenon DEF CommitMarkerFails
  <2>3. marker' \in MaybeId
    BY <1>10 DEF CommitMarkerFails, MaybeId
  <2> QED
    BY SMTT(60), <1>10, <2>1, <2>2, <2>3, EmptyVecsType, RetainStaleType DEF CommitMarkerFails,
       abort_update_fail_closed, MaybeId, MaybeShard, PersistedFile
<1>11. CASE Publish
  <2>0. job.id \in Identities /\ NoShard \in MaybeShard /\ None \in MaybeId
    BY <1>11 DEF Publish, MaybeShard, MaybeId
  <2>1. shard' \in MaybeShard
    <3>1. CASE job.full
      BY <1>11, <2>0, <3>1, AsShardType DEF Publish, publish_full_update
    <3>2. CASE ~job.full /\ pending # NoShard
      <4> DEFINE merged == [f \in Files |-> IF f \in job.files THEN fresh[f]
                                            ELSE pending.vecs[f]]
      <4>1. merged \in Vecs
        BY <3>2 DEF Vecs, MaybeShard, NonEmptyShard, Shard
      <4>2. shard' = AsShard(merged, job.id)
        BY <1>11, <3>2 DEF Publish, publish_incremental_update
      <4> QED
        BY <2>0, <4>1, <4>2, AsShardType
    <3>3. CASE ~job.full /\ pending = NoShard
      BY <1>11, <3>3 DEF Publish, publish_incremental_update
    <3> QED
      BY <3>1, <3>2, <3>3
  <2>2. /\ pending' = NoShard /\ stale' = NoShard
        /\ incremental_identity' = None /\ epoch' \in Nat
        /\ mutating' = FALSE
    <3>1. CASE job.full
      BY <1>11, <3>1 DEF Publish, publish_full_update
    <3>2. CASE ~job.full
      BY <1>11, <3>2 DEF Publish, publish_incremental_update
    <3> QED
      BY <3>1, <3>2
  <2>3. /\ pc' = "published" /\ UNCHANGED <<job, todo, fresh>>
        /\ UNCHANGED dbVars /\ UNCHANGED fileVars /\ UNCHANGED envVars
        /\ UNCHANGED warmVars /\ UNCHANGED queryVars
    BY <1>11 DEF Publish
  <2>4. mutating' \in BOOLEAN
    BY <2>2, Zenon
  <2> QED
    BY <2>0, <2>1, <2>2, <2>3, <2>4
<1>12. CASE InvalidateShardFile
  <2>1. used' \in [Bounds -> Nat]
    BY <1>12, SpendType DEF InvalidateShardFile, Bounds
  <2> QED
    BY <1>12, <2>1 DEF InvalidateShardFile
<1>13. CASE RunSucceeds
  <2>1. needs_rebuild' \in BOOLEAN
    BY <1>13, Zenon DEF RunSucceeds
  <2> QED
    BY <1>13, <2>1, EmptyVecsType DEF RunSucceeds, MaybeId
<1>14. CASE RunFails
  <2>1. used' \in [Bounds -> Nat]
    BY <1>14, SpendType DEF RunFails, Bounds
  <2>2. needs_rebuild' \in BOOLEAN
    BY <1>14, Zenon DEF RunFails
  <2> QED
    BY <1>14, <2>1, <2>2, EmptyVecsType DEF RunFails, MaybeId
<1>15. CASE CancelRun
  <2>1. used' \in [Bounds -> Nat]
    BY <1>15, SpendType DEF CancelRun, Bounds
  <2> QED
    BY <1>15, <2>1, EmptyVecsType DEF CancelRun, MaybeId
<1> QED
  BY <1>1, <1>2, <1>3, <1>4, <1>4a, <1>5, <1>6, <1>7, <1>7a, <1>8, <1>9, <1>10, <1>11,
     <1>12, <1>13, <1>14, <1>15 DEF RunStep

\* Every step of a warm keeps the types.
LEMMA WarmTypes == TypeOK /\ WarmStep => TypeOK'
<1> SUFFICES ASSUME TypeOK, WarmStep PROVE TypeOK'
  OBVIOUS
<1> USE DEF TypeOK, DurableTypeOK, MemTypeOK, RunTypeOK, WarmTypeOK, QueryTypeOK,
            dbVars, fileVars, memVars, runVars, warmVars, queryVars, envVars, WarmTo
<1>0. /\ Db \in DbImage
      /\ NoWarm \in [id : MaybeId, epoch : Nat, count : Nat, index_epoch : Nat,
                     vecs : Vecs, mine : Nat, db : DbImage \cup {NoDb}]
  BY EmptyVecsType DEF Db, DbImage, NoWarm, MaybeId
<1>1. ASSUME NEW id \in Identities, WarmStart(id)
      PROVE  TypeOK'
  <2>1. /\ warm' = [NoWarm EXCEPT !.id = id, !.epoch = epoch]
        /\ wpc' = "count"
    BY <1>1 DEF WarmStart
  <2>2. /\ warm' \in [id : MaybeId, epoch : Nat, count : Nat, index_epoch : Nat,
                      vecs : Vecs, mine : Nat, db : DbImage \cup {NoDb}]
        /\ warm'.id = id
    BY <1>0, <2>1 DEF MaybeId, NoWarm
  <2> QED
    BY <1>1, <2>1, <2>2 DEF WarmStart
<1>2. CASE WarmCount
  BY <1>2, <1>0, CountType DEF WarmCount, DbImage
<1>3. CASE WarmMarker
  <2>1. needs_rebuild' \in BOOLEAN
    BY <1>3, Zenon DEF WarmMarker
  <2> QED
    BY <1>3, <1>0, <2>1 DEF WarmMarker
<1>4. CASE WarmStamp
  BY <1>4, <1>0 DEF WarmStamp, DbImage
<1>5. CASE WarmOpen
  <2>1. used' \in [Bounds -> Nat]
    BY <1>5, SpendType DEF WarmOpen, Bounds
  <2> QED
    BY <1>5, <2>1, <1>0 DEF WarmOpen, Usable, PersistedFile
<1>6. CASE WarmScan
  BY <1>6, <1>0 DEF WarmScan, DbImage
<1>7. CASE WarmRecheck
  BY <1>7, <1>0 DEF WarmRecheck
<1>8. CASE WarmPersist
  <2>1. used' \in [Bounds -> Nat]
    BY <1>8, SpendType DEF WarmPersist, Bounds
  <2> QED
    BY <1>8, <2>1, <1>0 DEF WarmPersist, PersistedFile
<1>9. CASE WarmInstall
  <2>1. warm.vecs \in Vecs /\ (CanMap => current.vecs \in Vecs)
    BY DEF CanMap, Usable, PersistedFile
  <2>2. PICK mapped \in BOOLEAN :
           /\ mapped => CanMap
           /\ \/ shard' = AsShard(IF mapped THEN current.vecs ELSE warm.vecs, warm.id)
              \/ UNCHANGED shard
    BY <1>9 DEF WarmInstall
  <2>3. (IF mapped THEN current.vecs ELSE warm.vecs) \in Vecs
    BY <2>1, <2>2
  <2>4. shard' \in MaybeShard
    BY <1>9, <2>2, <2>3, AsShardType DEF WarmInstall
  <2> QED
    BY <1>0, <1>9, <2>4 DEF WarmInstall
<1>10. CASE WarmDiscard
  BY <1>10, <1>0 DEF WarmDiscard
<1>11. CASE WarmFails
  <2>1. used' \in [Bounds -> Nat]
    BY <1>11, SpendType DEF WarmFails, Bounds
  <2> QED
    BY <1>11, <2>1, <1>0 DEF WarmFails
<1> QED
  BY <1>1, <1>2, <1>3, <1>4, <1>5, <1>6, <1>7, <1>8, <1>9, <1>10, <1>11 DEF WarmStep

\* Every step of a query keeps the types.
LEMMA QueryTypes == TypeOK /\ QueryStep => TypeOK'
<1> SUFFICES ASSUME TypeOK, QueryStep PROVE TypeOK'
  OBVIOUS
<1> USE DEF TypeOK, DurableTypeOK, MemTypeOK, RunTypeOK, WarmTypeOK, QueryTypeOK,
            dbVars, fileVars, memVars, runVars, warmVars, queryVars, envVars, QueryTo
<1>0. /\ NoQuery \in [id : MaybeId, seen : MaybeId, vecs : Vecs]
      /\ NoWarm \in [id : MaybeId, epoch : Nat, count : Nat, index_epoch : Nat,
                     vecs : Vecs, mine : Nat, db : DbImage \cup {NoDb}]
  BY EmptyVecsType DEF NoQuery, NoWarm, MaybeId
<1>1. CASE QueryStart
  BY <1>1, <1>0 DEF QueryStart, NoQuery, MaybeId
<1>2. CASE QuerySearch
  BY <1>2, <1>0 DEF QuerySearch, MaybeShard, NonEmptyShard, Shard, MaybeId
<1>3. CASE QueryEvict
  BY <1>3, <1>0 DEF QueryEvict, MaybeShard
<1>4. CASE QueryCheck
  BY <1>4, <1>0 DEF QueryCheck
<1>5. CASE QueryStale
  BY <1>5, <1>0 DEF QueryStale
<1>6. CASE QueryFile
  BY <1>6, <1>0 DEF QueryFile, PersistedFile
<1>7. CASE QueryInstallFile
  <2>1. AsShard(query.vecs, query.id) \in MaybeShard
    BY <1>7, AsShardType DEF QueryInstallFile
  <2> QED
    BY <1>0, <1>7, <2>1 DEF QueryInstallFile, install_stale
<1>8. CASE QueryLock
  BY <1>8, <1>0 DEF QueryLock, WarmTo
<1>9. CASE QueryLoad
  BY <1>9, <1>0 DEF QueryLoad
<1>10. CASE QueryLoadFails
  <2>1. used' \in [Bounds -> Nat]
    BY <1>10, SpendType DEF QueryLoadFails, Bounds
  <2> QED
    BY <1>10, <2>1, <1>0 DEF QueryLoadFails, WarmTo
<1>11. CASE QueryInstallLoaded
  <2>1. AsShard(query.vecs, query.id) \in MaybeShard
    BY <1>11, AsShardType DEF QueryInstallLoaded
  <2> QED
    BY <1>0, <1>11, <2>1 DEF QueryInstallLoaded, install_stale, WarmTo
<1> QED
  BY <1>1, <1>2, <1>3, <1>4, <1>5, <1>6, <1>7, <1>8, <1>9, <1>10, <1>11 DEF QueryStep

\* Edits, client switches, evictions, crashes and removals keep the types.
LEMMA EnvironmentTypes == TypeOK /\ Environment => TypeOK'
<1> SUFFICES ASSUME TypeOK, Environment PROVE TypeOK'
  OBVIOUS
<1> USE DEF TypeOK, DurableTypeOK, MemTypeOK, RunTypeOK, WarmTypeOK, QueryTypeOK,
            dbVars, fileVars, memVars, runVars, warmVars, queryVars, envVars
<1>1. ASSUME NEW f \in Files, Edit(f)
      PROVE  TypeOK'
  <2>1. used' \in [Bounds -> Nat]
    BY <1>1, SpendType DEF Edit, Bounds
  <2>2. tree' \in [Files -> Nat]
    BY <1>1 DEF Edit, Bounds
  <2> QED
    BY <1>1, <2>1, <2>2 DEF Edit
<1>2. ASSUME NEW id \in Identities, SwitchClient(id)
      PROVE  TypeOK'
  <2>1. used' \in [Bounds -> Nat]
    BY <1>2, SpendType DEF SwitchClient, Bounds
  <2> QED
    BY <1>2, <2>1 DEF SwitchClient
<1>3. CASE Evict
  BY <1>3 DEF Evict, MaybeShard
<1>4. CASE Crash
  <2>1. used' \in [Bounds -> Nat]
    BY <1>4, SpendType DEF Crash, Bounds
  <2> QED
    BY <1>4, <2>1, EmptyVecsType
       DEF Crash, NoJob, NoWarm, NoQuery, MaybeId, MaybeShard
<1>5. CASE RemoveIndex
  <2>1. used' \in [Bounds -> Nat]
    BY <1>5, SpendType DEF RemoveIndex, Bounds
  <2>2. Db \in DbImage
    BY DEF Db, DbImage
  <2>3. needs_rebuild' \in BOOLEAN
    BY <1>5, Zenon DEF RemoveIndex
  <2> QED
    BY <1>5, <2>1, <2>2, <2>3, EmptyVecsType DEF RemoveIndex, MaybeId, MaybeShard
<1> QED
  BY <1>1, <1>2, <1>3, <1>4, <1>5 DEF Environment

\* The state of a worker that has just started has the types.
LEMMA InitTypes == Init => TypeOK
<1> SUFFICES ASSUME Init PROVE TypeOK
  OBVIOUS
<1>1. needs_rebuild \in BOOLEAN /\ mutating \in BOOLEAN
  BY Zenon DEF Init
<1> QED
  BY <1>1, EmptyVecsType
     DEF Init, TypeOK, DurableTypeOK, MemTypeOK, RunTypeOK, WarmTypeOK, QueryTypeOK,
         NoJob, NoWarm, NoQuery, MaybeId, MaybeShard, Bounds

\* Every step keeps the types.
LEMMA TypesKept == TypeOK /\ [Next]_vars => TypeOK'
<1> SUFFICES ASSUME TypeOK, [Next]_vars PROVE TypeOK'
  OBVIOUS
<1>1. CASE UNCHANGED vars
  BY <1>1 DEF vars, TypeOK, DurableTypeOK, MemTypeOK, RunTypeOK, WarmTypeOK, QueryTypeOK
<1> QED
  BY <1>1, RunTypes, WarmTypes, QueryTypes, EnvironmentTypes DEF Next

\* The type invariant holds of every behaviour of the run, the warm, the query and
\* the worker that dies under them.
THEOREM TypeCorrect == Spec => []TypeOK
<1> QED
  BY InitTypes, TypesKept, PTL DEF Spec

-----------------------------------------------------------------------------
(* Snapshots and the fence.                                                *)

\* No step leaves a snapshot without the fence or a searchable shard behind it.
LEMMA SnapshotsKept == TypeOK /\ SnapshotsBehindFence /\ [Next]_vars => SnapshotsBehindFence'
<1> SUFFICES ASSUME TypeOK, SnapshotsBehindFence, [Next]_vars
             PROVE  SnapshotsBehindFence'
  OBVIOUS
<1> USE DEF SnapshotsBehindFence
<1>1. CASE UNCHANGED memVars
  BY <1>1 DEF memVars
<1>2. CASE BeginFull
  BY <1>2 DEF BeginFull, begin_full_update
<1>3. CASE BeginIncremental
  BY <1>3 DEF BeginIncremental, begin_incremental_update
<1>4. CASE CommitMarkerFails
  BY <1>4 DEF CommitMarkerFails, abort_update_fail_closed
<1>5. CASE Publish
  <2>1. pending' = NoShard /\ stale' = NoShard /\ ~mutating'
    BY <1>5 DEF Publish, publish_full_update, publish_incremental_update
  <2> QED
    BY <2>1
<1>6. CASE WarmInstall
  BY <1>6 DEF WarmInstall, accepts_install
<1>7. CASE QueryEvict \/ Evict
  BY <1>7 DEF QueryEvict, Evict
<1>8. CASE QueryInstallFile \/ QueryInstallLoaded
  BY <1>8 DEF QueryInstallFile, QueryInstallLoaded, install_stale
<1>9. CASE Crash \/ RemoveIndex
  BY <1>9 DEF Crash, RemoveIndex
<1>10. ASSUME RunStep PROVE SnapshotsBehindFence'
  <2>1. ASSUME NEW force \in BOOLEAN, NEW adopt \in BOOLEAN, NEW hasData \in BOOLEAN,
               NEW files \in SUBSET Changes, StartRun(force, adopt, hasData, files)
        PROVE  UNCHANGED memVars
    BY <2>1 DEF StartRun
  <2>2. ASSUME NEW f \in Files, StoreFile(f) \/ StoreFileLost(f) \/ SkipFile(f)
        PROVE  UNCHANGED memVars
    BY <2>2 DEF StoreFile, StoreFileLost, SkipFile
  <2>3. CASE \/ ClearMarker \/ ClearMarkerLost \/ bump_index_epoch \/ DeleteRows \/ CommitMarker
             \/ InvalidateShardFile \/ RunSucceeds \/ RunFails \/ CancelRun
    <3>1. UNCHANGED memVars
      BY <2>3 DEF ClearMarker, ClearMarkerLost, bump_index_epoch, DeleteRows, CommitMarker,
         InvalidateShardFile, RunSucceeds, RunFails, CancelRun
    <3> QED
      BY <1>1, <3>1
  <2> QED
    BY <1>1, <1>2, <1>3, <1>4, <1>5, <1>10, <2>1, <2>2, <2>3 DEF RunStep
<1>11. ASSUME WarmStep PROVE SnapshotsBehindFence'
  <2>1. WarmInstall \/ UNCHANGED memVars
    BY <1>11 DEF WarmStep, WarmStart, WarmCount, WarmMarker, WarmStamp, WarmOpen, WarmScan,
       WarmRecheck, WarmPersist, WarmDiscard, WarmFails
  <2> QED
    BY <1>1, <1>6, <2>1
<1>12. ASSUME QueryStep PROVE SnapshotsBehindFence'
  <2>1. QueryEvict \/ QueryInstallFile \/ QueryInstallLoaded \/ UNCHANGED memVars
    BY <1>12 DEF QueryStep, QueryStart, QuerySearch, QueryCheck, QueryStale, QueryFile,
       QueryLock, QueryLoad, QueryLoadFails
  <2> QED
    BY <1>1, <1>7, <1>8, <2>1
<1>13. ASSUME Environment PROVE SnapshotsBehindFence'
  <2>1. Evict \/ Crash \/ RemoveIndex \/ UNCHANGED memVars
    BY <1>13 DEF Environment, Edit, SwitchClient
  <2> QED
    BY <1>1, <1>7, <1>9, <2>1
<1>14. CASE UNCHANGED vars
  BY <1>1, <1>14 DEF vars, memVars
<1> QED
  BY <1>10, <1>11, <1>12, <1>13, <1>14 DEF Next

\* Whatever overlaps, a snapshot is kept only behind the fence and nothing is
\* searchable behind it; removal of the index included.
THEOREM SnapshotsFenced == Spec => []SnapshotsBehindFence
<1>1. Init => SnapshotsBehindFence
  BY DEF Init, SnapshotsBehindFence
<1> QED
  BY <1>1, TypeCorrect, SnapshotsKept, PTL DEF Spec

-----------------------------------------------------------------------------
(* The inductive invariant behind LiveIsCommitted, LiveOneSpace and        *)
(* StampSound.                                                             *)

OfSpace(v, id) == \A f \in Files : v[f] # NoRow => v[f].id = id

Window == {"fenced", "unmarked", "bumped", "stream", "marked"}
Rewriting == {"bumped", "stream", "marked"}

\* A run is behind the fence from before its first change to the rows until they
\* are committed.
FenceUp == pc \in Window => mutating

\* The rows are of one embedding space: the marker's when there is one, and the
\* run's once it has deleted the others (an incremental run only starts on rows
\* of its own space).
RowsOneSpace == ClearsSeen =>
    /\ \E id \in Identities : OfSpace(rows, id)
    /\ marker # None => OfSpace(rows, marker)
    /\ pc = "start" /\ ~job.full => marker = job.id
    /\ pc \in {"unmarked", "bumped", "stream"} => marker = None
    /\ pc = "marked" => marker = job.id
    /\ pc \in Window /\ ~job.full => OfSpace(rows, job.id)
    /\ pc \in {"stream", "marked"} => OfSpace(rows, job.id)

\* What the run publishes is the table: the base it kept agrees with the rows it
\* does not rewrite, its vectors with those it does.
PublishExact ==
    /\ pc # "idle" => todo \subseteq job.files
    /\ pc # "idle" /\ job.full => job.files = Files
    /\ RowsSeen /\ pc \in Window /\ ~job.full /\ pending # NoShard =>
          \A f \in Files \ job.files : pending.vecs[f] = rows[f]
    /\ pc \in {"start", "fenced", "unmarked", "bumped"} => fresh = EmptyVecs
    /\ RowsSeen /\ pc \in {"stream", "marked"} => \A f \in job.files : fresh[f] = rows[f]

LiveExact == RowsSeen /\ shard # NoShard => shard.vecs = rows

\* With rows lost unseen the shard is no longer the table, but what the run publishes
\* and what it merges into is still of one space: the marker's.
LiveSpace == ClearsSeen =>
    /\ shard # NoShard => marker = shard.id /\ OfSpace(shard.vecs, shard.id)
    /\ pc \in Window /\ ~job.full /\ pending # NoShard => OfSpace(pending.vecs, job.id)
    /\ pc # "idle" => OfSpace(fresh, job.id)

\* A persisted shard with the table's index epoch is the table, and a run that has
\* bumped the epoch finds none.
FileExact ==
    current # NoFile =>
        /\ current.index_epoch <= index_epoch
        /\ current.index_epoch = index_epoch => current.vecs = rows /\ pc \notin Rewriting

\* What a warm has read still holds as long as its epoch is the index's.
WarmExact ==
    wpc \notin {"idle", "held"} =>
        /\ warm.db = NoDb
        /\ warm.epoch <= epoch
        /\ warm.epoch = epoch =>
              /\ ~mutating
              /\ wpc \notin {"count", "marker"} => marker = warm.id
              /\ wpc \notin {"count", "marker", "stamp"} => warm.index_epoch = index_epoch
              /\ wpc \in {"recheck", "persist", "install"} => warm.vecs = rows

\* What it persists after its last look at the epoch has the stamp of the table it
\* was read from.
PersistExact ==
    wpc = "persist" =>
        /\ warm.index_epoch <= index_epoch
        /\ warm.index_epoch = index_epoch => warm.vecs = rows /\ pc \notin Rewriting

Exact ==
    /\ FenceUp /\ RowsOneSpace /\ PublishExact
    /\ LiveExact /\ LiveSpace /\ FileExact /\ WarmExact /\ PersistExact

FenceInv == TypeOK /\ SnapshotsBehindFence /\ Exact

\* A step of a run changes the counters by spending one of them.
LEMMA RunSpends ==
  ASSUME RunStep
  PROVE  \/ UNCHANGED used \/ Spend("runs") \/ Spend("faults")
         \/ Spend("lostclears") \/ Spend("lostrows")
<1> DEFINE Spent == \/ UNCHANGED used \/ Spend("runs") \/ Spend("faults")
                    \/ Spend("lostclears") \/ Spend("lostrows")
<1>1. ASSUME NEW force \in BOOLEAN, NEW adopt \in BOOLEAN, NEW hasData \in BOOLEAN,
             NEW files \in SUBSET Changes, StartRun(force, adopt, hasData, files)
      PROVE  Spent
  BY <1>1 DEF StartRun
<1>2. ASSUME NEW f \in Files, StoreFile(f) \/ StoreFileLost(f) \/ SkipFile(f)
      PROVE  Spent
  BY <1>2 DEF StoreFile, StoreFileLost, SkipFile, Lose, envVars
<1>3. ASSUME \/ BeginFull \/ BeginIncremental \/ ClearMarker \/ bump_index_epoch
             \/ DeleteRows \/ CommitMarker \/ Publish \/ RunSucceeds
      PROVE  Spent
  BY <1>3 DEF BeginFull, BeginIncremental, ClearMarker, bump_index_epoch, DeleteRows,
     CommitMarker, Publish, RunSucceeds, envVars
<1>4. ASSUME \/ ClearMarkerLost \/ CommitMarkerFails \/ InvalidateShardFile \/ RunFails
             \/ CancelRun
      PROVE  Spent
  BY <1>4 DEF ClearMarkerLost, CommitMarkerFails, InvalidateShardFile, RunFails, CancelRun,
     Lose
<1> HIDE DEF Spent
<1>5. Spent
  BY <1>1, <1>2, <1>3, <1>4 DEF RunStep
<1> QED
  BY <1>5 DEF Spent

\* What was lost before a step of a run is lost after it.
LEMMA RunRemembers ==
  ASSUME TypeOK, RunStep
  PROVE  (ClearsSeen' => ClearsSeen) /\ (RowsSeen' => RowsSeen)
<1>1. CASE UNCHANGED used
  BY <1>1 DEF ClearsSeen, RowsSeen
<1> QED
  BY <1>1, RunSpends, LostForGood DEF Bounds, TypeOK

\* Nor does a step of anyone else undo a loss: it spends some other bound, or none.
LEMMA OthersRemember ==
  ASSUME TypeOK, WarmStep \/ QueryStep \/ Environment
  PROVE  (ClearsSeen' => ClearsSeen) /\ (RowsSeen' => RowsSeen)
<1>1. ASSUME WarmStep PROVE UNCHANGED used \/ Spend("faults")
  BY <1>1 DEF WarmStep, WarmStart, WarmCount, WarmMarker, WarmStamp, WarmOpen, WarmScan,
     WarmRecheck, WarmPersist, WarmInstall, WarmDiscard, WarmFails, envVars
<1>2. ASSUME QueryStep PROVE UNCHANGED used \/ Spend("faults")
  BY <1>2 DEF QueryStep, QueryStart, QuerySearch, QueryEvict, QueryCheck, QueryStale,
     QueryFile, QueryInstallFile, QueryLock, QueryLoad, QueryLoadFails,
     QueryInstallLoaded, envVars
<1>3. ASSUME Environment
      PROVE  \/ UNCHANGED used
             \/ Spend("edits") \/ Spend("switches") \/ Spend("crashes") \/ Spend("removals")
  BY <1>3 DEF Environment, Edit, SwitchClient, Evict, Crash, RemoveIndex, envVars
<1>4. CASE UNCHANGED used
  BY <1>4 DEF ClearsSeen, RowsSeen
<1> QED
  BY <1>1, <1>2, <1>3, <1>4, LostForGood DEF Bounds, TypeOK

\* Every step of an index run keeps the fence's invariant.
LEMMA RunExact == FenceInv /\ RunStep => Exact'
<1> SUFFICES ASSUME FenceInv, RunStep PROVE Exact'
  OBVIOUS
<1> USE DEF TypeOK, DurableTypeOK, MemTypeOK, RunTypeOK, WarmTypeOK, dbVars, fileVars,
            memVars, runVars, warmVars, queryVars, envVars, Window, Rewriting,
            FenceInv, Exact, SnapshotsBehindFence, FenceUp
<1>0. (ClearsSeen' => ClearsSeen) /\ (RowsSeen' => RowsSeen)
  BY RunRemembers
<1>1. ASSUME NEW force \in BOOLEAN, NEW adopt \in BOOLEAN, NEW files \in SUBSET Changes,
             NEW hasData \in BOOLEAN, StartRun(force, adopt, hasData, files)
      PROVE  Exact'
  <2>1. RowsOneSpace'
    <3> SUFFICES ASSUME ClearsSeen, ClearsSeen' PROVE RowsOneSpace'
      BY <1>0 DEF RowsOneSpace
    <3>1. marker' # None => OfSpace(rows, marker')
      <4>1. CASE adopt
        <5>1. PICK f \in Stored : rows[f].id = client
          BY <1>1, <4>1 DEF StartRun, stored_vectors_match_client
        <5>2. PICK id \in Identities : OfSpace(rows, id)
          BY DEF RowsOneSpace
        <5>3. id = client
          BY <5>1, <5>2 DEF Stored, OfSpace
        <5> QED
          BY <1>1, <4>1, <5>2, <5>3 DEF StartRun
      <4>2. CASE ~adopt
        BY <1>1, <4>2 DEF StartRun, RowsOneSpace
      <4> QED
        BY <4>1, <4>2
    <3>2. pc' = "start" /\ ~job'.full => marker' = job'.id
      BY <1>1 DEF StartRun
    <3>3. pc' \in {"start", "graph"} /\ rows' = rows
      BY <1>1 DEF StartRun
    <3> QED
      BY <3>1, <3>2, <3>3 DEF RowsOneSpace, OfSpace
  <2>2. WarmExact'
    <3>1. marker # None => marker' = marker
      BY <1>1 DEF StartRun
    <3>2. UNCHANGED <<wpc, warm, rows, index_epoch, mutating, epoch>>
      BY <1>1 DEF StartRun
    <3> QED
      BY <3>1, <3>2, FenceAssumption DEF WarmExact
  <2>3. FenceUp' /\ PublishExact' /\ LiveExact' /\ FileExact' /\ PersistExact'
    BY <1>0, <1>1 DEF StartRun, PublishExact, LiveExact, FileExact, PersistExact
  <2>4. LiveSpace'
    <3>1. /\ pc' \in {"start", "graph"} /\ fresh' = EmptyVecs /\ UNCHANGED shard
          /\ marker # None => marker' = marker
      BY <1>1 DEF StartRun
    <3>2. \A id : OfSpace(EmptyVecs, id)
      BY DEF OfSpace, EmptyVecs
    <3>3. ClearsSeen /\ shard # NoShard => marker # None
      BY FenceAssumption DEF LiveSpace, MaybeShard, NonEmptyShard, Shard
    <3> QED
      BY <1>0, <3>1, <3>2, <3>3 DEF LiveSpace, OfSpace
  <2> QED
    BY <2>1, <2>2, <2>3, <2>4
<1>2. CASE BeginFull
  BY <1>0, <1>2 DEF BeginFull, begin_full_update, RowsOneSpace, PublishExact, LiveExact,
     LiveSpace, FileExact, WarmExact, PersistExact, OfSpace
<1>3. CASE BeginIncremental
  <2>1. RowsOneSpace'
    <3>1. ClearsSeen => OfSpace(rows, job.id)
      BY <1>3, FenceAssumption DEF BeginIncremental, RowsOneSpace
    <3>2. pc' = "fenced" /\ UNCHANGED <<rows, marker, job>>
      BY <1>3 DEF BeginIncremental
    <3> QED
      BY <1>0, <3>1, <3>2 DEF RowsOneSpace, OfSpace
  <2>2. PublishExact'
    <3>1. /\ pc = "start" /\ pc' = "fenced" /\ pending' = shard
          /\ UNCHANGED <<rows, job, todo, fresh>>
      BY <1>3 DEF BeginIncremental, begin_incremental_update
    <3> QED
      BY <1>0, <3>1 DEF PublishExact, LiveExact
  <2>3. FenceUp' /\ LiveExact' /\ FileExact' /\ WarmExact' /\ PersistExact'
    BY <1>3 DEF BeginIncremental, begin_incremental_update, LiveExact, FileExact,
       WarmExact, PersistExact
  <2>4. LiveSpace'
    <3>1. /\ pc = "start" /\ pc' = "fenced" /\ pending' = shard /\ shard' = NoShard
          /\ UNCHANGED <<marker, job, fresh>>
      BY <1>3 DEF BeginIncremental, begin_incremental_update
    <3>2. ClearsSeen /\ ~job.full => marker = job.id
      BY <3>1 DEF RowsOneSpace
    <3> QED
      BY <1>0, <3>1, <3>2 DEF LiveSpace, OfSpace
  <2> QED
    BY <2>1, <2>2, <2>3, <2>4
<1>4. CASE ClearMarker
  BY <1>0, <1>4 DEF ClearMarker, RowsOneSpace, PublishExact, LiveExact, LiveSpace,
     FileExact, WarmExact, PersistExact, OfSpace
<1>4a. CASE ClearMarkerLost
  <2>1. ~ClearsSeen'
    BY <1>4a, LoseType DEF ClearMarkerLost, ClearsSeen
  <2> QED
    BY <1>0, <1>4a, <2>1 DEF ClearMarkerLost, RowsOneSpace, PublishExact, LiveExact,
       LiveSpace, FileExact, WarmExact, PersistExact
<1>5. CASE bump_index_epoch
  <2>1. FileExact' /\ PersistExact'
    BY <1>5 DEF bump_index_epoch, FileExact, PersistExact, PersistedFile
  <2>2. FenceUp' /\ RowsOneSpace' /\ PublishExact' /\ LiveExact' /\ LiveSpace' /\ WarmExact'
    BY <1>0, <1>5 DEF bump_index_epoch, RowsOneSpace, PublishExact, LiveExact, LiveSpace,
       WarmExact, OfSpace
  <2> QED
    BY <2>1, <2>2
<1>6. CASE DeleteRows
  <2>1. /\ pc = "bumped" /\ pc' = "stream" /\ UNCHANGED <<marker, job, todo, fresh, pending>>
        /\ \A f \in Files : rows'[f] = IF f \in job.files THEN NoRow ELSE rows[f]
    BY <1>6 DEF DeleteRows
  <2>2. \A id : OfSpace(rows, id) => OfSpace(rows', id)
    BY <2>1 DEF OfSpace
  <2>3. ClearsSeen => OfSpace(rows', job.id)
    BY <2>1, <2>2 DEF OfSpace, RowsOneSpace, PublishExact
  <2>4. RowsOneSpace'
    BY <1>0, <2>1, <2>2, <2>3 DEF RowsOneSpace, OfSpace
  <2>5. PublishExact'
    <3>1. \A f \in job.files : f \in Files /\ fresh[f] = NoRow
      BY <2>1 DEF PublishExact, EmptyVecs
    <3> QED
      BY <1>0, <2>1, <3>1 DEF PublishExact
  <2>6. FenceUp' /\ LiveExact' /\ LiveSpace' /\ FileExact' /\ WarmExact' /\ PersistExact'
    BY <1>0, <1>6 DEF DeleteRows, LiveExact, LiveSpace, FileExact, WarmExact, PersistExact,
       OfSpace
  <2> QED
    BY <2>1, <2>2, <2>3, <2>4, <2>5, <2>6
<1>7. ASSUME NEW f \in Files, StoreFile(f)
      PROVE  Exact'
  <2>1. /\ pc = "stream" /\ UNCHANGED <<pc, marker, job, pending>>
        /\ f \in job.files /\ todo' \subseteq todo
        /\ rows' = [rows EXCEPT ![f] = rows'[f]] /\ rows'[f].id = job.id
        /\ fresh' = [fresh EXCEPT ![f] = rows'[f]]
    BY <1>7 DEF StoreFile, PublishExact, Vecs
  <2>2. RowsOneSpace'
    <3>1. ClearsSeen => OfSpace(rows', job.id)
      BY <2>1 DEF RowsOneSpace, OfSpace, Vecs
    <3>2. ClearsSeen => marker = None
      BY <2>1 DEF RowsOneSpace
    <3> QED
      BY <1>0, <2>1, <3>1, <3>2 DEF RowsOneSpace, OfSpace
  <2>3. PublishExact'
    BY <1>0, <2>1 DEF PublishExact, Vecs
  <2>4. FenceUp' /\ LiveExact' /\ FileExact' /\ WarmExact' /\ PersistExact'
    BY <1>7 DEF StoreFile, LiveExact, FileExact, WarmExact, PersistExact
  <2>5. LiveSpace'
    <3>1. ClearsSeen => OfSpace(fresh', job.id)
      BY <2>1 DEF LiveSpace, OfSpace, Vecs
    <3>2. UNCHANGED <<shard, marker, pc, job, pending>>
      BY <1>7 DEF StoreFile
    <3> QED
      BY <1>0, <3>1, <3>2 DEF LiveSpace, OfSpace
  <2> QED
    BY <2>1, <2>2, <2>3, <2>4, <2>5
<1>7a. ASSUME NEW f \in Files, StoreFileLost(f)
       PROVE  Exact'
  <2>1. ~RowsSeen'
    BY <1>7a, LoseType DEF StoreFileLost, RowsSeen
  <2>2. ClearsSeen => OfSpace(fresh', job.id)
    <3>1. pc = "stream" /\ \E row : row.id = job.id /\ fresh' = [fresh EXCEPT ![f] = row]
      BY <1>7a DEF StoreFileLost
    <3> QED
      BY <3>1 DEF LiveSpace, OfSpace, Vecs
  <2>3. LiveSpace'
    <3>1. UNCHANGED <<shard, marker, pc, job, pending>>
      BY <1>7a DEF StoreFileLost
    <3> QED
      BY <1>0, <2>2, <3>1 DEF LiveSpace, OfSpace
  <2>4. pc = "stream" /\ UNCHANGED <<pc, job, rows, marker>> /\ todo' \subseteq todo
    BY <1>7a DEF StoreFileLost
  <2>5. PublishExact' /\ RowsOneSpace'
    BY <1>0, <2>1, <2>4 DEF PublishExact, RowsOneSpace, OfSpace
  <2>6. FenceUp' /\ LiveExact' /\ FileExact' /\ WarmExact' /\ PersistExact'
    BY <1>0, <1>7a DEF StoreFileLost, LiveExact, FileExact, WarmExact, PersistExact
  <2> QED
    BY <2>3, <2>5, <2>6
<1>8. ASSUME NEW f \in Files, SkipFile(f)
      PROVE  Exact'
  BY <1>0, <1>8 DEF SkipFile, RowsOneSpace, PublishExact, LiveExact, LiveSpace,
     FileExact, WarmExact, PersistExact, OfSpace
<1>9. CASE CommitMarker
  BY <1>0, <1>9 DEF CommitMarker, RowsOneSpace, PublishExact, LiveExact, LiveSpace,
     FileExact, WarmExact, PersistExact, OfSpace
<1>10. CASE CommitMarkerFails
  BY <1>0, <1>10 DEF CommitMarkerFails, abort_update_fail_closed, RowsOneSpace, PublishExact,
     LiveExact, LiveSpace, FileExact, WarmExact, PersistExact, OfSpace
<1>11. CASE Publish
  <2>1. /\ pc = "marked" /\ pc' = "published" /\ UNCHANGED <<rows, marker, job, fresh>>
        /\ used' = used /\ (ClearsSeen => OfSpace(rows, job.id))
    BY <1>11 DEF Publish, RowsOneSpace
  <2> DEFINE merged == [f \in Files |-> IF f \in job.files THEN fresh[f]
                                        ELSE pending.vecs[f]]
  <2>2. \/ job.full /\ shard' = AsShard(fresh, job.id)
        \/ ~job.full /\ pending # NoShard /\ shard' = AsShard(merged, job.id)
        \/ ~job.full /\ pending = NoShard /\ shard' = shard
    BY <1>11 DEF Publish, publish_full_update, publish_incremental_update
  <2>2a. shard = NoShard
    BY <2>1
  <2>2b. LiveExact'
    <3>1. RowsSeen /\ job.full => fresh = rows
      BY <2>1 DEF PublishExact, Vecs
    <3>2. RowsSeen /\ ~job.full /\ pending # NoShard => merged = rows
      BY <2>1 DEF PublishExact, Vecs
    <3> QED
      BY <1>0, <2>1, <2>2, <2>2a, <3>1, <3>2 DEF LiveExact, AsShard
  <2>2c. LiveSpace'
    <3> SUFFICES ASSUME ClearsSeen, ClearsSeen' PROVE LiveSpace'
      BY <1>0 DEF LiveSpace
    <3>1. OfSpace(fresh, job.id) /\ (~job.full /\ pending # NoShard => OfSpace(merged, job.id))
      BY <2>1 DEF LiveSpace, OfSpace
    <3>2. shard' # NoShard => shard'.id = job.id /\ OfSpace(shard'.vecs, job.id)
      BY <2>2, <2>2a, <3>1 DEF AsShard
    <3>3. shard' # NoShard => marker' = job.id
      BY <2>1 DEF RowsOneSpace
    <3> QED
      BY <2>1, <3>1, <3>2, <3>3 DEF LiveSpace, OfSpace
  <2>3. WarmExact'
    <3>1. epoch' > epoch /\ UNCHANGED <<wpc, warm>>
      BY <1>11 DEF Publish, publish_full_update, publish_incremental_update
    <3>2. epoch' \in Nat
      BY <1>11 DEF Publish, publish_full_update, publish_incremental_update
    <3> QED
      BY <3>1, <3>2 DEF WarmExact
  <2>4. FenceUp' /\ RowsOneSpace' /\ PublishExact' /\ FileExact' /\ PersistExact'
    BY <1>0, <1>11 DEF Publish, publish_full_update, publish_incremental_update,
       RowsOneSpace, PublishExact, FileExact, PersistExact, OfSpace
  <2> QED
    BY <2>1, <2>2b, <2>2c, <2>3, <2>4
<1>12. CASE InvalidateShardFile
  BY <1>0, <1>12 DEF InvalidateShardFile, RowsOneSpace, PublishExact, LiveExact, LiveSpace,
     FileExact, WarmExact, PersistExact, OfSpace
<1>13. CASE RunSucceeds
  BY <1>0, <1>13 DEF RunSucceeds, RowsOneSpace, PublishExact, LiveExact, LiveSpace,
     FileExact, WarmExact, PersistExact, OfSpace
<1>14. CASE RunFails
  BY <1>0, <1>14 DEF RunFails, RowsOneSpace, PublishExact, LiveExact, LiveSpace,
     FileExact, WarmExact, PersistExact, OfSpace
<1>15. CASE CancelRun
  BY <1>0, <1>15 DEF CancelRun, RowsOneSpace, PublishExact, LiveExact, LiveSpace,
     FileExact, WarmExact, PersistExact, OfSpace
<1> QED
  BY <1>1, <1>2, <1>3, <1>4, <1>4a, <1>5, <1>6, <1>7, <1>7a, <1>8, <1>9, <1>10, <1>11,
     <1>12, <1>13, <1>14, <1>15 DEF RunStep

\* Every step of a warm keeps the fence's invariant.
LEMMA WarmStepExact == FenceInv /\ WarmStep => Exact'
<1> SUFFICES ASSUME FenceInv, WarmStep PROVE Exact'
  OBVIOUS
<1> USE DEF TypeOK, DurableTypeOK, MemTypeOK, RunTypeOK, WarmTypeOK, dbVars, fileVars,
            memVars, runVars, warmVars, queryVars, envVars, Window, Rewriting,
            FenceInv, Exact, SnapshotsBehindFence, FenceUp, WarmTo
<1>13. (ClearsSeen' => ClearsSeen) /\ (RowsSeen' => RowsSeen)
  BY OthersRemember
<1>0. ASSUME UNCHANGED <<rows, marker, index_epoch, mutating, epoch, pc, job, todo, fresh,
                         pending>>
      PROVE  FenceUp' /\ RowsOneSpace' /\ PublishExact'
  BY <1>13, <1>0 DEF RowsOneSpace, PublishExact, OfSpace
<1>1. ASSUME UNCHANGED <<rows, marker, index_epoch, mutating, epoch, pc, job, todo, fresh,
                         pending, shard, current>>,
             WarmExact', PersistExact'
      PROVE  Exact'
  BY <1>13, <1>0, <1>1 DEF LiveExact, LiveSpace, FileExact, OfSpace
<1>2. ASSUME NEW id \in Identities, WarmStart(id)
      PROVE  Exact'
  BY <1>2, <1>1 DEF WarmStart, NoWarm, WarmExact, PersistExact
<1>3. CASE WarmCount
  BY <1>3, <1>1 DEF WarmCount, WarmExact, PersistExact
<1>4. CASE WarmMarker
  BY <1>4, <1>1 DEF WarmMarker, MarkerMatches, Db, WarmExact, PersistExact
<1>5. CASE WarmStamp
  BY <1>5, <1>1 DEF WarmStamp, Db, WarmExact, PersistExact
<1>6. CASE WarmOpen
  BY <1>6, <1>1 DEF WarmOpen, Usable, StampOf, content_stamp, FileExact, WarmExact,
     PersistExact
<1>7. CASE WarmScan
  BY <1>7, <1>1 DEF WarmScan, Db, WarmExact, PersistExact
<1>8. CASE WarmRecheck
  BY <1>8, <1>1 DEF WarmRecheck, accepts_install, WarmExact, PersistExact
<1>9. CASE WarmFails
  BY <1>9, <1>1 DEF WarmFails, WarmExact, PersistExact
<1>10. CASE WarmPersist
  <2>1. UNCHANGED <<rows, marker, index_epoch, mutating, epoch, pc, job, todo, fresh, pending,
                    shard>>
    BY <1>10 DEF WarmPersist
  <2>2. FileExact'
    BY <1>10 DEF WarmPersist, FileExact, PersistExact
  <2>3. WarmExact' /\ PersistExact'
    BY <1>10 DEF WarmPersist, WarmExact, PersistExact
  <2> QED
    BY <1>13, <1>0, <2>1, <2>2, <2>3 DEF LiveExact, LiveSpace, OfSpace
<1>11. CASE WarmInstall
  <2>1. UNCHANGED <<rows, marker, index_epoch, mutating, epoch, pc, job, todo, fresh, pending,
                    current>>
    BY <1>11 DEF WarmInstall
  <2>2. LiveExact' /\ LiveSpace'
    <3>1. CASE accepts_install
      <4>1. /\ warm.vecs = rows /\ marker = warm.id /\ warm.index_epoch = index_epoch
        BY <1>11, <3>1 DEF WarmInstall, accepts_install, WarmExact
      <4>2. CanMap => current.vecs = rows
        BY <4>1 DEF CanMap, Usable, StampOf, content_stamp, FileExact
      <4>3. ClearsSeen => OfSpace(rows, warm.id)
        BY <1>11, <4>1, FenceAssumption DEF WarmInstall, RowsOneSpace
      <4>4. PICK mapped \in BOOLEAN :
               /\ mapped => CanMap
               /\ shard' = AsShard(IF mapped THEN current.vecs ELSE warm.vecs, warm.id)
        BY <1>11, <3>1 DEF WarmInstall
      <4>5. shard' = AsShard(rows, warm.id)
        BY <4>1, <4>2, <4>4
      <4> QED
        BY <1>13, <2>1, <4>1, <4>3, <4>5 DEF LiveExact, LiveSpace, AsShard, OfSpace
    <3>2. CASE ~accepts_install
      BY <1>13, <1>11, <3>2, <2>1 DEF WarmInstall, LiveExact, LiveSpace, OfSpace
    <3> QED
      BY <3>1, <3>2
  <2>3. WarmExact' /\ PersistExact'
    BY <1>11 DEF WarmInstall, WarmExact, PersistExact
  <2> QED
    BY <1>0, <2>1, <2>2, <2>3 DEF FileExact
<1>12. CASE WarmDiscard
  <2>1. UNCHANGED <<rows, marker, index_epoch, mutating, epoch, pc, job, todo, fresh, pending,
                    shard>>
    BY <1>12 DEF WarmDiscard
  <2>2. FileExact' /\ WarmExact' /\ PersistExact'
    BY <1>12 DEF WarmDiscard, FileExact, WarmExact, PersistExact
  <2> QED
    BY <1>13, <1>0, <2>1, <2>2 DEF LiveExact, LiveSpace, OfSpace
<1> QED
  BY <1>2, <1>3, <1>4, <1>5, <1>6, <1>7, <1>8, <1>9, <1>10, <1>11, <1>12 DEF WarmStep

\* Every step of a query keeps the fence's invariant.
LEMMA QueryStepExact == FenceInv /\ QueryStep => Exact'
<1> SUFFICES ASSUME FenceInv, QueryStep PROVE Exact'
  OBVIOUS
<1> USE DEF TypeOK, DurableTypeOK, MemTypeOK, RunTypeOK, WarmTypeOK, dbVars, fileVars,
            memVars, runVars, warmVars, queryVars, envVars, Window, Rewriting,
            FenceInv, Exact, SnapshotsBehindFence, FenceUp, WarmTo
<1>0. (ClearsSeen' => ClearsSeen) /\ (RowsSeen' => RowsSeen)
  BY OthersRemember
<1>1. /\ UNCHANGED <<rows, marker, index_epoch, mutating, epoch, pc, job, todo, fresh,
                     pending, current>>
      /\ shard' = shard \/ shard' = NoShard
      /\ UNCHANGED <<wpc, warm>> \/ wpc' \in {"idle", "held"}
  BY DEF QueryStep, QueryStart, QuerySearch, QueryEvict, QueryCheck, QueryStale, QueryFile,
         QueryInstallFile, QueryLock, QueryLoad, QueryLoadFails, QueryInstallLoaded,
         install_stale
<1>2. FenceUp' /\ RowsOneSpace' /\ PublishExact'
  BY <1>0, <1>1 DEF RowsOneSpace, PublishExact, OfSpace
<1>3. LiveExact' /\ LiveSpace' /\ FileExact'
  BY <1>0, <1>1 DEF LiveExact, LiveSpace, FileExact, OfSpace
<1>4. WarmExact' /\ PersistExact'
  BY <1>1 DEF WarmExact, PersistExact
<1> QED
  BY <1>2, <1>3, <1>4

\* Edits, client switches, evictions and crashes keep the fence's invariant; a
\* removal of the index does not.
LEMMA EnvironmentExact ==
  ASSUME MaxRemovals = 0
  PROVE  FenceInv /\ Environment => Exact'
<1> SUFFICES ASSUME FenceInv, Environment PROVE Exact'
  OBVIOUS
<1> USE DEF TypeOK, DurableTypeOK, MemTypeOK, RunTypeOK, WarmTypeOK, dbVars, fileVars,
            memVars, runVars, warmVars, queryVars, envVars, Window, Rewriting,
            FenceInv, Exact, SnapshotsBehindFence, FenceUp
<1>0. (ClearsSeen' => ClearsSeen) /\ (RowsSeen' => RowsSeen)
  BY OthersRemember
<1>1. ASSUME NEW f \in Files, Edit(f)
      PROVE  Exact'
  BY <1>0, <1>1 DEF Edit, RowsOneSpace, PublishExact, LiveExact, LiveSpace,
     FileExact, WarmExact, PersistExact, OfSpace
<1>2. ASSUME NEW id \in Identities, SwitchClient(id)
      PROVE  Exact'
  BY <1>0, <1>2 DEF SwitchClient, RowsOneSpace, PublishExact, LiveExact, LiveSpace,
     FileExact, WarmExact, PersistExact, OfSpace
<1>3. CASE Evict
  BY <1>0, <1>3 DEF Evict, RowsOneSpace, PublishExact, LiveExact, LiveSpace,
     FileExact, WarmExact, PersistExact, OfSpace
<1>4. CASE Crash
  BY <1>0, <1>4 DEF Crash, RowsOneSpace, PublishExact, LiveExact, LiveSpace,
     FileExact, WarmExact, PersistExact, OfSpace
<1>5. ~RemoveIndex
  BY DEF RemoveIndex, Bounds
<1> QED
  BY <1>1, <1>2, <1>3, <1>4, <1>5 DEF Environment

\* A worker that starts on a repository never indexed has nothing to be wrong about.
LEMMA InitExact == Init => Exact
<1> SUFFICES ASSUME Init PROVE Exact
  OBVIOUS
<1>1. \A id : OfSpace(rows, id)
  BY DEF Init, OfSpace, EmptyVecs
<1> QED
  BY <1>1 DEF Init, Exact, FenceUp, RowsOneSpace, PublishExact, LiveExact, LiveSpace,
     FileExact, WarmExact, PersistExact, Window, Rewriting

\* Every step keeps the fence's invariant, if the index is never removed.
LEMMA ExactKept ==
  ASSUME MaxRemovals = 0
  PROVE  FenceInv /\ [Next]_vars => FenceInv'
<1> SUFFICES ASSUME FenceInv, [Next]_vars PROVE FenceInv'
  OBVIOUS
<1>1. TypeOK' /\ SnapshotsBehindFence'
  BY TypesKept, SnapshotsKept DEF FenceInv
<1>2. ASSUME UNCHANGED vars PROVE Exact'
  BY <1>2 DEF vars, FenceInv, Exact, FenceUp, RowsOneSpace, PublishExact, LiveExact,
     LiveSpace, FileExact, WarmExact, PersistExact, OfSpace, Window, Rewriting,
     ClearsSeen, RowsSeen
<1>3. ASSUME Next PROVE Exact'
  BY <1>3, RunExact, WarmStepExact, QueryStepExact, EnvironmentExact DEF Next
<1> QED
  BY <1>1, <1>2, <1>3 DEF FenceInv

\* The fence's invariant holds of every behaviour without a removal.
LEMMA FenceInvariant ==
  ASSUME MaxRemovals = 0
  PROVE  Spec => []FenceInv
<1>1. Init => FenceInv
  BY InitTypes, InitExact DEF Init, FenceInv, SnapshotsBehindFence
<1>2. FenceInv /\ [Next]_vars => FenceInv'
  BY ExactKept
<1> QED
  BY <1>1, <1>2, PTL DEF Spec

\* As long as the index is not removed and no INSERT of chunks is lost unseen, a
\* searchable shard is the chunk table row for row, whatever runs, warms, queries,
\* evictions, crashes and lost clears of the marker overlap.
THEOREM LiveShardIsTable ==
  ASSUME MaxRemovals = 0
  PROVE  Spec => []LiveIsCommitted
<1>1. FenceInv => LiveIsCommitted
  BY DEF FenceInv, Exact, LiveExact, LiveIsCommitted
<1> QED
  BY <1>1, FenceInvariant, PTL

\* As long as the index is not removed and no clear of the marker is lost unseen, no
\* search mixes embedding spaces: every vector of a searchable shard is of the
\* identity shard_match compares, those included whose rows were lost.
THEOREM LiveShardOneSpace ==
  ASSUME MaxRemovals = 0
  PROVE  Spec => []LiveOneSpace
<1>1. FenceInv => LiveOneSpace
  BY DEF FenceInv, Exact, LiveSpace, LiveOneSpace, OfSpace
<1> QED
  BY <1>1, FenceInvariant, PTL

\* As long as the index is not removed, a persisted shard that validates against the
\* committed table is that table, whatever statement is lost unseen.
THEOREM PersistedShardSound ==
  ASSUME MaxRemovals = 0
  PROVE  Spec => []StampSound
<1>1. FenceInv => StampSound
  BY DEF FenceInv, Exact, FileExact, StampSound, StampOf, content_stamp
<1> QED
  BY <1>1, FenceInvariant, PTL
=============================================================================
