---------------------------- MODULE VectorFence ----------------------------
(***************************************************************************)
(* The in-memory vector index of one repository (ShardedVectorIndex,       *)
(* src/src/vector/sharded.rs), its persisted copy (shard_file.rs) and the  *)
(* three parties that use them without a common lock: the index run that   *)
(* rewrites the chunk rows (pipeline.rs), the warm that loads them into    *)
(* memory and the query (indexing/mod.rs).  Each method of the index is    *)
(* atomic (the engine's write lock); everything between two of them        *)
(* interleaves.                                                            *)
(*                                                                         *)
(* An index run fences the repository before it touches a row.  A warm     *)
(* that overlaps a run is caught by the mutation epoch it captured, and a  *)
(* persisted file of an older table by the durable index epoch in its      *)
(* stamp.                                                                  *)
(*                                                                         *)
(* A row stands for the chunk rows of one file: the version of the file,   *)
(* the embedding space of its vectors and the generation of the database.  *)
(***************************************************************************)
EXTENDS Naturals, FiniteSets

CONSTANTS
    Files,          \* indexable files
    Identities,     \* embedding spaces (provider, model, dimension)
    NoRow,          \* a file without chunk rows
    None,           \* an absent identity
    NoShard,        \* no shard in a map of the index
    NoFile,         \* no CURRENT pointer
    NoDb,           \* a warm that reads the repository's current database
    MaxFaults,      \* bound: failed operations and cancelled runs
    MaxLost,        \* bound: failed statements whose failure the code never sees
    MaxEdits, MaxRuns, MaxCrashes, MaxSwitches, MaxRemovals     \* further bounds

ASSUME FenceAssumption ==
    /\ IsFiniteSet(Files)
    /\ None \notin Identities
    /\ MaxRemovals \in Nat

VARIABLES
    tree,           \* the working tree: the version of each file, 0 if absent
    client,         \* the embedding space of the configured client
    rows, marker, needs_rebuild, index_epoch,   \* the repository's database
    generation,     \* repo_generation: which database directory is in use
    current, newest,    \* the persisted shard CURRENT names; newest generation dir
    shard,          \* ShardedVectorIndex::shards: the searchable shard
    pending, stale, incremental_identity, mutating, epoch,  \* its other fields
    pc, job, todo, fresh,   \* the index run, under the per-repo run lock
    wpc, warm,      \* the warm, under the per-repo warm lock
    qpc, query,     \* a query
    used            \* what is used up of each bound

dbVars   == <<rows, marker, needs_rebuild, index_epoch, generation>>
fileVars == <<current, newest>>
memVars  == <<shard, pending, stale, incremental_identity, mutating, epoch>>
runVars  == <<pc, job, todo, fresh>>
warmVars == <<wpc, warm>>
queryVars == <<qpc, query>>
envVars  == <<tree, client, used>>
vars == <<tree, client, rows, marker, needs_rebuild, index_epoch, generation,
          current, newest, shard, pending, stale, incremental_identity, mutating,
          epoch, pc, job, todo, fresh, wpc, warm, qpc, query, used>>

Row   == [ver : Nat, id : Identities, gen : Nat]
Vecs  == [Files -> Row \cup {NoRow}]
Shard == [vecs : Vecs, id : Identities]

EmptyVecs == [f \in Files |-> NoRow]
Stored == {f \in Files : rows[f] # NoRow}

\* install_shard drops a shard without vectors.
KeepEmptyShard(vecs, id) == [vecs |-> vecs, id |-> id]
AsShard(vecs, id) == IF vecs = EmptyVecs THEN NoShard ELSE [vecs |-> vecs, id |-> id]

NoJob   == [full |-> FALSE, force |-> FALSE, id |-> None, files |-> {}, pre |-> 0]
NoWarm  == [id |-> None, epoch |-> 0, count |-> 0, index_epoch |-> 0,
            vecs |-> EmptyVecs, mine |-> 0, db |-> NoDb]
NoQuery == [id |-> None, seen |-> None, vecs |-> EmptyVecs]
Bounds  == {"edits", "runs", "faults", "lostclears", "lostrows", "crashes", "switches",
            "removals"}
Spend(what) == used' = [used EXCEPT ![what] = @ + 1]

\* No clear of the identity marker, and no INSERT of chunks, has failed unseen.
ClearsSeen == used["lostclears"] = 0
RowsSeen   == used["lostrows"] = 0
Lose(what) == used["lostclears"] + used["lostrows"] < MaxLost /\ Spend(what)

\* A worker starts on a repository that was never indexed.
Init ==
    /\ tree \in [Files -> {0, 1}]
    /\ client \in Identities
    /\ rows = EmptyVecs /\ marker = None /\ needs_rebuild = FALSE
    /\ index_epoch = 0 /\ generation = 0
    /\ current = NoFile /\ newest = 0
    /\ shard = NoShard /\ pending = NoShard /\ stale = NoShard
    /\ incremental_identity = None /\ mutating = FALSE /\ epoch = 0
    /\ pc = "idle" /\ job = NoJob /\ todo = {} /\ fresh = EmptyVecs
    /\ wpc = "idle" /\ warm = NoWarm
    /\ qpc = "idle" /\ query = NoQuery
    /\ used = [b \in Bounds |-> 0]

-----------------------------------------------------------------------------
(* The methods of ShardedVectorIndex that change it.                       *)

\* The newest of the two shards a run retires, kept for searches if there is one.
retain_stale(live, base) ==
    IF live # NoShard THEN live ELSE IF base # NoShard THEN base ELSE stale

\* begin_full_update, then install_stale of a snapshot captured from the database.
begin_full_update(captured) ==
    LET kept == retain_stale(shard, pending)
    IN  /\ epoch' = epoch + 1
        /\ stale' = IF kept = NoShard THEN captured ELSE kept
        /\ shard' = NoShard /\ pending' = NoShard
        /\ incremental_identity' = None
        /\ mutating' = TRUE

begin_incremental_update(id) ==
    /\ epoch' = epoch + 1
    /\ pending' = shard
    /\ shard' = NoShard
    /\ incremental_identity' = id
    /\ mutating' = TRUE
    /\ UNCHANGED stale

publish_full_update(vecs, id) ==
    /\ epoch' = epoch + 1
    /\ shard' = AsShard(vecs, id)
    /\ pending' = NoShard /\ stale' = NoShard
    /\ incremental_identity' = None
    /\ mutating' = FALSE

\* Mutant: the stale snapshot outlives the fence.
PublishKeepsStale(files, vecs, id) ==
    /\ epoch' = epoch + 1
    /\ shard' = IF pending = NoShard THEN shard ELSE AsShard([f \in Files |->
                    IF f \in files THEN vecs[f] ELSE pending.vecs[f]], id)
    /\ pending' = NoShard
    /\ incremental_identity' = None
    /\ mutating' = FALSE
    /\ UNCHANGED stale

\* Only a shard that was resident when the run began absorbs the delta
\* (apply_incremental, which bumps the epoch once more); a cold one stays cold.
publish_incremental_update(files, vecs, id) ==
    /\ \/ /\ pending # NoShard
          /\ shard' = AsShard([f \in Files |->
                          IF f \in files THEN vecs[f] ELSE pending.vecs[f]], id)
          /\ epoch' = epoch + 2
       \/ /\ pending = NoShard
          /\ shard' = shard
          /\ epoch' = epoch + 1
    /\ pending' = NoShard /\ stale' = NoShard
    /\ incremental_identity' = None
    /\ mutating' = FALSE

\* The rollback of a run whose identity marker could not be written:
\* evict_if_identity(id), then abort_update_fail_closed.
abort_update_fail_closed(id) ==
    LET live == IF shard # NoShard /\ shard.id = id THEN NoShard ELSE shard
    IN  /\ epoch' = epoch + 1
        /\ stale' = retain_stale(live, pending)
        /\ shard' = NoShard /\ pending' = NoShard
        /\ incremental_identity' = None
        /\ mutating' = TRUE

\* Mutant: the snapshot is installed whether or not the fence is still up.
StaleAnytime(vecs, id) ==
    /\ stale' = IF pending = NoShard /\ stale = NoShard THEN AsShard(vecs, id) ELSE stale
    /\ UNCHANGED <<shard, pending, incremental_identity, mutating, epoch>>

install_stale(vecs, id) ==
    /\ stale' = IF mutating /\ pending = NoShard /\ stale = NoShard
                THEN AsShard(vecs, id) ELSE stale
    /\ UNCHANGED <<shard, pending, incremental_identity, mutating, epoch>>

\* Mutant: the fence flag alone, which an update that began and published while
\* the warm was scanning leaves as it was.
AcceptsUnlessMutating == ~mutating

\* The check of install_shard_if_not_mutating.
accepts_install == ~mutating /\ epoch = warm.epoch

-----------------------------------------------------------------------------
(* The index run.                                                          *)

\* Files whose row is not that of the working tree.
Changes == {f \in Files : IF rows[f] = NoRow THEN tree[f] # 0 ELSE rows[f].ver # tree[f]}

\* stored_vectors_match_client: a few stored rows, re-embedded, give the stored
\* vectors.  The request may also fail, which is the caller's choice of FALSE.
stored_vectors_match_client == \E f \in Stored : rows[f].id = client

\* The consumer takes the run lock and run() decides what to do: rebuild, apply
\* the changed files, or find nothing changed and only look at the call graph.  It
\* goes by file_meta (`hasData`, `files`), which may also list files of which the
\* chunks were lost unseen.
StartRun(force, adopt, hasData, files) ==
    LET full == \/ ~hasData \/ force \/ needs_rebuild
                \/ marker # None /\ marker # client
                \/ marker = None /\ ~adopt
        work == IF full THEN Files ELSE files
    IN  /\ pc = "idle" /\ used["runs"] < MaxRuns
        /\ IF hasData THEN Stored # {} \/ ~RowsSeen ELSE Stored = {}
        /\ adopt => marker = None /\ hasData /\ stored_vectors_match_client
        /\ adopt /\ RowsSeen => files = Changes
        /\ marker' = IF adopt THEN client ELSE marker
        /\ job' = [full |-> full, force |-> force \/ needs_rebuild, id |-> client,
                   files |-> work, pre |-> IF current = NoFile THEN 0 ELSE current.gen]
        /\ todo' = {f \in work : tree[f] # 0}
        /\ fresh' = EmptyVecs
        /\ pc' = IF work = {} THEN "graph" ELSE "start"
        /\ Spend("runs")
        /\ UNCHANGED <<tree, client, rows, needs_rebuild, index_epoch, generation>>
        /\ UNCHANGED fileVars /\ UNCHANGED memVars
        /\ UNCHANGED warmVars /\ UNCHANGED queryVars

\* A cold repository's table is captured before a rebuild of the same space.
load_stale_snapshot_if_cold ==
    {NoShard} \cup IF marker = job.id /\ shard = NoShard
                      /\ pending = NoShard /\ stale = NoShard
                   THEN {AsShard(rows, job.id)} ELSE {}

BeginFull ==
    /\ pc = "start" /\ job.full
    /\ \E captured \in load_stale_snapshot_if_cold : begin_full_update(captured)
    /\ pc' = "fenced"
    /\ UNCHANGED <<job, todo, fresh>>
    /\ UNCHANGED dbVars /\ UNCHANGED fileVars /\ UNCHANGED envVars
    /\ UNCHANGED warmVars /\ UNCHANGED queryVars

BeginIncremental ==
    /\ pc = "start" /\ ~job.full
    /\ begin_incremental_update(job.id)
    /\ pc' = "fenced"
    /\ UNCHANGED <<job, todo, fresh>>
    /\ UNCHANGED dbVars /\ UNCHANGED fileVars /\ UNCHANGED envVars
    /\ UNCHANGED warmVars /\ UNCHANGED queryVars

ClearMarker ==
    /\ pc = "fenced"
    /\ marker' = None
    /\ pc' = "unmarked"
    /\ UNCHANGED <<rows, needs_rebuild, index_epoch, generation, job, todo, fresh>>
    /\ UNCHANGED fileVars /\ UNCHANGED memVars /\ UNCHANGED envVars
    /\ UNCHANGED warmVars /\ UNCHANGED queryVars

\* The clear is not checked: its statement may fail unseen.
ClearMarkerLost ==
    /\ pc = "fenced" /\ Lose("lostclears")
    /\ pc' = "unmarked"
    /\ UNCHANGED <<tree, client, job, todo, fresh>>
    /\ UNCHANGED dbVars /\ UNCHANGED fileVars /\ UNCHANGED memVars
    /\ UNCHANGED warmVars /\ UNCHANGED queryVars

\* Mutant: the stamp of a persisted shard does not change with the rows.
NoEpochBump ==
    /\ pc = "unmarked"
    /\ pc' = "bumped"
    /\ UNCHANGED <<rows, marker, needs_rebuild, index_epoch, generation, job, todo, fresh>>
    /\ UNCHANGED fileVars /\ UNCHANGED memVars /\ UNCHANGED envVars
    /\ UNCHANGED warmVars /\ UNCHANGED queryVars

bump_index_epoch ==
    /\ pc = "unmarked"
    /\ index_epoch' = index_epoch + 1
    /\ pc' = "bumped"
    /\ UNCHANGED <<rows, marker, needs_rebuild, generation, job, todo, fresh>>
    /\ UNCHANGED fileVars /\ UNCHANGED memVars /\ UNCHANGED envVars
    /\ UNCHANGED warmVars /\ UNCHANGED queryVars

\* delete_all_data or delete_files_data_incremental.
DeleteRows ==
    /\ pc = "bumped"
    /\ rows' = [f \in Files |-> IF f \in job.files THEN NoRow ELSE rows[f]]
    /\ pc' = "stream"
    /\ UNCHANGED <<marker, needs_rebuild, index_epoch, generation, job, todo, fresh>>
    /\ UNCHANGED fileVars /\ UNCHANGED memVars /\ UNCHANGED envVars
    /\ UNCHANGED warmVars /\ UNCHANGED queryVars

\* streaming_index stores the chunks of one file and keeps their vectors for the
\* publish.
StoreFile(f) ==
    LET row == [ver |-> tree[f], id |-> job.id, gen |-> generation]
    IN  /\ pc = "stream" /\ f \in todo /\ tree[f] # 0
        /\ rows' = [rows EXCEPT ![f] = row]
        /\ fresh' = [fresh EXCEPT ![f] = row]
        /\ todo' = todo \ {f}
        /\ UNCHANGED <<marker, needs_rebuild, index_epoch, generation, pc, job>>
        /\ UNCHANGED fileVars /\ UNCHANGED memVars /\ UNCHANGED envVars
        /\ UNCHANGED warmVars /\ UNCHANGED queryVars

\* Nor is the INSERT of flush_chunk_batch: the vectors are kept for the publish
\* although their rows are lost.
StoreFileLost(f) ==
    /\ pc = "stream" /\ f \in todo /\ tree[f] # 0 /\ Lose("lostrows")
    /\ fresh' = [fresh EXCEPT ![f] = [ver |-> tree[f], id |-> job.id, gen |-> generation]]
    /\ todo' = todo \ {f}
    /\ UNCHANGED <<tree, client, pc, job>>
    /\ UNCHANGED dbVars /\ UNCHANGED fileVars /\ UNCHANGED memVars
    /\ UNCHANGED warmVars /\ UNCHANGED queryVars

\* A file that vanished or cannot be read or embedded now is left without rows.
SkipFile(f) ==
    /\ pc = "stream" /\ f \in todo
    /\ \/ tree[f] = 0 /\ UNCHANGED used
       \/ tree[f] # 0 /\ used["faults"] < MaxFaults /\ Spend("faults")
    /\ todo' = todo \ {f}
    /\ UNCHANGED <<tree, client, pc, job, fresh>>
    /\ UNCHANGED dbVars /\ UNCHANGED fileVars /\ UNCHANGED memVars
    /\ UNCHANGED warmVars /\ UNCHANGED queryVars

CommitMarker ==
    /\ pc = "stream" /\ todo = {}
    /\ marker' = job.id
    /\ pc' = "marked"
    /\ UNCHANGED <<rows, needs_rebuild, index_epoch, generation, job, todo, fresh>>
    /\ UNCHANGED fileVars /\ UNCHANGED memVars /\ UNCHANGED envVars
    /\ UNCHANGED warmVars /\ UNCHANGED queryVars

\* rollback_published_vectors.  It clears the marker once more (unchecked, so that one
\* whose first clear was lost may still be there) and removes the persisted shard
\* only while CURRENT still names the generation the run saw when it started.
CommitMarkerFails ==
    /\ pc = "stream" /\ todo = {} /\ used["faults"] < MaxFaults
    /\ marker' \in {None, marker}
    /\ needs_rebuild' \in {needs_rebuild, TRUE}
    /\ abort_update_fail_closed(job.id)
    /\ current' = IF current # NoFile /\ current.gen = job.pre THEN NoFile ELSE current
    /\ pc' = "idle" /\ job' = NoJob /\ todo' = {} /\ fresh' = EmptyVecs
    /\ Spend("faults")
    /\ UNCHANGED <<tree, client, rows, index_epoch, generation, newest>>
    /\ UNCHANGED warmVars /\ UNCHANGED queryVars

Publish ==
    /\ pc = "marked"
    /\ IF job.full THEN publish_full_update(fresh, job.id)
       ELSE publish_incremental_update(job.files, fresh, job.id)
    /\ pc' = "published"
    /\ UNCHANGED <<job, todo, fresh>>
    /\ UNCHANGED dbVars /\ UNCHANGED fileVars /\ UNCHANGED envVars
    /\ UNCHANGED warmVars /\ UNCHANGED queryVars

\* invalidate_persisted_shard, whose failure is ignored.
InvalidateShardFile ==
    /\ pc = "published"
    /\ \/ current' = NoFile /\ UNCHANGED used
       \/ used["faults"] < MaxFaults /\ UNCHANGED current /\ Spend("faults")
    /\ pc' = "graph"
    /\ UNCHANGED <<tree, client, newest, job, todo, fresh>>
    /\ UNCHANGED dbVars /\ UNCHANGED memVars
    /\ UNCHANGED warmVars /\ UNCHANGED queryVars

\* Phase 2 is done and the consumer reports success.  Like every write of the
\* rebuild flag, the one that clears it is best effort.
RunSucceeds ==
    /\ pc = "graph"
    /\ needs_rebuild' \in {needs_rebuild, needs_rebuild /\ ~job.force}
    /\ pc' = "idle" /\ job' = NoJob /\ todo' = {} /\ fresh' = EmptyVecs
    /\ UNCHANGED <<rows, marker, index_epoch, generation>>
    /\ UNCHANGED fileVars /\ UNCHANGED memVars /\ UNCHANGED envVars
    /\ UNCHANGED warmVars /\ UNCHANGED queryVars

\* A statement, the preflight or Phase 2 fails: the next run is forced to rebuild.
RunFails ==
    /\ pc \in {"start", "fenced", "unmarked", "bumped", "stream", "graph"}
    /\ used["faults"] < MaxFaults
    /\ needs_rebuild' \in {needs_rebuild, TRUE}
    /\ pc' = "idle" /\ job' = NoJob /\ todo' = {} /\ fresh' = EmptyVecs
    /\ Spend("faults")
    /\ UNCHANGED <<tree, client, rows, marker, index_epoch, generation>>
    /\ UNCHANGED fileVars /\ UNCHANGED memVars
    /\ UNCHANGED warmVars /\ UNCHANGED queryVars

\* The token is looked at before a rebuild begins, while files stream and in
\* Phase 2.  A cancelled run leaves the fence as it is and asks for nothing.
CancelRun ==
    /\ \/ pc \in {"stream", "graph"}
       \/ pc = "start" /\ job.full
    /\ used["faults"] < MaxFaults
    /\ pc' = "idle" /\ job' = NoJob /\ todo' = {} /\ fresh' = EmptyVecs
    /\ Spend("faults")
    /\ UNCHANGED <<tree, client>>
    /\ UNCHANGED dbVars /\ UNCHANGED fileVars /\ UNCHANGED memVars
    /\ UNCHANGED warmVars /\ UNCHANGED queryVars

-----------------------------------------------------------------------------
(* The warm: one per repository at a time.                                 *)

\* The database the warm's handle is on.
Db == IF warm.db # NoDb THEN warm.db
      ELSE [rows |-> rows, marker |-> marker, index_epoch |-> index_epoch]

NonEmpty(vecs) == {f \in Files : vecs[f] # NoRow}

\* The warm goes on at `next` with state w; when it ends it drops what it holds.
WarmTo(next, w) == wpc' = next /\ warm' = IF next = "idle" THEN NoWarm ELSE w

\* warm_repo_blocking coalesces with a shard of the same identity;
\* warm_repo_shard then captures the epoch, and gives up inside a fence.
WarmStart(id) ==
    /\ wpc = "idle" /\ ~mutating
    /\ ~(shard # NoShard /\ shard.id = id)
    /\ WarmTo("count", [NoWarm EXCEPT !.id = id, !.epoch = epoch])
    /\ UNCHANGED dbVars /\ UNCHANGED fileVars /\ UNCHANGED memVars
    /\ UNCHANGED runVars /\ UNCHANGED queryVars /\ UNCHANGED envVars

WarmCount ==
    LET n == Cardinality(NonEmpty(Db.rows))
    IN  /\ wpc = "count"
        /\ WarmTo(IF n = 0 THEN "idle" ELSE "marker", [warm EXCEPT !.count = n])
        /\ UNCHANGED dbVars /\ UNCHANGED fileVars /\ UNCHANGED memVars
        /\ UNCHANGED runVars /\ UNCHANGED queryVars /\ UNCHANGED envVars

\* Mutant: any committed identity will do.
AnyMarker == Db.marker # None

MarkerMatches == Db.marker = warm.id

\* An absent marker queues a check and another identity's a rebuild; either way
\* nothing is installed.
WarmMarker ==
    /\ wpc = "marker"
    /\ WarmTo(IF MarkerMatches THEN "stamp" ELSE "idle", warm)
    /\ \/ UNCHANGED needs_rebuild
       \/ Db.marker \notin {None, warm.id} /\ warm.db = NoDb /\ needs_rebuild' = TRUE
    /\ UNCHANGED <<rows, marker, index_epoch, generation>>
    /\ UNCHANGED fileVars /\ UNCHANGED memVars
    /\ UNCHANGED runVars /\ UNCHANGED queryVars /\ UNCHANGED envVars

WarmStamp ==
    /\ wpc = "stamp"
    /\ WarmTo("open", [warm EXCEPT !.index_epoch = Db.index_epoch])
    /\ UNCHANGED dbVars /\ UNCHANGED fileVars /\ UNCHANGED memVars
    /\ UNCHANGED runVars /\ UNCHANGED queryVars /\ UNCHANGED envVars

\* content_stamp hashes the identity, the chunk count and the index epoch.
content_stamp(id, count, ie) == <<id, count, ie>>
StampOf(file) == content_stamp(file.id, file.count, file.index_epoch)
Usable == /\ current # NoFile
          /\ StampOf(current) = content_stamp(warm.id, warm.count, warm.index_epoch)

\* open_current: a persisted shard with the expected stamp saves the scan, unless
\* it cannot be opened.
WarmOpen ==
    /\ wpc = "open"
    /\ \/ /\ Usable /\ UNCHANGED used
          /\ WarmTo("install", [warm EXCEPT !.vecs = current.vecs])
       \/ /\ \/ ~Usable /\ UNCHANGED used
             \/ Usable /\ used["faults"] < MaxFaults /\ Spend("faults")
          /\ WarmTo("scan", warm)
    /\ UNCHANGED <<tree, client>>
    /\ UNCHANGED dbVars /\ UNCHANGED fileVars /\ UNCHANGED memVars
    /\ UNCHANGED runVars /\ UNCHANGED queryVars

\* load_from_db, one SELECT without any lock.
WarmScan ==
    /\ wpc = "scan"
    /\ WarmTo(IF Db.rows = EmptyVecs THEN "idle" ELSE "recheck",
              [warm EXCEPT !.vecs = Db.rows])
    /\ UNCHANGED dbVars /\ UNCHANGED fileVars /\ UNCHANGED memVars
    /\ UNCHANGED runVars /\ UNCHANGED queryVars /\ UNCHANGED envVars

\* A snapshot an update overlapped is never persisted.
WarmRecheck ==
    /\ wpc = "recheck"
    /\ WarmTo(IF accepts_install THEN "persist" ELSE "idle", warm)
    /\ UNCHANGED dbVars /\ UNCHANGED fileVars /\ UNCHANGED memVars
    /\ UNCHANGED runVars /\ UNCHANGED queryVars /\ UNCHANGED envVars

\* write_new_generation; without a file the shard is installed from memory.
WarmPersist ==
    /\ wpc = "persist"
    /\ \/ /\ newest' = newest + 1
          /\ current' = [gen |-> newest + 1, vecs |-> warm.vecs, id |-> warm.id,
                         count |-> warm.count, index_epoch |-> warm.index_epoch]
          /\ WarmTo("install", [warm EXCEPT !.mine = newest + 1])
          /\ UNCHANGED used
       \/ /\ used["faults"] < MaxFaults /\ Spend("faults")
          /\ WarmTo("install", warm)
          /\ UNCHANGED <<current, newest>>
    /\ UNCHANGED <<tree, client>>
    /\ UNCHANGED dbVars /\ UNCHANGED memVars /\ UNCHANGED runVars /\ UNCHANGED queryVars

\* A warm that wrote a generation maps the file if it still validates.
CanMap == warm.mine # 0 /\ Usable

\* install_shard_if_not_mutating, with the mapped file or, if it cannot be mapped,
\* with the vectors in memory.
WarmInstall ==
    /\ wpc = "install"
    /\ \E mapped \in BOOLEAN :
          /\ mapped => CanMap
          /\ \/ /\ accepts_install
                /\ shard' = AsShard(IF mapped THEN current.vecs ELSE warm.vecs, warm.id)
                /\ WarmTo("idle", warm)
             \/ /\ ~accepts_install
                /\ WarmTo(IF mapped THEN "discard" ELSE "idle", warm)
                /\ UNCHANGED shard
    /\ UNCHANGED <<pending, stale, incremental_identity, mutating, epoch>>
    /\ UNCHANGED dbVars /\ UNCHANGED fileVars
    /\ UNCHANGED runVars /\ UNCHANGED queryVars /\ UNCHANGED envVars

\* invalidate_current_if_generation with the warm's own generation.
WarmDiscard ==
    /\ wpc = "discard"
    /\ current' = IF current # NoFile /\ current.gen = warm.mine THEN NoFile ELSE current
    /\ WarmTo("idle", warm)
    /\ UNCHANGED newest
    /\ UNCHANGED dbVars /\ UNCHANGED memVars
    /\ UNCHANGED runVars /\ UNCHANGED queryVars /\ UNCHANGED envVars

WarmFails ==
    /\ wpc \in {"count", "marker", "stamp", "scan"} /\ used["faults"] < MaxFaults
    /\ WarmTo("idle", warm)
    /\ Spend("faults")
    /\ UNCHANGED <<tree, client>>
    /\ UNCHANGED dbVars /\ UNCHANGED fileVars /\ UNCHANGED memVars
    /\ UNCHANGED runVars /\ UNCHANGED queryVars

-----------------------------------------------------------------------------
(* A query (vector_search_with, search_stale, load_incremental_stale).  It *)
(* uses the embedding space of the client it was embedded with to the end. *)

QueryTo(next, q) == qpc' = next /\ query' = IF next = "idle" THEN NoQuery ELSE q

QueryStart ==
    /\ qpc = "idle"
    /\ QueryTo("search", [NoQuery EXCEPT !.id = client])
    /\ UNCHANGED dbVars /\ UNCHANGED fileVars /\ UNCHANGED memVars
    /\ UNCHANGED runVars /\ UNCHANGED warmVars /\ UNCHANGED envVars

\* search_scoped_with: a hit answers the query.
QuerySearch ==
    /\ qpc = "search"
    /\ LET cold == mutating \/ shard = NoShard
           mismatch == ~cold /\ shard.id # query.id
       IN  QueryTo(IF cold THEN "check" ELSE IF mismatch THEN "evict" ELSE "idle",
                   IF mismatch THEN [query EXCEPT !.seen = shard.id] ELSE query)
    /\ UNCHANGED dbVars /\ UNCHANGED fileVars /\ UNCHANGED memVars
    /\ UNCHANGED runVars /\ UNCHANGED warmVars /\ UNCHANGED envVars

\* evict_if_identity with the identity the search saw.
QueryEvict ==
    /\ qpc = "evict"
    /\ shard' = IF shard # NoShard /\ shard.id = query.seen THEN NoShard ELSE shard
    /\ QueryTo("check", query)
    /\ UNCHANGED <<pending, stale, incremental_identity, mutating, epoch>>
    /\ UNCHANGED dbVars /\ UNCHANGED fileVars
    /\ UNCHANGED runVars /\ UNCHANGED warmVars /\ UNCHANGED envVars

\* A fenced repository is answered from a snapshot, now or, when the fence came up
\* while the query waited for a warm, at the second search.
QueryCheck ==
    /\ qpc \in {"check", "recheck"}
    /\ QueryTo(IF mutating THEN "stale" ELSE IF qpc = "check" THEN "recheck" ELSE "idle",
               query)
    /\ UNCHANGED dbVars /\ UNCHANGED fileVars /\ UNCHANGED memVars
    /\ UNCHANGED runVars /\ UNCHANGED warmVars /\ UNCHANGED envVars

Snapshot == IF pending # NoShard THEN pending ELSE stale

\* search_stale_with, before and after the persisted shard was installed.
QueryStale ==
    /\ qpc \in {"stale", "installed"}
    /\ LET hit == Snapshot # NoShard /\ Snapshot.id = query.id
       IN  QueryTo(IF hit THEN "idle" ELSE IF qpc = "stale" THEN "file" ELSE "db", query)
    /\ UNCHANGED dbVars /\ UNCHANGED fileVars /\ UNCHANGED memVars
    /\ UNCHANGED runVars /\ UNCHANGED warmVars /\ UNCHANGED envVars

\* open_current_stale: the stamp does not matter, the identity does.
QueryFile ==
    /\ qpc = "file"
    /\ \/ /\ current # NoFile /\ current.id = query.id
          /\ QueryTo("install", [query EXCEPT !.vecs = current.vecs])
       \/ /\ ~(current # NoFile /\ current.id = query.id)
          /\ QueryTo("db", query)
    /\ UNCHANGED dbVars /\ UNCHANGED fileVars /\ UNCHANGED memVars
    /\ UNCHANGED runVars /\ UNCHANGED warmVars /\ UNCHANGED envVars

QueryInstallFile ==
    /\ qpc = "install"
    /\ install_stale(query.vecs, query.id)
    /\ QueryTo("installed", query)
    /\ UNCHANGED dbVars /\ UNCHANGED fileVars
    /\ UNCHANGED runVars /\ UNCHANGED warmVars /\ UNCHANGED envVars

\* load_incremental_stale takes the warm lock and looks at the identity of the
\* incremental run in progress, ...
QueryLock ==
    /\ qpc = "db" /\ wpc = "idle"
    /\ LET loads == Snapshot = NoShard /\ incremental_identity = query.id
       IN  /\ QueryTo(IF loads THEN "load" ELSE "idle", query)
           /\ WarmTo(IF loads THEN "held" ELSE "idle", warm)
    /\ UNCHANGED dbVars /\ UNCHANGED fileVars /\ UNCHANGED memVars
    /\ UNCHANGED runVars /\ UNCHANGED envVars

\* ... scans the database, ...
QueryLoad ==
    /\ qpc = "load"
    /\ QueryTo("loaded", [query EXCEPT !.vecs = rows])
    /\ UNCHANGED dbVars /\ UNCHANGED fileVars /\ UNCHANGED memVars
    /\ UNCHANGED runVars /\ UNCHANGED warmVars /\ UNCHANGED envVars

QueryLoadFails ==
    /\ qpc = "load" /\ used["faults"] < MaxFaults
    /\ QueryTo("idle", query) /\ WarmTo("idle", warm)
    /\ Spend("faults")
    /\ UNCHANGED <<tree, client>>
    /\ UNCHANGED dbVars /\ UNCHANGED fileVars /\ UNCHANGED memVars /\ UNCHANGED runVars

\* ... and installs what it found.
QueryInstallLoaded ==
    /\ qpc = "loaded"
    /\ install_stale(query.vecs, query.id)
    /\ QueryTo("idle", query) /\ WarmTo("idle", warm)
    /\ UNCHANGED dbVars /\ UNCHANGED fileVars
    /\ UNCHANGED runVars /\ UNCHANGED envVars

-----------------------------------------------------------------------------
(* The environment.                                                        *)

Edit(f) ==
    /\ used["edits"] < MaxEdits
    /\ \E v \in {0, used["edits"] + 2} : v # tree[f] /\ tree' = [tree EXCEPT ![f] = v]
    /\ Spend("edits")
    /\ UNCHANGED client
    /\ UNCHANGED dbVars /\ UNCHANGED fileVars /\ UNCHANGED memVars
    /\ UNCHANGED runVars /\ UNCHANGED warmVars /\ UNCHANGED queryVars

SwitchClient(id) ==
    /\ used["switches"] < MaxSwitches /\ id # client
    /\ client' = id
    /\ Spend("switches")
    /\ UNCHANGED tree
    /\ UNCHANGED dbVars /\ UNCHANGED fileVars /\ UNCHANGED memVars
    /\ UNCHANGED runVars /\ UNCHANGED warmVars /\ UNCHANGED queryVars

\* evict_to_cap when another repository's shard is installed.
Evict ==
    /\ shard # NoShard
    /\ shard' = NoShard
    /\ UNCHANGED <<pending, stale, incremental_identity, mutating, epoch>>
    /\ UNCHANGED dbVars /\ UNCHANGED fileVars /\ UNCHANGED envVars
    /\ UNCHANGED runVars /\ UNCHANGED warmVars /\ UNCHANGED queryVars

\* The worker exits or dies: what is in memory is gone, the fence included.
Crash ==
    /\ used["crashes"] < MaxCrashes
    /\ shard' = NoShard /\ pending' = NoShard /\ stale' = NoShard
    /\ incremental_identity' = None /\ mutating' = FALSE /\ epoch' = 0
    /\ pc' = "idle" /\ job' = NoJob /\ todo' = {} /\ fresh' = EmptyVecs
    /\ wpc' = "idle" /\ warm' = NoWarm
    /\ qpc' = "idle" /\ query' = NoQuery
    /\ Spend("crashes")
    /\ UNCHANGED <<tree, client>>
    /\ UNCHANGED dbVars /\ UNCHANGED fileVars

\* remove_index: the run lock is taken, remove_repo empties the maps, and the
\* next generation's database is opened empty.  A warm keeps the handle it has.
\* Neither the epoch nor the fence nor the persisted shard is touched.
RemoveIndex ==
    /\ pc = "idle" /\ used["removals"] < MaxRemovals
    /\ shard' = NoShard /\ pending' = NoShard /\ stale' = NoShard
    /\ incremental_identity' = None
    /\ rows' = EmptyVecs /\ marker' = None /\ needs_rebuild' = FALSE
    /\ index_epoch' = 0 /\ generation' = generation + 1
    /\ warm' = IF wpc \in {"idle", "held"} \/ warm.db # NoDb THEN warm
               ELSE [warm EXCEPT !.db = Db]
    /\ Spend("removals")
    /\ UNCHANGED <<tree, client, mutating, epoch, wpc>>
    /\ UNCHANGED fileVars /\ UNCHANGED runVars /\ UNCHANGED queryVars

-----------------------------------------------------------------------------

RunStep ==
    \/ \E force, adopt, hasData \in BOOLEAN, files \in SUBSET Changes :
          StartRun(force, adopt, hasData, files)
    \/ BeginFull \/ BeginIncremental \/ ClearMarker \/ ClearMarkerLost
    \/ bump_index_epoch \/ DeleteRows
    \/ \E f \in Files : StoreFile(f) \/ StoreFileLost(f) \/ SkipFile(f)
    \/ CommitMarker \/ CommitMarkerFails \/ Publish \/ InvalidateShardFile
    \/ RunSucceeds \/ RunFails \/ CancelRun

WarmStep ==
    \/ \E id \in Identities : WarmStart(id)
    \/ WarmCount \/ WarmMarker \/ WarmStamp \/ WarmOpen \/ WarmScan \/ WarmRecheck
    \/ WarmPersist \/ WarmInstall \/ WarmDiscard \/ WarmFails

QueryStep ==
    \/ QueryStart \/ QuerySearch \/ QueryEvict \/ QueryCheck \/ QueryStale \/ QueryFile
    \/ QueryInstallFile \/ QueryLock \/ QueryLoad \/ QueryLoadFails
    \/ QueryInstallLoaded

Environment ==
    \/ \E f \in Files : Edit(f)
    \/ \E id \in Identities : SwitchClient(id)
    \/ Evict \/ Crash \/ RemoveIndex

Next == RunStep \/ WarmStep \/ QueryStep \/ Environment

Spec == Init /\ [][Next]_vars

-----------------------------------------------------------------------------
(* Properties.                                                             *)

MaybeId == Identities \cup {None}
DbImage == [rows : Vecs, marker : MaybeId, index_epoch : Nat]
PersistedFile == [gen : Nat, vecs : Vecs, id : Identities, count : Nat, index_epoch : Nat]
NonEmptyShard == {s \in Shard : s.vecs # EmptyVecs}
MaybeShard == NonEmptyShard \cup {NoShard}

DurableTypeOK ==
    /\ rows \in Vecs /\ marker \in MaybeId /\ needs_rebuild \in BOOLEAN
    /\ index_epoch \in Nat /\ generation \in Nat
    /\ current \in PersistedFile \cup {NoFile} /\ newest \in Nat

\* No map of the index holds a shard without vectors (install_shard, install_stale).
MemTypeOK ==
    /\ shard \in MaybeShard /\ pending \in MaybeShard /\ stale \in MaybeShard
    /\ incremental_identity \in MaybeId
    /\ mutating \in BOOLEAN /\ epoch \in Nat

RunTypeOK ==
    /\ pc \in {"idle", "start", "fenced", "unmarked", "bumped", "stream", "marked",
               "published", "graph"}
    /\ job \in [full : BOOLEAN, force : BOOLEAN, id : MaybeId,
                files : SUBSET Files, pre : Nat]
    /\ todo \in SUBSET Files /\ fresh \in Vecs
    /\ pc # "idle" => job.id \in Identities

WarmTypeOK ==
    /\ wpc \in {"idle", "held", "count", "marker", "stamp", "open", "scan", "recheck",
                "persist", "install", "discard"}
    /\ warm \in [id : MaybeId, epoch : Nat, count : Nat, index_epoch : Nat,
                 vecs : Vecs, mine : Nat, db : DbImage \cup {NoDb}]
    /\ wpc \notin {"idle", "held"} => warm.id \in Identities

QueryTypeOK ==
    /\ qpc \in {"idle", "search", "evict", "check", "recheck", "stale", "file", "install",
                "installed", "db", "load", "loaded"}
    /\ query \in [id : MaybeId, seen : MaybeId, vecs : Vecs]
    /\ qpc # "idle" => query.id \in Identities

\* The type invariant: the values every field of the run, the warm, the query and
\* the index may have, and that whoever is at work has an embedding space.
TypeOK ==
    /\ tree \in [Files -> Nat] /\ client \in Identities /\ used \in [Bounds -> Nat]
    /\ DurableTypeOK /\ MemTypeOK /\ RunTypeOK /\ WarmTypeOK /\ QueryTypeOK

\* A searchable shard is the chunk table, row for row: no warm that overlapped an
\* index run, no persisted file of an older table and no delta applied to the
\* wrong base is ever searched (mutating_repos, epochs, content_stamp,
\* pending_incremental) - as long as no INSERT of chunks was lost unseen: its vectors
\* are published from memory.
LiveIsCommitted == RowsSeen /\ shard # NoShard => shard.vecs = rows

\* A search that passes the identity comparison of shard_match compares vectors
\* of one embedding space: those of a searchable shard are all of the identity
\* it carries - as long as no clear of the marker was lost unseen: a marker that
\* outlived its rows would have a warm take others for its own.
LiveOneSpace ==
    ClearsSeen /\ shard # NoShard =>
        \A f \in Files : shard.vecs[f] # NoRow => shard.vecs[f].id = shard.id

\* Snapshots are searched, and exist, only behind the fence; behind it there is no
\* searchable shard (search_stale_with, install_stale, publish_*_update).
SnapshotsBehindFence ==
    /\ pending # NoShard \/ stale # NoShard => mutating
    /\ mutating => shard = NoShard

\* A persisted shard whose stamp is the one a warm would expect of the committed
\* table now holds the vectors of that table ("a shard file written before ANY
\* later chunk change can never validate again", bump_index_epoch).
StampSound ==
    /\ current # NoFile /\ marker # None
    /\ StampOf(current) = content_stamp(marker, Cardinality(Stored), index_epoch)
    => current.vecs = rows

\* Claim of search_stale_with: snapshots are "Identity-fenced like the live path".
SnapshotOneSpace ==
    Snapshot # NoShard =>
        \A f \in Files : Snapshot.vecs[f] # NoRow => Snapshot.vecs[f].id = Snapshot.id

\* Claim of abort_update_fail_closed and of the consumer: a repository is fenced
\* until a run succeeds, and "a later successful run releases the mutation fence".
SuccessReleasesFence == [][RunSucceeds => ~mutating']_vars
=============================================================================
