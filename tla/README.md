# A TLA+ model of agent-context-engine

agent-context-engine keeps a searchable index of source repositories: it watches a
working tree, parses and embeds changed files, stores chunks, symbols and a call
graph in one SurrealDB database per repository, keeps the vectors of a repository
in memory for search, and serves queries to a web UI, to a chat and to MCP clients. A
router process starts one worker process per repository.

This directory models the parts of it that are hard to get right and hard to test:
what is durable when an index run, a migration or a request stops half-way, what a
search may see while runs, warms and queries overlap, which process owns a
repository's database, and what happens to an answer whose budget, key, client or
index gives out before it is complete. All paths below are relative to `src/src/`.

## 1. Inventory

| Part | State | Operations | Interacts with |
| --- | --- | --- | --- |
| Index pipeline (`indexing/pipeline.rs`) | tables `chunk`, `symbol`, `raw_edge`, `calls`, `file_meta`, `pending_retry`; markers `embedding_identity`, `edges_resolved`, `raw_edge_complete`, `needs_rebuild`, `index_epoch` in `index_meta` | `run`, `full_rebuild`, `incremental_run`, `streaming_index`, `heal_edges`, edge resolution (Phase 2) | called by the consumer under the per-repo run lock; fences and publishes the vector index |
| Vector index (`vector/sharded.rs`) | per repo: live shard, hidden incremental base, stale snapshot, fence flag, mutation epoch, identity of the incremental run | `begin_*_update`, `publish_*_update`, `abort_update_fail_closed`, `install_*`, `evict_*`, `remove_repo`, searches | one read-write lock; pipeline, warms, queries, removal |
| Persisted shard (`vector/shard_file.rs`) | `CURRENT` pointer, generation directories, stamp in each file | write a generation, open checked, open stale, invalidate, reap | written by warms, invalidated by runs and the ignore API, read by warms and queries |
| Engine (`indexing/mod.rs`) | status table, cancel tokens, run locks, warm locks, trigger channel, rebuild reservation, recompute slots, handle map | consumer loop, retry timer, cancel, close, recompute, warm, search | everything |
| Watcher and walker (`indexing/watcher.rs`, `walker.rs`) | rescan gate, debouncer, polling fallback | dispatch batches, replace lost ones by a rescan; walk, filter | consumer |
| Store (`store/`) | one database per repository and generation, open gate, schema stamp, migration cursors, secondary indexes | open, reset, migrate, repair, remove; the statements of the pipeline | pipeline, warm, query, removal |
| Ignore API (`server.rs`) | ignored paths of a repository | ignore one, ignore a batch, restore | store, both shards, index runs, warms |
| Embedding (`embedding/`) | cache on disk, key cursor | batch, look up, request, retry, reorder | pipeline, query |
| Router (`router/`) | registry: per repo absent, spawning (token), ready (worker) | acquire, publish, abandon, reap, kill, proxy with retry | worker processes |
| Worker (`router/worker.rs`) | in-flight counter, last-use time | idle watchdog, config reload | router, engine |
| Settings (`config.rs`, `engine_ops.rs`) | settings file and its copy in memory, `repo_generations` | replace file then memory | handlers, store |
| MCP server (`mcp.rs`, `mcp/`) | readiness, query gate, progress | resolve the workspace, wait, warm, query, answer | engine, query engine |
| MCP sessions (`mcp_session_store.rs`) | bounded store and its files, live sessions, services | create, touch, delete, restore | MCP clients, worker restarts |
| Query engine (`query/`) | none that outlives a query | embed, scan, hydrate, expand, merge, rerank, narrow, fall back | vector index, store, models |
| Model clients (`llm/`) | key ring | send with rotation, read a stream, build the next request | reranker, chat |
| Chat (`chat.rs`, `fs_tools.rs`) | bounded conversation store | a turn of rounds with tools, final pass, store | model clients, query engine, working tree |
| Parser (`parsing/`, `indexing/import_resolver.rs`) | none | extract chunks, symbols, raw edges | pipeline |

What makes these parts correct:

* **Pipeline.** There is no transaction around a run. A crash, an error or a cancel
  may come between any two statements, and the next run decides from the markers
  alone what to trust. A `file_meta` row must stand for complete rows, the identity
  marker for vectors of one embedding space, `edges_resolved` for a call graph that
  a full resolution would give, and nothing that changed may be forgotten.
* **Edge resolution.** An incremental run resolves only the files in the blast
  radius of an edit and must end with the calls a full rebuild would write.
* **Vector index.** Scans run without a lock. What is searchable must be the chunk
  table, of one embedding space, whatever begins, publishes or fails during a scan;
  a persisted shard must not validate against another table.
* **Engine and watcher.** An edit passes a debouncer, a bounded channel and a
  consumer that may fail or be cancelled; each may lose it, and something must still
  know. The walk and the watcher must agree on which files there are.
* **Store.** RocksDB admits one open store per directory; a removed index must not
  come back; a schema stamp must be true whatever interrupted the chain.
* **Ignore API.** Five copies of a file's data are changed one after the other.
* **Router.** Two processes must not own the database of one repository.
* **Queries and chat.** "Nothing found" is a claim about the code base, made from a
  scan of an index that changes meanwhile; an answer that is cut, retried, merged or
  streamed must be neither doubled nor mutilated.

## 2. Modules

| Module | Models |
| --- | --- |
| `CallGraph` | the pure part of Phase 2: bucket order, `select_best_candidate`, surface delta, resolve set |
| `EdgeResolution` | full and incremental call graph over edits; `MCEdgeResolution` gives it three files |
| `IndexPipeline` | one repository's runs, statement by statement, and the consumer's handling of their end; `MCIndexPipeline` gives it two files |
| `VectorFence` | vector index, persisted shard, index run, warm and query; `MCVectorFence` adds the symmetry |
| `VectorFenceProofs` | its theorems |
| `DatabaseOwner` | abstract specification: at most one attached process on a database |
| `WorkerRegistry` | the router's registry, the requests that drive it and the worker processes, for one repository; implements `DatabaseOwner` |
| `IndexEngine` | from an edit to a run: debouncer, channel, rescan gate, consumer, retry timer, cancel, close |
| `IndexCaches` | what a completed run publishes: cached statistics and the router's sidecar |
| `Walker` | which files are indexed, decided by the walk, by the change filter and for a new directory |
| `StoreOpen` | who holds a repository's database; generations, removal, reset, settings writers |
| `Migrations` | the schema chain, its paged backfills and the secondary indexes |
| `IgnoreApi` | taking files out of the index and restoring them |
| `Embedding` | cache, batches, keys, retries, replies; the query's own embedding |
| `McpSessions` | sessions over evictions, idle exits and restarts |
| `Positions` | what a filter leaves of a sequence, for `QueryEngine` and `ModelClients` |
| `QueryEngine` | one retrieval query against an index that changes |
| `AgenticRerank` | the reranker's loop with a model |
| `ResultShaping` | merging, narrowing, joining and cutting results, as pure functions |
| `ModelClients` | key rotation, streamed answers, replayed histories |
| `Chat` | concurrent turns over the conversation store |
| `AgentTools` | `read`, `grep` and the project documents |
| `QueryService` | a retrieval request around the query: workspace, readiness, waits, warm, answer |
| `MCEngine`, `MCStore`, `MCQuery`, `MCService` | instances of `IndexEngine` and the modules after it |
| `CallGraphProofs` | lemmas about the choice of a target and the blast radius, for the two modules that resolve edges |
| `EdgeResolutionProofs` | the theorem of `EdgeResolution` |
| `IndexPipelineProofs` | theorems of `IndexPipeline` about vectors, `file_meta` and what may be forgotten |
| `CallGraphTrust` | theorems of `IndexPipeline` about its call graph, from both modules of lemmas |
| `EngineProofs` | theorems of `IndexEngine` and `IndexCaches` |
| `StoreProofs` | theorems of `StoreOpen`, `Migrations`, `McpSessions`, `Embedding` and `IgnoreApi` |
| `ServiceProofs` | theorems of `QueryService`, `Chat`, `WorkerRegistry`, `QueryEngine`, `AgenticRerank` and `ModelClients` |

Modules that answer related questions are checked together. `MCEngine`, `MCStore` and
`MCQuery` extend components that share no variable; a variable `focus`, chosen
initially, says which of them moves, and the others stay in one fixed state, so that
TLC explores the sum of their state spaces and not the product.

An operator whose comment calls it a plausible mistake is the definition after it with
one realistic slip. `PROJECT.json` names one per property, and TLC refutes the property
with it; the others do the same for further parts of a property that is a conjunction.

### CallGraph and EdgeResolution

A candidate is a symbol row (file, name, fqn, line). `resolve_raw_edges` chooses the
target of each raw edge the way `select_best_candidate` does: the file an import
names, then the calling file, then the near files, then the first in bucket order,
generated files last at each level. `removed_surface_files` and `added_names` are
the surface delta, `build_resolve_set` the two directions: callers of files that
lost symbols, and files with a raw edge to a name that was added. `EdgeResolution`
applies whole runs as single steps and compares the `calls` table with the one
resolved from scratch.

### IndexPipeline

`ops` is the sequence of durable statements a run has issued and not completed;
`PerformNext` completes one. A stage of `run` is an action that appends statements
(`BeginFull`, `FlushBoundary` inside `StoreFile`, `FlushTail`, `CommitRows`,
`FullPhase2`, ...). `Crash` drops everything volatile; `StatementFails` ends the run
as the consumer does; a statement marked `soft` is one whose result the code
ignores; one marked `check` follows a look at the cancel token. `Unchecked` names the
statements that the code awaits without `.check()`, so that it takes a failed one for a
good one (`store/ops.rs:198`): the inserts of chunks, raw edges and calls, the clears of
the markers, and what `heal_edges`, Phase 2 and the commit of an incremental run delete.
`StatementLost` is the failure of such a statement: its rows or its clear are gone and
the run goes on; `RollbackLost` is that of a clear in `rollback_published_vectors`.
`used.rows` and `used.clears` count them, and `RowsSeen`, `ClearsSeen` and `AllSeen` say
that there was none. A version of a file is its content and its (mtime, size) stamp, so
`StatFile` and `ReadAndEmbed` are two steps and an edit may come between. `torn` is a
history variable: it records the files hit by an interruption inside the bulk delete
and those that lost an INSERT of chunks unseen, the two known ways to break the commit
marker, so that `CommitMarker` states what holds otherwise (section 4). A full rebuild
resolves from the raw edges it has in memory, which may be more than the table has once
an INSERT was lost (`FullPhase2`).

### VectorFence

A row stands for the chunk rows of one file: version, embedding space, database
generation. The run's actions follow `begin_*_vector_update`, the clearing of the
identity marker, `bump_index_epoch`, the deletes, one `StoreFile` per file, the
marker, the publish and the invalidation of the persisted shard. `ClearMarkerLost` and
`StoreFileLost` are the unchecked statements among these: the marker stays, or the rows
of a file are lost while its vectors are published. The warm and the
query have one action per step between two lock acquisitions or awaits, so the run
may do anything in between. `RemoveIndex` is `remove_index`, with a warm keeping the
database handle it has (`warm.db`).

Abstractions: the files' rows and `file_meta` are one thing here (their order is
IndexPipeline's subject), except that after a lost INSERT a run may still find the file
listed (`hasData` and `files` of `StartRun`); `RemoveIndex` is one step; one warm and one query are in
flight (warms are serialised by the warm lock, queries change the index only by
`install_stale` and `evict_if_identity`, which any of them may do at any time); the
search over all repositories is left out; a run always has an embedding client. In
`IndexPipeline` the ignore rules, the pruning of newly ignored files and the
framework registry are left out. Reads of the database either succeed or end the
run; the best-effort writes of `needs_rebuild` may be lost. An embedding space is what
the identity names; that two providers of one model share it is an assumption
(section 4).

### WorkerRegistry and DatabaseOwner

Entries of different repositories are independent, so one repository is modelled.
`entry` is the map's `WorkerState`; a spawn has a number, which stands for the
identity token (the `Arc<Notify>` compared with `Arc::ptr_eq`) and for the process.
A step is what runs between two awaits: `acquire`'s read-locked look (`AcquireFast`)
and its write-locked one (`Elect`, `FindOther`) are two steps, and so are the return
of `acquire` and the registration with the notification (`Subscribe`), which is how a
wake-up is lost. `publish_ready`, `abandon_spawn`, `kill_and_wait`, the reap and the
kill keep the code's names and token tests. The worker boots, serves, counts requests
in flight and closes when idle; a request that reaches it while it closes is answered
or meets `WorkerLost`.

A crash, a wedged boot, a failed launch, a dropped client, a kill and a reap of a
spawn that is merely slow are faults, counted together. The history variables
`detached` (spawns whose entry somebody else deleted) and `unheld` (spawns and killed
workers whose holder was dropped) say which exceptions the properties make; `fresh`
carries the assumption on time that a worker is not idle for a whole window while a
request lasts that was under way when the worker came up. Two more assumptions:
a request is done with its own spawn before `SPAWN_ORPHAN_AFTER` unless a fault delays
it, and `try_wait` on an owned handle does not fail.

`DatabaseOwner` knows only which processes run and which the router has given up: a
process starts only when no other attached one runs.

### IndexEngine, IndexCaches and Walker

`IndexEngine` follows an edit: it sits in the debouncer (`events`), becomes a trigger
in a channel of `ChannelCap` places or is replaced by a rescan when the channel is full
(`dispatch`), is taken by the consumer, which waits for the run lock, replaces the
cancel token, marks the status, builds the embedding client, opens the database, runs
and settles. A run is abstract: it takes a set of edits or fails; what it does is
IndexPipeline. A watcher that is lost leaves the poller; cancelling and removing are
handlers of several steps. `waived` holds the edits whose event the operating system
lost or whose run was cancelled or could not start: the next scan finds them, nobody
remembers them. `IndexCaches` reduces statistics and sidecar to their age. `Walker`
takes every chain of a root, a directory and a file, with ignore rules of the three
sources at either level, nested repositories and ignored paths, and lets the three
judges speak; the `ignore` crate's part in the walk is modelled from its use. `outer` is
what only the walk reads: an ignore file above the root, the clone's exclude file or the
user's global one.

### StoreOpen, Migrations, IgnoreApi, Embedding, McpSessions

`StoreOpen`: two openers (the consumer under the run lock, a reader without one) go
through the fast path, the gate, `open_db` and the insertion; a migration pins the
handle it was given; `remove_index` closes, persists the next generation, swaps memory
and deletes the directory; `put_config` and a browser with old settings write the same
file. `Migrations`: what an older build left is a set of legacy items, each with the
version that promises it is gone; a death, an abort or a failed statement may come
between any page, cursor and stamp, and a rebuild drops and rebuilds the indexes.
`IgnoreApi`: each handler statement is a step, interleaved with a run and a warm.
`Embedding`: a vector is known by the text it is of; replies may be short, reordered or
repeat an index, cache entries may be corrupt, foreign or purged. `McpSessions`: the
bounded store, its files and the live sessions of possibly two services; a load may find
a file that it cannot read or make out (`unread`).

### QueryEngine, AgenticRerank, ResultShaping, ModelClients, Chat, AgentTools

`QueryEngine` has one action per await; between them rows, lines on disk and the shard
change (`World`). `graph_expand` adds chunks up to two calls away, whatever their class,
and a result remembers that it came that way (`called`). In `AgenticRerank` and `Chat` the model is the environment: every
call it may make is a choice. `ModelClients` knows a streamed part by the position at
which the server sent it, so that a doubled, lost or mixed part is visible; both
providers' request formats are modelled as far as calls, results and signatures.
`ResultShaping` and `AgentTools` compute a function on every small input in one step,
or page by page, and compare it with what the result must satisfy; the unstable sorts
are a choice among the orders of equal keys.

### QueryService

A request resolves its workspace (a linked worktree is served from its main checkout),
registers and triggers a repository it does not know, waits for the run, warms and
queries, and chooses its message. One attempt may scan several times: the other class
after an empty scan (`gather_with_fallback`), a second pass after the rerank rejected
everything, the agent's own searches (`rerank_candidates`). Each scan has the whole rest
of the budget for its warm, as in the code. The index side (runs that start, move, fail, other
triggers, evictions) and the consumer interleave with every step. Time is counted in
poll intervals; the client's heartbeat may give up at any time.

## 3. Runs

| Run | Shows | Bounds |
| --- | --- | --- |
| `edge_resolution` | `IncrementalEqualsFull`: the incremental call graph is the full one | 3 files, contents that define, redefine, shadow and call a name, one generated file; every sequence of edits |
| `index_crash` | `CommitMarker`, `UnchangedMeansCurrent`, `CallGraphSound` at every statement boundary and after a crash; `QuiescentFresh` | 2 files of 2 chunks, batches of 3, so that a batch boundary falls inside a file; 2 edits, 1 crash, 1 error, 1 statement that fails unseen, 1 request, of all these at most 3 together (`AtMost3`) |
| `index_faults` | `VectorsOneSpace` | 2 models, a binary content, 1 edit, 1 error, 1 fatal error, 1 ignored failure, 1 statement that fails unseen, 1 heal with unreadable files, 2 requests (cancel, rebuild, switch), of all these at most 4 together (`AtMost4`) |
| `index_live` | `EventuallyConverged` | 1 edit, 2 errors, 1 statement that fails unseen |
| `fence_reload` | `LiveIsCommitted`, `SnapshotsBehindFence`, `StampSound` | 2 files, 1 model, 2 runs, 1 edit, and 1 crash and 1 fault (an error or a cancel), or 1 statement that fails unseen (`UnseenAlone`) |
| `fence_switch` | `LiveOneSpace` across the removal of the index | 2 files, 2 models, 2 runs, 1 switch, and 1 removal or 1 `INSERT` that fails unseen (`ClearsSeenOnly`; the property claims nothing after a lost clear) |
| `worker_registry` | `ExclusiveOwner`, `StraysAreKilled`, `IdleExitInvisible`, the refinement `OwnerSpec`, `SpawningResolved`, `RequestsEnd` | 2 requests, 2 faults, 4 spawns, 3 rounds, 1 retry |
| `engine` | `EditTracked`, `ReservationOwned`; `RecomputeCaughtUp`; `FilterAgreesWithWalk` | 2 edits, a channel of 1, 2 disturbances; 3 misfortunes of the caches; every chain of two levels, with at most one outer source that speaks of one candidate |
| `engine_live` | `EventuallyIndexed` | 1 edit, a channel of 1, 2 disturbances |
| `store` | `RemovedStaysRemoved`, `NothingBeyondFile`, `PipelineHandleShared`; `OpenMeansMigrated`; `IgnoredStaysOut`, `MarkerDominates`; `EmbeddingsAligned`; `SessionSurvives` | 2 generations, 1 mishap; 3 rows in pages of 2, 3 faults; 2 files in pages of 1, 3 calls, 2 troubles; 3 texts, 2 keys, batches of 2 texts or 3 bytes; 2 sessions, room for 1, 2 clients |
| `query` | `EmptySearchSound`, `AnswerIsWhatItSays`; `AgentLoopSound`; `ShapingSound`; `ConversationWhole`; `TurnHonest`; `ToolsExact` | 2 code chunks and a document, with calls between the classes, 2 changes of the world; a pool of 3, 2 calls a turn; 4 lines, 2 files, 3 blocks; 2 keys, 3 frames, 2 requests; 2 turns of 2 dialogs with room for 1; files of 4 lines |
| `service` | `NoFalseEmpty`, `WaitBudget`, `RequestAnswered` | 1 request, a repository and a worktree of it, 1 run, a channel of 1, a budget of 2, 1 search of the agent in a pass |

Conjunctions: `CallGraphSound` is `RawEdgesCurrent` (the raw edges are those of the
indexed files once declared complete) and `EdgesSound`; `VectorsOneSpace` is
`IdentitySound` and `OneEmbeddingSpace`; `OpenMeansMigrated` is `StampedMeansConverted`
and `IndexesReadyWhenOpen`; `EmptySearchSound` is `EmptyIsVerdict` (an empty answer is
given only when no scan lost a hit to a row deleted under it) and `NoPingPong`;
`AgentLoopSound` is `NoDanglingToolCalls` and `CommittedSurvives`; `ShapingSound` is
`NoLineLost` and `OutputFits`; `ConversationWhole` is `StreamedOnce`, `CallsWhole` and
`HistoryReplayed`; `TurnHonest` is `SearchFloorMet` and `TranscriptHonest`; `ToolsExact`
is `ReadPagesCover` and `GrepRegionsExact`. `ModelClients.KeysExhausted` and
`QueryService.WorktreeNotRegistered` hold under the same bounds as well.

The bounds are enough for the cases the properties are about: two runs are needed
for a warm that straddles one (begin and publish during its scan) and for a marker
that one run leaves and the next one reads; two files for a run that handles one and
must not lose the other; a batch boundary inside a file for a commit marker that
runs ahead; two requests for a spawner and a waiter, two faults for a kill followed
by a drop or a crash, and four spawns are the most these can cause, so the bound on
elections holds nobody up. A channel of one place is full with one trigger, so a batch
is dropped and a sender waits; a page smaller than the table makes a cursor matter; a
batch limit that a file exceeds by count and by bytes makes positions matter; a store
with room for one session or dialog evicts with the second; a budget that one chunk,
line or block overshoots is met in the middle of a call. The constraints on what may go
wrong together (`AtMost3`, `AtMost4`, `UnseenAlone`, `ClearsSeenOnly`) keep each kind of mishap and
most pairs of them; the rest is left to the theorems, which have no such bound. What the
bounds exclude
(longer histories of the vector index, more requests and faults at the registry) is
covered by the theorems of section 5.

Deadlock is checked in `engine` and `engine_live`: the engine always has a timer to wait
for, and `MCEngine` lets a walk that has been judged stay as it is. It is off in the
others, where a repository, a router or a request at rest has nothing to do.

**Fairness.** `IndexPipeline!FairSpec` assumes weak fairness of `Trigger` (the consumer
receives a queued trigger) and of `RunStep` (a started run goes on). The consumer is one
task that awaits the channel and then the run, and the runtime polls both as long as the
process lives; a crash is an action of its own, after which the boot queues a
rescan. No fairness is assumed of edits, faults or users. A scheduled retry is
modelled as a queued trigger, since its delay is finite. The registry's `FairSpec`
assumes that the runtime goes on polling each request and the handler that kills,
that a started worker boots (a wedged boot is a fault of its own), and that the
router's reap timer and the worker's idle watchdog tick; no fairness of crashes,
kills, drops or new requests. `IndexEngine!Spec` assumes weak fairness of the periodic
safety-net scan, of the poller and of the consumer without faults (`Progress`), and
strong fairness of the two waiting sends: tokio's bounded channel hands out permits in
order, so a sender that finds room again and again gets some. `QueryService!SSpec` assumes
weak fairness of the consumer's receive and of each request's task and timers, and
strong fairness of its waiting send for the same reason; an index run may take for ever,
and a request must still be answered.

## 4. Where the code and its comments disagree

Each of these was found with TLC: the property named is in the module and fails under
the bounds of the run, or under the change of one bound that is given; where a property
of a run makes an exception, the exception is one of these.

Call graph and pipeline:

* `IncrementalEqualsFull`, with a content in which two symbols of one leaf name and
  different fqn swap their lines (as a third content of `MCEdgeResolution`):
  `indexing/pipeline.rs:3838` says "A symbol whose `(name, fqn)` pair is unchanged cannot
  change any caller's resolution. Line numbers are deliberately EXCLUDED", but candidates
  are ordered by line (3113) and the first wins, so callers in other files keep a target
  a full rebuild would no longer choose.
* `NoOrphanRows`: line 832 says "walk the repo so every one is reconciled", but chunks of
  a file that lost its `file_meta` and was then removed are in neither list of
  `detect_changes` and stay.
* `CommitMarker` without the exception for `torn` fails in `index_crash`: a crash in
  the bulk delete (`store/ops.rs:385`, which deletes `file_meta` last) leaves
  `file_meta` rows without their rows, although `indexing/pipeline.rs:2655` calls
  the row the commit marker.
* The same property without the exception for the other files in `torn` fails in
  `index_crash` with no crash and no error: `flush_chunk_batch` (`indexing/pipeline.rs:4582`)
  does not check its INSERT, so a statement that fails leaves a file without chunks whose
  `file_meta` follows, although the row is "written per-file only after its chunks are
  durable" (1362). Every later walk skips the file. Its vectors were published from memory,
  so that the searchable shard has what the table lacks (`LiveIsCommitted` without
  `RowsSeen` fails in `fence_reload`) until it is loaded again.
* The clears of the markers (1349, 1532, 1754) and the statements on raw edges and calls (4680,
  4752, 1772) are not checked either. One that fails unseen breaks `VectorsOneSpace` in
  `index_faults`, `CallGraphSound` and `QuiescentFresh` in `index_crash`, and `LiveOneSpace` in
  `fence_switch` with `MaxCrashes = 1` and `AtMostOneFailure` as its constraint, if their
  conditions `ClearsSeen` and `AllSeen` are dropped:
  a marker that outlived the delete speaks for rows that an interrupted run took away or
  replaced by those of another model. `CommitMarker`, `UnchangedMeansCurrent`, `StampSound` and
  `EventuallyConverged` have no such condition.
* Not in the model: the directory of cached embeddings is named by model and dimensions
  (`embedding/cache.rs:44`), the identity of stored vectors by provider, model and
  dimensions (`embedding/identity.rs:60`). After a switch between two providers of one model
  the rebuild takes the cached vectors of the other provider under its own identity. The
  models count the two as one space.
* `MaxHealErrors = 1` in `index_crash` violates `RawEdgesCurrent`: `heal_edges` maps a
  file it cannot read to no edges (`indexing/pipeline.rs:1804`) and still sets
  `raw_edge_complete`, which line 371 reserves for "the raw edges of EVERY indexed file".
* `MaxSoftErrors = 1` in `index_crash` violates `EdgesSound`: the result of deleting
  `edges_resolved` is ignored (line 1369), so a rebuild interrupted in Phase 2 may
  leave the marker of the previous graph, although line 1449 says it "stays unset".
  In the same way `QuiescentFresh` fails when the write of `needs_rebuild` after a
  fatal error is lost.
* `QuiescentFresh` fails in `index_crash` with two models, `MaxEdits = 1`, `MaxCrashes = 0` and `MaxRequests = 3` (27 steps): "walk
  the repo so every one is reconciled, whatever change set the trigger carried"
  (`indexing/pipeline.rs:832`) holds of a run that goes on. But a run that is cancelled in its
  stream leaves no identity marker; a forced rebuild verifies the stored vectors and restores
  the marker (820), is cancelled before it begins (1291), and has consumed its trigger: nothing
  is queued, the marker is set, and the file the first run did not reach has no rows. A watcher's
  batch is lost in the same way in a rebuild for another model, if the model is switched back. The
  next edit, or the periodic scan of `IndexEngine`, heals it. `RebuildDropped` is that step, and
  `FreshSpec` is the specification without it, under which TLC finds no violation with these
  bounds and section 5 proves that there is none with any. With the one request of `index_crash` the
  step cannot happen.
* `EventuallyConverged` excepts a repository that ends up empty: `streaming_index`
  returns for an empty file list (line 1939) before the retry queue is "re-derived
  from scratch" (line 2752), so files that are gone stay queued.
* The crash-safety note of `resolve_edges_from_ram` (line 3301, "raw_edges are NOT in
  the DB when this path is taken") describes an older design: Stage 3 writes them.

Vector index and router:

* `SnapshotOneSpace` fails in `fence_switch` with three runs, an edit and no removal:
  `vector/sharded.rs:375` calls the stale
  snapshots "Identity-fenced like the live path", but `load_incremental_stale`
  (`indexing/mod.rs:1183`) compares the identity before it scans and `install_stale` checks
  no epoch; a rebuild with another model may begin in between.
* `SuccessReleasesFence` fails in `fence_reload`: `vector/sharded.rs:345` says "A later
  successful run releases the mutation fence", but a run that finds no change
  (`indexing/pipeline.rs:1092`) succeeds without publishing, so the fence of a cancelled run
  stays up while the repository is reported idle and indexed.
* `MaxRemovals = 1` in `fence_reload` violates `LiveIsCommitted`: `remove_repo`
  (`vector/sharded.rs:739`) leaves the mutation epoch alone, so a detached warm that
  scanned before the removal may install afterwards (against `store/mod.rs:159`). It
  also violates `StampSound`: the new database counts `index_epoch` from 0 while
  `CURRENT` still names the old shard (`engine_ops.rs:59`, against `store/ops.rs:701`).
* `ExclusiveOwner` without the exception for `detached` fails in `worker_registry`:
  `kill` removes the entry before it kills the child, and a driver may be dropped or
  reaped, so a replacement can be spawned while the old process lives, although
  `router/worker.rs:28` says the router "never spawns a replacement while this pid is
  alive".
* `ScaleToZero` fails in `worker_registry`: the middleware "tracks in-flight count across
  the whole request lifetime" (`router/worker.rs:110`), but decrements it after an await
  without a guard (124), so a client that goes away leaves the count up and the worker
  never exits.

Engine and walker:

* `PhaseIdleUnlessIndexing` fails in `engine`: "`Idle` unless `state == Indexing`"
  (`indexing/mod.rs:92`), but a run that cannot open its database sets the state and not
  the phase (1595).
* `ReservationOwned` excepts `bailed`: a run that cannot build its client or open its
  database leaves the rebuild reservation behind; any other run of the repository releases it.
* `CancelHitsItsRun` fails in `engine`: `cancel_index` (862) looks at the status and then
  takes whatever token there is, which may be a later run's. In the same way
  `clear_repo_index` (820) may reset the status of a run that began after the close.
* `RecomputeCaughtUp` excepts what `excused` records: the recompute keeps the database it
  was spawned with over a removal, and the statistics handler stores counts that are older
  than a recompute's. `SeedNeverClobbers` fails too: the boot task looks for a sidecar,
  counts, and overwrites the one a run has written meanwhile.
* `SubtreeAgrees` fails in `engine`: "returning exactly the files the full
  `walk_repo_with` would return" (`indexing/walker.rs:438`), but a directory listed in the
  ignored paths yields nothing there and its files in the walk.
* `FilterAgreesWithWalk` without its exception for `OuterDecides` fails in `engine`: the walk
  reads the user's global ignore file (`indexing/walker.rs:492`), the clone's exclude file and the
  ignore files above the root, the filter reads none. A file that one of them ignores is
  indexed when it is edited and dropped by the next walk, although line 200 says that the
  filter "re-applies the same rules so the watcher and full-rebuild paths agree".

Store, ignore API, embedding, sessions:

* `HandleCurrent` fails in `store`: "no open handle or warmed shard is ever bound to a
  stale generation" (`store/mod.rs:160`), but a reader may open between the close and
  the swap of the settings in memory.
* `NoMigrationDuringRun` fails in `store`: "Never run the pipeline concurrently with a
  background schema migration" (`indexing/mod.rs:1610`), but a reader that inserts its handle
  spawns one after the wait.
* `OnlyDamagedIsReset` fails in `store`: "No data loss is possible" (`store/mod.rs:1651`)
  relies on a live handle that makes the deletion fail; an open that failed because of a
  handle that is gone by the time of the deletion loses a healthy index.
* `RemovedStaysRemoved` and `NothingBeyondFile` except `overlapped`: `put_config` and
  `remove_index` each read, write the file and swap memory, and the slower one undoes the
  other's bump of the generation.
* `StampedMeansAllConverted` fails in `store`: "`.check()` is MANDATORY here"
  (`store/mod.rs:1260`), and other statements of the chain are awaited without it, so
  their failure is stamped over.
* `IgnoreListKept` fails in `store`: `get_ignored_paths(..).unwrap_or_default()`
  (`server.rs:833`, `919`, `1055`) takes a failed read for an empty list and writes it back.
* `NoSilentHole` fails in `store`: "The marker therefore always dominates the delete"
  (`server.rs:865`) is true of the batch; the single-file handler marks last, and restoring
  a file whose deletion stopped half-way leaves a `file_meta` row without chunks.
* `OneDimension` fails in `store`: a file whose chunks are all cached is judged by the
  first entry's dimension.
* `embedding/voyage/query_transport.rs:59` lists "5xx" among the failures retried; a server
  error is not. When every key is rate limited, `embed_batch` goes round without a limit.
* `DeletedStaysDeleted` and `EvictsUnused` fail in `store`: a load between the two halves
  of a delete puts the session back, and requests of a live session do not touch the
  store, so a busy session ages in it.

Queries, models, chat:

* `FiltersHold` fails in `query` with a filter that names `c2`: "results are narrowed by the filter predicates"
  (`query/filters.rs:7`), but not the chunks that graph expansion adds.
* `OverlapsMerged` fails in `query`: blocks of a file that "overlap or are adjacent"
  (`mcp.rs:421`) stay apart when a block with other copies starts between them. The order of
  equal blocks is that of a hash map.
* `format_retries` is "Reset to 0 whenever a phase is accepted or the model moves on
  (query/grep/read)" (`query/reranker.rs:868`); `AgenticRerank` has the code's behaviour, which
  resets it only when a phase is accepted.
* `AnswerIsWhatItSays` excepts the results that the call graph added: "The code/docs scope the
  returned candidates were searched in" (`query/engine.rs:126`), but graph expansion
  does not look at the scope, and two calls may lead into the other class and back. The
  default documents hold no symbols, so this takes a `docs_extensions` setting that names a
  programming language.
* `WaitBudget` bounds a scan and not an attempt: `mcp_index_wait_secs` is "the total budget"
  (`mcp/readiness.rs:41`) and a caller cannot "start a second full warm-wait window"
  after the wait for the run (54), but the fallback, the second pass and each search of the agent
  warm anew with the whole rest (`query/scope_fallback.rs:80`, `136`, `query/reranker.rs:655`). An eviction or
  a shard that is not resident makes each of them wait.
* `SessionSurvives` excepts `unread`: a session file that cannot be read or parsed is "treated
  as missing" (`mcp_session_store.rs:198`, `207`), and the client is told that its session is unknown
  although nobody deleted it.
* A block of numbered blank lines passes `content_fence`, which looks at the text with
  its line numbers.
* `WorktreeNotIndexed` fails in `service`: "Callers use this to serve worktree queries from
  the main repository's index" (`store/mod.rs:76`), but `POST /api/query` triggers a run for
  the worktree. The automatic registration updates `settings.json` and not the memory.
* The wait for a run may see Idle or Error between the trigger and the start of the run,
  and answer for the run before.
* `DroppedStaysDropped` fails in `query`: a turn that is running when its dialog is dropped
  stores itself and brings the conversation back. The search floor is "a HARD lever" (`chat.rs:716`)
  only where the endpoint honours a forced tool choice: `SearchFloorMet` says `strict`. The
  fixed sentence may follow text of an earlier round.
* `DocsWithinTotal` fails in `query`: "the combined block never exceeds the total cap"
  (`chat.rs:346`), but the markers of cut documents are added afterwards.
* Not modelled and seen while reading: streamed frames are cut at bytes and at `\n\n`
  only, so a character split over two chunks, or CRLF frames, are damaged; the preview of an
  error answer slices at byte 512 (`llm/google.rs:234`, `399`), which may not be a character boundary.

## 5. Proofs

A leaf that only one prover finds, or that takes it a good part of its default time, names that
prover with a limit of a minute (`SMTT(60)`, `ZenonT(60)`); all proofs go through from nothing
with every limit cut to a third.

`VectorFenceProofs` proves for every finite set of files, every set of models and
any number of runs, errors, cancels, crashes, edits, switches and statements lost unseen:

* `TypeCorrect`: `Spec => []TypeOK`;
* `SnapshotsFenced`: `Spec => []SnapshotsBehindFence`;

and, assuming `MaxRemovals = 0` (section 4 says how a removal breaks the first and
the last of them):

* `LiveShardIsTable`: `Spec => []LiveIsCommitted` (which is conditional on `RowsSeen`);
* `LiveShardOneSpace`: `Spec => []LiveOneSpace` (conditional on `ClearsSeen`);
* `PersistedShardSound`: `Spec => []StampSound`, whatever is lost.

None of the three is inductive. A live shard equals the table only because of who
may still install what, so the invariant `FenceInv` adds what each party in flight
holds:

* `FenceUp`: from the first destructive statement to the publish the fence is up;
* `RowsOneSpace`: the rows are of one space, that of the marker while it is set, and of
  the run's from the deletes to the marker (as long as `ClearsSeen`);
* `PublishExact`: at the publish, the hidden base with the run's delta is the table
  (as long as `RowsSeen`);
* `LiveExact`: the live shard is the table (`RowsSeen`); `LiveSpace`: the live shard, the
  hidden base and what is to be published are of their own identities (`ClearsSeen`), said
  apart because vectors whose rows were lost are in no table;
* `FileExact`: a persisted file with the current index epoch and the marker's
  identity holds the table, and no file has a later epoch;
* `WarmExact`, `PersistExact`: a warm whose captured mutation epoch is still current,
  outside the fence, holds the current count, epoch and vectors. This is where the
  epoch is needed: the fence flag alone would not tell a warm that straddled a whole
  run.

`RunExact`, `WarmStepExact`, `QueryStepExact` and `EnvironmentExact` preserve it,
action by action; `FenceInvariant` combines them. The assumptions are
`FenceAssumption`: the set of files is finite, `None` is not a model, and
`MaxRemovals` is a number.

`ServiceProofs` proves of `WorkerRegistry`, for every finite set of requests and any bounds on
spawns, faults, rounds and retries:

* `TypeCorrect`: `Spec => []TypeOK`;
* `SingleOwner`: `Spec => []ExclusiveOwner`;
* `ImplementsOwner`: `Spec => OwnerSpec`.

That the in-flight count stays natural needs `InflightCounted`: it is at least the number of
requests inside the worker (an argument about cardinalities). `ExclusiveOwner` is not
inductive either; `OwnerInv` adds `OneDriver` (a spawn has one driver), `DriverOwns`
(a driver whose spawn was not detached still has its entry) and `SpawnPhase` (what a
process can be while its driver is at a given place: not started before the launch,
dead when the spawn is abandoned, never started for a number not yet given out). The
refinement follows: a launch maps to `Start` because the entry still names the spawn
or the spawn is detached, every end of a process to `Exit`, a kill or a reap to
`Detach`, the rest to stuttering. The assumption is `RegistryAssumption`: finitely
many requests, natural bounds, at least one round.

* `StraysAttended`: `Spec => []StraysAreKilled`. `StrayInv` adds two facts to it: a detached
  spawn never returns to the entry (`NoReturn`), and a process that runs has a driver, a
  killer or the entry unless its holder was dropped (`Attended`); the property follows
  because a superseded process has lost the entry for good.
* `IdleExitsInvisible`: `Spec => [](RetriesSuffice => IdleExitInvisible)`, where `RetriesSuffice`
  is what the code has (`AcquireRounds >= 2`, `WORKER_LOST_RETRIES >= 1`); with fewer the
  property is false. The invariant `CalmInv` holds while nothing fails: `SpawnsCalm` follows
  every spawn to its publication, `CourseOf` every request. A request takes a second round
  only into a worker that was published after it came (`Settled`), whose watchdog does not
  go idle while the request lasts, and it loses a worker once at most.

`EngineProofs` is about any set of edits, any capacity of the trigger channel and any
number of disturbances, under `EngineAssumption`.

* `EditsTracked`, `ReservationsOwned`, `EngineTypes`: `Spec => []EditTracked`,
  `[]ReservationOwned`, `[]TypeOK`. The invariant `EngineInv` adds what a sender that waits
  for the channel carries (`SendersCarry`: only a cold query's trigger owns the reservation),
  that triggers name edits that were made (`FilesMade`), and that the retry queue is empty
  for a run whose index was removed under it (`RetryQueueOfRun`): without the last, what such
  a run puts aside would count as tracked and be dropped with the old database.
* `StatisticsCatchUp`: `CSpec => []RecomputeCaughtUp`, from `RecomputeOwed`: statistics that
  miss a run are owed by a completion still to publish, a task at work, or a slot that is
  re-armed while its task decides.

`IndexPipelineProofs` is about any finite repository, any contents, batch sizes and embedding
spaces, and any number of edits, crashes, failing statements, cancels and client switches. Its
assumptions are `PipelineAssumption`, `SymbolAssumption` (a symbol's fqn begins with its
file's path, `parsing/symbols.rs:31`, so that rows of two files never collide) and `RowAssumption` (files,
lines and probes are numbers, for the order of the candidates).

* `VectorsComparable`: `Spec => []VectorsOneSpace`. `SpaceInv` adds what is in the pending
  statements (`StmtOK`: no chunk of another space is on its way, nor another identity) and
  where the run stands (`SpacePhase`: a full run reaches the streaming phase only after the
  delete of all chunks and of the marker, which may still be among the statements while the
  phase is `begin`). It holds as long as `ClearsSeen`, as the property says; rows may be lost.
* `RowsCommitted`: `Spec => [](ClearsSeen => CommitMarker)`, and `SkippedFilesCurrent`:
  `Spec => [](ClearsSeen => UnchangedMeansCurrent)`. The condition is the proof's: that the rows of a
  file under way are of one space comes from `SpaceInv`; the run checks both without it. The property is about rows in the database; the invariant
  `CommitInv` is about rows wherever they are: in the database, in an issued statement, in a
  buffer. `Whole` says it for those; `Behind` and `InOrder` say that a `file_meta` row comes
  after the rows it stands for and goes after them, which makes `Whole` survive a crash, an
  error or a cancel between any two statements; `Removing` and `Reading` say that a file that
  is about to be streamed has no rows left and that its stamp was taken before its content, as
  `Fits` orders them; `OneContent` that the rows of a file whose commit is under way are of one
  content. Files in `torn`, those an interruption of the bulk delete hit or that lost
  chunks unseen, are excepted by the properties themselves (section 4).

* `ChangesKept`: `FreshSpec => [](used.soft = 0 => QuiescentFresh)`. `FreshInv` makes every file
  somebody's promise: a queued event or rescan (`Later`), the plan of the run (`Planned`), its stream
  (`InStream`), a `file_meta` row in the database, in a statement or a buffer that has the version on
  disk (`Current`), or the retry queue, stored or being rewritten (`Waits`). A cancel, an
  error and a crash break promises of the run, and the invariant holds because of what they
  leave: a missing marker, a rebuild flag or an empty index (`CallsForRepair`), or a queued rescan; a stream
  never runs under an identity marker (`FreshMarks`). The retry queue is rewritten by a delete and an
  insert, whose order `FreshStmts` keeps. The conditions are needed: section 4 has a counterexample for
  each, an ignored write that fails (`used.soft`), a clear lost unseen (in the property itself) and a
  rebuild dropped before it begins (`FreshSpec`).

`CallGraphTrust` proves that the markers of the call graph tell the truth in `IndexPipeline`, for the
same repositories and mishaps:

* `RawEdgesTrusted`: `Spec => [](AllSeen /\ used.heal = 0 => RawEdgesCurrent)`. `RawInv` is about the rows `raw_edge` will
  hold once the statements under way are done (`RawRows`): they are complete for every committed
  file (`RawWhole`), none is left of a file about to be streamed (`RawUntouched`, `RawRemoving`), and none
  comes behind its `file_meta` row (`RawBehind`).
* `EdgesTrusted`: `OrderKept => (Spec => [](AllSeen /\ used.soft = 0 => EdgesSound))`. `CallsInv` says that both rows and
  marker are gone before the tables change (`CallsCleared`), that an incremental run still
  knows tables of which its `calls` are the full resolution and which differ from the present ones only in
  files of its change set (`CallsRemembered`), and that Phase 2 writes what a full pass would: for
  the scoped pass by `ScopedIsFull`. `EdgeInv` keeps the order of the statements both rely on.
* `CallGraphTrusted`: `OrderKept => (Spec => [](used.heal = 0 /\ used.soft = 0 => CallGraphSound))`
  combines the two; `AllSeen` is part of `CallGraphSound`.

The conditions are those of the findings of section 4: `used.heal = 0` excepts a heal that went past a file it could not
read, `used.soft = 0` a lost delete of `edges_resolved`, `AllSeen` the statements that fail unseen, and `OrderKept` is `StableOrder` said of the
pipeline's contents. `MCIndexPipeline` satisfies it: a content has one symbol of a name.

`EdgeResolutionProofs` proves `IncrementalIsFull`:
`StableOrder => (Spec => []IncrementalEqualsFull)`, for any files, contents and import
probes, and any number of edits. `ScopedIsFull` of `CallGraphProofs` is its core: an edge outside the blast radius has
the same target before and after, because the candidates of a name that lies outside
the surface delta are the same up to their lines, and the choice among them (`SelectKept`)
depends on nothing else as long as their order by line is kept. That is the hypothesis `StableOrder`: edits
keep the order of same-named symbols of a file. The code does not guarantee it:
section 4 shows that without it the property is false. `MCEdgeResolution` assumes it of its
contents, and TLC evaluates that. `ContentsAssumption` says that files, lines and probes
are numbers.

`StoreProofs` has eight theorems, for any number of generations, openers, rows, sessions, texts and files
and any size of a page or a batch:

* `HandleShared`: `SSpec => []PipelineHandleShared`. `HandleInv` says why: a run past the run
  lock keeps it, so no removal drops the handle; whoever opens is alone behind the gate and
  found no handle; the run's clone is the cached handle from its insertion on.
* `RemovalsStick` and `DirectoriesKnown`: `SSpec => []RemovedStaysRemoved` and
  `[]NothingBeyondFile`. `GenInv` orders the generations of memory, file, openers, directories
  and removals, with the one moment between the two writes of a removal spelled out. It holds as long as no
  settings are saved during a removal (`overlapped`), as the properties say; section 4 shows
  what happens otherwise.
* `OpenIsMigrated`: `MSpec => []OpenMeansMigrated`. `SchemaInv` follows the chain (`ChainInv`): a
  backfill has converted everything up to its position but for the rest of its page, and a persisted
  cursor is never ahead of what is converted, which is what makes a resume safe; at the
  stamp a step owes nothing. `EmptyInv` and `RebuiltInv` do the same for an empty database and
  for the secondary indexes of a rebuild.
* `SessionsSurvive`: `KSpec => []SessionSurvives`: what a client knows is stored or known to be
  gone, a load that finds nothing could not read what there is (`unread`), and a request that
  reaches the store is for such a session (`SessionInv`).
* `VectorsAligned`: `ESpec => []EmbeddingsAligned`. `EmbedInv` says that a cache entry is of its own
  text and, while requests go out (`SendInv`), that what was received are the vectors of the
  first positions asked for, and that every position has its vector, is asked for, or is a hit
  set aside until the answer's dimension is known (`InHand`). `OrderIs` is the heart: whatever a
  reply repeats or leaves out, if `order_embeddings` accepts it, position j has the vector
  labelled j. That the positions asked for are in ascending order is proved too
  (`AscendingIs`), through the rank of each, without an induction.

The last two are about `IgnoreApi`: `IgnoredOut` (`ISpec => []IgnoredStaysOut`) and `MarkerFirst`
(`ISpec => []MarkerDominates`), for any number of files and any page of the batch handler. As
in the fence, the hard part is what a warm in flight holds: `MutationInv` relates its captured
mutation epoch to the evictions, `StampInv` says that a stamp whose epoch is still current
counts a set that contains the shard's files and every row there is, so that an equal count
means equal sets; `HolderInv` follows the holder of the lock, which marks before it deletes in the
batch and after it for one file; `OutInv` puts the promised files out of the database, the
shard, and whatever may still be installed. A failed read of the
ignored paths that was taken for an empty list (`blind`) is excepted, as in the properties
(section 4, `IgnoreListKept`).

`ServiceProofs` also proves, for any repositories, requests and wait budget, `EmptyIsAVerdict`
(`SSpec => []NoFalseEmpty`: nothing a query could be answered from exists before a publish,
`IndexInv` and `AnswerOf`) and `ScansWithinBudget` (`SSpec => []WaitBudget`: at each place what was
waited for the run and what is left for a scan sum to no more than the budget but for one interval (`BudgetOf`), and
the scans are counted by the passes and the agent's searches (`ScansOf`)). And for any turns
of any dialogs `TurnsHonest` (`CSpec => []TurnHonest`): `TurnInv` says that what a turn counts
are its searches, normalised, that text ends a round on a strict endpoint only with the floor
met, and that the answer about to be stored is the one that was shown; `ConvInv` that a
stored turn is over with Done, so no later step of that turn can contradict the transcript.

And of `QueryEngine`, for any chunks, calls, filters, reranker and number of changes underneath:

* `EmptySearchesSound`: `QSpec => []EmptySearchSound`;
* `AnswersAreTrue`: `QSpec => []AnswerIsWhatItSays`.

For the first, `QueryInv` ties the class scanned, the scans so far and the kept first answer
to the fallbacks taken (`Course`, `Scanned`), and says what became of a lost candidate
(`Losses`): in the first pass it marks the answer, in the retry it is of the retried class, whose
verdict is not the one given. `Outcome` is what any pass may end with; `PassEndsWith` takes it
through `retry_on_rerank_rejection`. For the second, `AnswerInv` follows the class and the
statistics of the candidates from the scan through expansion and reranking. The filters
keep elements in their order (`Picked`), which is by rank of their position so that the
lemmas need no operator parameter (`PickedSeq`, from `PositionAt`).

Of `AgenticRerank`, for any pool, budgets, format retries and number of calls in a response, it
proves `AgentLoopsSound` (`RSpec => []AgentLoopSound`). `LoopInv` counts: while a response is
dispatched, the calls without a result are those not dispatched yet, and only a response that
was broken off in the middle leaves some behind, with an exit for which there is no harvest.
`CommitInv` says that commitments are distinct entries of the pool, and that wherever more may be
committed (`MayCommit`) the character budget is not used up, so that one call of two
entries can overshoot it by less than its own size; `DecidedInv` is the answer assembled at the
end. An accepted call commits at most two entries, so its fold is unrolled (`AddsAre`) and
no induction is needed; the characters committed are a sum over the sizes (`OfSize`), and
grow by an entry's own (`CharsAppend`).

Of `ModelClients`, for any number of keys, frames of a stream and requests of a conversation, it
proves `ConversationsWhole` (`LSpec => []ConversationWhole`). `ReadInv` says at every frame what
has been read: the tokens forwarded are the text of the body, all of the current attempt, because
a body that has begun is never retried, and the accumulators are the server's calls
(`Assembled`): for Gemini each is a frame with its signature, for OpenAI each accumulator is what
the pieces of its index make (`CallOf`), in the order they came, whatever came between them. A
frame keeps that (`ReadGrows`, from `PiecesGrow`: a frame adds its position to the pieces of one
call and to no other's), and the end of the body selects the named ones (`TurnCalls`). `HistInv`
says that the history of the second request is one turn, with the calls answered and
their results, and that the wire holds what is made of it (`ReplayedGemini`, `ReplayedOpenAi`).
What the theorem inherits from the model: a call index is 1 or 2, an answer that comes whole has
at most two parts, and `HistoryReplayed` speaks of the request after the first answer. So the fold
over a whole answer (`ReadsUnfold`) and the flattening of a history of three entries
(`FlattenThree`) are unrolled, and no induction is needed; the stream itself is one
frame a step, so its length is not bounded.

### Only model-checked

* `FilterAgreesWithWalk`: `Walker` has no constants, so TLC's run already covers every chain it
  speaks of (two directories and a file); deeper ones are a fold over the components of a path,
  and what a fold computes for every input needs an induction theorem with an operator parameter.
* `ShapingSound`, `ToolsExact`: folds over sequences of any length, for which the same holds.
* Every liveness property, which is out of the prover's reach.

## 6. Not modelled

* **Parser and framework extraction** (`parsing/`, `indexing/import_resolver.rs`):
  tree-sitter queries over file contents. Pure functions, whose inputs cannot be enumerated in
  a way that says anything about real files; their results are the constants
  `SymbolsOf` and `EdgesOf`.
* **Arithmetic of the search and of the ranking**: dot products, quantisation, class
  weights. Ranks are given.
* **Text**: prompts, formatting, the byte layout of shard files, splitting a stream into
  frames and JSON, validation and defaults of the settings, HTTP headers and routing.
* **Read-only handlers**: browsing, statistics and graph pages, the aggregation of worker
  answers by the router, the event stream to the UI.
* **Host utilities and benchmarks**: antivirus exclusions, editing of client
  configuration files, measurement programs.
* In modelled parts: the search over all repositories, runs without an embedding client
  in `IndexPipeline` (its outcomes are in `Embedding`), the framework registry, the order of
  parallel parse batches, reaping of old shard generations, job objects.

## 7. Plan

1. Done: the call graph, the pipeline, the fence with its proofs, the registry with its
   abstract specification and its proofs; the engine, caches and walker; the store,
   migrations, ignore API, embedding and sessions; query, reranking, shaping, model
   clients, chat, tools and the service around the query.
2. Done: the proofs of section 5, for every safety property a run checks except those named there as
   only model-checked.
3. Open: an abstract specification of the index that `IndexPipeline` and `VectorFence` both
   implement; a composition of `IgnoreApi` with the full fence.
