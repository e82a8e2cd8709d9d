--------------------------- MODULE IndexPipeline ---------------------------
(***************************************************************************)
(* The indexing pipeline of one repository and the durable index it        *)
(* maintains.  Source: src/src/indexing/pipeline.rs (run, full_rebuild,    *)
(* incremental_run, streaming_index, heal_edges, edge resolution), the     *)
(* store operations it uses (src/src/store/ops.rs) and the way the index   *)
(* consumer ends a run (src/src/indexing/mod.rs).                          *)
(*                                                                         *)
(* The database has no transaction around a run: a run is a sequence of    *)
(* durable statements, and the process may die between any two of them.    *)
(* The model keeps that sequence in `ops`, the statements the run has      *)
(* issued but not completed, and one action performs the next one.  What a *)
(* later run may rely on is only what the markers in index_meta and the    *)
(* file_meta rows say; the properties below are about those markers.       *)
(*                                                                         *)
(* A version of a file is its content and the (mtime, size) stamp of the   *)
(* write that produced it; every write has a stamp of its own.             *)
(***************************************************************************)
EXTENDS CallGraph, SequencesExt

CONSTANTS
    Files,          \* indexable paths (numbers: the path order)
    Contents,       \* contents a file may have
    Binary,         \* the contents that are not text: skipped permanently
    SymbolsOf,      \* SymbolsOf[f][c]: the symbol rows parsed from a content
    EdgesOf,        \* EdgesOf[f][c]: the raw call edges parsed from it
    Parts,          \* 1..n: the chunks a text file is split into
    Identities,     \* embedding spaces: a model and its output size
    Absent,         \* a path without a file
    None,           \* an index_meta key without a row
    WRITE_BATCH_SIZE, SYM_BATCH_SIZE, RAW_EDGE_INSERT_BATCH_SIZE,
    IDENTITY_PROBE_SAMPLES,
    FallbackMinFiles, FallbackDivisor,  \* INCREMENTAL_PHASE2_FULL_FALLBACK_*
    MaxEdits,       \* bound: edits to the working tree
    MaxCrashes,     \* bound: process deaths
    MaxErrors,      \* bound: failed statements and transient file errors
    MaxFatal,       \* bound: fatal embedding errors
    MaxRequests,    \* bound: forced rebuilds, cancels and client switches
    MaxSoftErrors,  \* bound: failures of statements whose result is ignored
    MaxHealErrors,  \* bound: heals during which files cannot be read
    MaxLost         \* bound: failed statements whose failure the code never sees

ASSUME PipelineAssumption ==
    /\ None \notin Identities
    /\ Binary \subseteq Contents /\ IsFiniteSet(Files) /\ IsFiniteSet(Parts)
    /\ {WRITE_BATCH_SIZE, SYM_BATCH_SIZE, RAW_EDGE_INSERT_BATCH_SIZE,
        IDENTITY_PROBE_SAMPLES} \subseteq Nat \ {0}
    /\ Cardinality(Parts) <= WRITE_BATCH_SIZE
    /\ \A f \in Files, c \in Contents :
          /\ \A s \in SymbolsOf[f][c] : s.file = f
          /\ \A e \in EdgesOf[f][c] : e.file = f
          /\ c \in Binary => SymbolsOf[f][c] = {} /\ EdgesOf[f][c] = {}
    /\ MaxEdits \in Nat /\ Absent \notin [stamp : 0..MaxEdits, content : Contents]

\* An fqn starts with the path of its file, and SymbolsOf holds what is left of a
\* content's symbols when the last one of each fqn wins.
ASSUME SymbolAssumption ==
    \A f, g \in Files : \A c, d \in Contents :
        \A s \in SymbolsOf[f][c], t \in SymbolsOf[g][d] :
            s.fqn = t.fqn => f = g /\ (c = d => s = t)

\* Files are numbered in path order, symbols have line numbers, and the resolver
\* probes a sequence of files for an import path (any path, indexed or not).
ASSUME RowAssumption ==
    /\ Files \subseteq Nat
    /\ \A f \in Files, c \in Contents :
          /\ \A s \in SymbolsOf[f][c] : s.line \in Nat
          /\ \A e \in EdgesOf[f][c] : e.probes \in Seq(Nat)

VARIABLES
    disk,       \* the working tree: a version of each file, or Absent
    events,     \* files with a watcher event no run has taken yet
    rescan,     \* a trigger without a change set (boot, retry) is queued
    client,     \* the embedding space of the configured client
    db,         \* the durable tables
    pc,         \* the run's stage, "idle" between runs
    ops,        \* the run's durable statements still to be performed
    job,        \* what the run decided when it started
    st,         \* streaming_index: how far each file has come
    buf,        \* Stage 3 buffers: rows not yet handed to the database
    skipped,    \* [retry, permanent]: files that produced no rows
    cancel,     \* the run's cancel token
    fatal,      \* the embed_error slot: a fatal embedding error occurred
    used,       \* how much of each bound is used up
    torn        \* history: files hit by a crash between the statements that
                \* delete their rows and the one that deletes their file_meta,
                \* and files of which an INSERT of chunks failed unseen

vars == <<disk, events, rescan, client, db, pc, ops, job, st, buf, skipped,
          cancel, fatal, used, torn>>

runVars == <<job, st, buf, skipped, cancel, fatal>>

-----------------------------------------------------------------------------
(* Rows and statements                                                     *)

\* Versions: the n-th write to the working tree has stamp n.
Versions == [stamp : 0..MaxEdits, content : Contents]

ChunksOf(f, v, id) ==
    IF v.content \in Binary THEN {}
    ELSE {[file |-> f, ver |-> v, part |-> p, id |-> id] : p \in Parts}

Tables == {"chunk", "symbol", "raw_edge", "calls", "file_meta", "pending_retry"}

\* A statement.  `check`: the code looks at the cancel token right before it;
\* `soft`: its failure is ignored by the code.
Stmt(op, table, rows, files) ==
    [op |-> op, table |-> table, rows |-> rows, files |-> files,
     check |-> FALSE, soft |-> FALSE]
Insert(table, rows)  == Stmt("insert", table, rows, {})
Delete(table, files) == Stmt("delete", table, {}, files)
Meta(m)              == [Stmt("meta", "index_meta", {}, {}) EXCEPT !.rows = m]
Checked(s)           == [s EXCEPT !.check = TRUE]
Soft(s)              == [s EXCEPT !.soft = TRUE]

\* A statement that is only issued when it has something to write.
InsertSome(table, rows) == IF rows = {} THEN <<>> ELSE <<Insert(table, rows)>>

\* file_meta rows are upserted one by one.
upsert_file_meta(rows) == [i \in 1..Cardinality(rows) |->
                              Insert("file_meta", {SetToSeq(rows)[i]})]

\* file_meta rows are keyed by their path, symbol rows by their fqn.
SameKey(table, r, n) == \/ table = "file_meta" /\ r.file = n.file
                        \/ table = "symbol" /\ r.fqn = n.fqn

\* No statement has failed unseen: no clear of a marker, and no other one.
ClearsSeen == used.clears = 0
RowsSeen   == used.rows = 0
AllSeen    == ClearsSeen /\ RowsSeen

AllEdges == UNION {EdgesOf[f][c] : f \in Files, c \in Contents}

\* The effect of a statement on the tables.
Perform(d, s) ==
    CASE s.op = "meta"   -> [d EXCEPT !.index_meta =
                                [k \in DOMAIN @ |-> IF k \in DOMAIN s.rows
                                                    THEN s.rows[k] ELSE @[k]]]
      [] s.op = "insert" -> [d EXCEPT ![s.table] =
                                {r \in @ : \A n \in s.rows : ~SameKey(s.table, r, n)} \cup s.rows]
      [] s.op = "delete" -> [d EXCEPT ![s.table] = {r \in @ : r.file \notin s.files}]

FilesOf(rows) == {r.file : r \in rows}
Stored == FilesOf(db.file_meta)
StampOf(f) == IF f \in Stored THEN (CHOOSE r \in db.file_meta : r.file = f).stamp ELSE Absent
OnDisk == {f \in Files : disk[f] # Absent}

-----------------------------------------------------------------------------
(* State predicates of the volatile part                                   *)

NoJob == [mode |-> "none", force |-> FALSE, identity |-> None, process |-> {},
          delete |-> {}, indexed |-> 0, oldSymbols |-> {}, graphComplete |-> FALSE]
NoStage == [at |-> "none", stamp |-> Absent, ver |-> Absent]
NoBuf == [chunk |-> {}, symbol |-> {}, raw_edge |-> {}, file_meta |-> {}]

\* The run's task is gone: every volatile structure of it with it.
ClearRun ==
    /\ pc' = "idle" /\ ops' = <<>> /\ job' = NoJob
    /\ st' = [f \in Files |-> NoStage] /\ buf' = NoBuf
    /\ skipped' = [retry |-> {}, permanent |-> {}]
    /\ cancel' = FALSE /\ fatal' = FALSE

Init ==
    /\ disk \in [Files -> [stamp : {0}, content : Contents] \cup {Absent}]
    /\ events = {} /\ rescan = TRUE
    /\ client \in Identities
    /\ db = [t \in Tables \cup {"index_meta"} |->
                IF t = "index_meta"
                THEN [identity |-> None, raw_edge_complete |-> FALSE,
                      edges_resolved |-> FALSE, needs_rebuild |-> FALSE]
                ELSE {}]
    /\ pc = "idle" /\ ops = <<>> /\ job = NoJob
    /\ st = [f \in Files |-> NoStage] /\ buf = NoBuf
    /\ skipped = [retry |-> {}, permanent |-> {}]
    /\ cancel = FALSE /\ fatal = FALSE
    /\ used = [edits |-> 0, crashes |-> 0, errors |-> 0, fatal |-> 0, requests |-> 0,
               soft |-> 0, heal |-> 0, clears |-> 0, rows |-> 0]
    /\ torn = {}


-----------------------------------------------------------------------------
(* Starting a run: IndexPipeline::run up to the choice of the path         *)

\* Mutant: any stored vector is taken as a match.
AnyVectorsMatch(id) == db.chunk # {}

\* stored_vectors_match_client: a small sample of the stored chunks, re-embedded
\* with this run's client, gives the stored vectors.  Which rows the LIMIT
\* returns is the database's choice, and the request itself may fail.
stored_vectors_match_client(id) ==
    /\ db.chunk # {}
    /\ \E S \in SUBSET db.chunk :
          /\ Cardinality(S) = IF Cardinality(db.chunk) < IDENTITY_PROBE_SAMPLES
                              THEN Cardinality(db.chunk) ELSE IDENTITY_PROBE_SAMPLES
          /\ \A c \in S : c.id = id

\* The change set of a run: the files to parse and the stored ones to drop.
\* A walk compares every file with its file_meta (detect_changes) ...
detect_changes ==
    [process |-> {f \in OnDisk : StampOf(f) # disk[f]},
     delete  |-> {f \in Stored : disk[f] = Absent}]

\* ... a watcher set is re-classified against the file system.
normalize_explicit_changes(E) ==
    [process |-> E \cap OnDisk,
     delete  |-> {f \in E \cap Stored : disk[f] = Absent}]

\* The durable retry queue is folded into the change set.
FoldPendingRetry(c) ==
    LET p == normalize_explicit_changes(FilesOf(db.pending_retry))
    IN  [process |-> c.process \cup p.process, delete |-> c.delete \cup p.delete]

Vanished == {f \in FilesOf(db.pending_retry) : disk[f] = Absent /\ f \notin Stored}

\* Mutant: a stored marker is not compared with the client.
UnmarkedForcesRebuild(marker, hasData, adopt) == marker = None /\ hasData /\ ~adopt

\* A different marker costs a rebuild; an absent one only if the stored vectors
\* could not be shown to be in the client's space.
identity_forces_rebuild(marker, hasData, adopt) ==
    \/ marker # None /\ marker # client
    \/ marker = None /\ hasData /\ ~adopt

\* Mutant: the watcher's change set is kept after the identity was adopted.
WalkOnlyWithoutChanges(changes, adopt) == changes = None

\* Whether the run walks the repository: after adopting an identity it does so
\* whatever the trigger carried, to find the files an interrupted run left half
\* processed.
walks(changes, adopt) == changes = None \/ adopt

\* `changes`: the watcher's files, or None for a trigger without a change set.
StartRun(changes, forced) ==
    LET marker   == db.index_meta.identity
        force    == forced \/ db.index_meta.needs_rebuild
        hasData  == Stored # {}
        unmarked == marker = None /\ hasData
    IN  /\ pc = "idle"
        /\ \E adopt \in BOOLEAN :
              /\ adopt => unmarked /\ stored_vectors_match_client(client)
              /\ LET rebuild == \/ ~hasData \/ force
                                \/ identity_forces_rebuild(marker, hasData, adopt)
                     change  == FoldPendingRetry(IF walks(changes, adopt) THEN detect_changes
                                                 ELSE normalize_explicit_changes(changes))
                     adoptOp == IF adopt THEN <<Meta([identity |-> client])>> ELSE <<>>
                     noChange == change.process = {} /\ change.delete = {}
                 IN  /\ ops' = adoptOp \o
                               IF rebuild \/ Vanished = {} THEN <<>>
                               ELSE <<Delete("pending_retry", Vanished)>>
                     /\ job' = [mode |-> IF rebuild THEN "full" ELSE "incr",
                                force |-> force, identity |-> client,
                                process |-> IF rebuild THEN OnDisk ELSE change.process,
                                delete  |-> IF rebuild THEN {} ELSE change.delete,
                                indexed |-> Cardinality(Stored),
                                oldSymbols |-> {}, graphComplete |-> FALSE]
                     /\ pc' = CASE rebuild -> "preflight"
                                [] ~rebuild /\ noChange -> "nochange"
                                [] OTHER -> "plan"
        /\ UNCHANGED <<disk, client, db, st, buf, skipped, cancel, fatal, torn>>

\* The consumer takes the trigger a boot or a scheduled retry queued.
TakeRescan ==
    /\ rescan /\ rescan' = FALSE
    /\ StartRun(None, FALSE)
    /\ UNCHANGED <<events, used>>

\* The consumer takes the watcher's batch.
TakeWatcherBatch ==
    /\ events # {} /\ events' = {}
    /\ StartRun(events, FALSE)
    /\ UNCHANGED <<rescan, used>>

\* The user asks for a rebuild.
TakeRebuild ==
    /\ used.requests < MaxRequests
    /\ used' = [used EXCEPT !.requests = @ + 1]
    /\ StartRun(None, TRUE)
    /\ UNCHANGED <<events, rescan>>

-----------------------------------------------------------------------------
(* Durable statements, faults and the end of a run                         *)

Spend(what) == [used EXCEPT ![what] = @ + 1]

\* The database completes the next statement.  A cancel that lands after the
\* token was read and before the statement is issued goes unnoticed here.
PerformNext ==
    /\ ops # <<>>
    /\ db' = Perform(db, Head(ops))
    /\ ops' = Tail(ops)
    /\ torn' = IF Head(ops).op = "delete" /\ Head(ops).table = "file_meta"
               THEN torn \ Head(ops).files ELSE torn
    /\ UNCHANGED <<disk, events, rescan, client, pc, used>> /\ UNCHANGED runVars

\* The stored files whose symbols are already deleted and whose file_meta is not:
\* both bulk deletes remove the file_meta rows last.
MidDelete ==
    LET pendingDelete(t) == UNION {ops[i].files :
            i \in {j \in DOMAIN ops : ops[j].op = "delete" /\ ops[j].table = t}}
    IN  IF pc # "begin" THEN {}
        ELSE (pendingDelete("file_meta") \ pendingDelete("symbol")) \cap Stored

\* run_consumer, Err: mark the index for a rebuild (the write is best effort)
\* and, unless the embedding client is to blame, schedule a retry.  `d` is the
\* database after what the pipeline itself did about the error.
Fail(d, isFatal, spent) ==
    /\ \E marked \in BOOLEAN :
          /\ marked \/ used.soft < MaxSoftErrors
          /\ db' = IF marked THEN Perform(d, Meta([needs_rebuild |-> TRUE])) ELSE d
          /\ used' = IF marked THEN spent ELSE [spent EXCEPT !.soft = @ + 1]
    /\ torn' = torn \cup MidDelete
    /\ rescan' = (rescan \/ ~isFatal)
    /\ ClearRun
    /\ UNCHANGED <<disk, events, client>>

\* A statement fails and the run ends.  When the identity marker cannot be
\* committed, rollback_published_vectors first takes the readiness markers away.
StatementFails ==
    /\ ops # <<>> /\ ~Head(ops).soft
    /\ used.errors < MaxErrors
    /\ Fail(IF pc = "commit" /\ Head(ops).op = "meta"
            THEN Perform(db, Meta([identity |-> None, edges_resolved |-> FALSE])) ELSE db,
            FALSE, Spend("errors"))

\* `db.query(..).await?` without check() is Ok although its statement failed
\* (take1 of store/ops.rs says so): the inserts of chunks, raw edges and calls, the
\* clears of the markers before rows are deleted, and what heal_edges, Phase 2 and
\* the commit of an incremental run delete.
Clears(s) == s.op = "meta" /\ \E k \in DOMAIN s.rows :
                 s.rows[k] = (IF k = "identity" THEN None ELSE FALSE)
Unchecked(s) ==
    /\ ~s.soft
    /\ \/ s.op = "insert" /\ s.table \in {"chunk", "raw_edge", "calls"}
       \/ Clears(s)
       \/ s.op = "delete" /\ pc = "phase2" /\ ~s.check
       \/ s.op = "delete" /\ pc = "commit" /\ s.table = "file_meta"

\* Such a statement fails: its rows or its clear are lost and the run goes on.
StatementLost ==
    /\ ops # <<>> /\ Unchecked(Head(ops))
    /\ used.clears + used.rows < MaxLost
    /\ used' = Spend(IF Head(ops).op = "meta" THEN "clears" ELSE "rows")
    /\ ops' = Tail(ops)
    /\ torn' = IF Head(ops).table = "chunk" THEN torn \cup FilesOf(Head(ops).rows) ELSE torn
    /\ UNCHANGED <<disk, events, rescan, client, db, pc>> /\ UNCHANGED runVars

\* The identity marker cannot be committed, and one of the clears of the rollback,
\* neither of which is checked, fails unseen.
RollbackLost ==
    /\ ops # <<>> /\ pc = "commit" /\ Head(ops).op = "meta"
    /\ used.errors < MaxErrors /\ used.clears + used.rows < MaxLost
    /\ \E cleared \in {[identity |-> None], [edges_resolved |-> FALSE]} :
          Fail(Perform(db, Meta(cleared)), FALSE,
               [Spend("errors") EXCEPT !.clears = @ + 1])

\* A statement fails whose result the code ignores.
SoftStatementFails ==
    /\ ops # <<>> /\ Head(ops).soft
    /\ used.soft < MaxSoftErrors
    /\ used' = Spend("soft")
    /\ ops' = Tail(ops)
    /\ UNCHANGED <<disk, events, rescan, client, db, pc, torn>> /\ UNCHANGED runVars

\* run_consumer, Err(Cancelled): nothing is marked, nothing is rescheduled.
Cancelled ==
    /\ ClearRun
    /\ UNCHANGED <<disk, events, rescan, client, db, used, torn>>

\* The cancel token is honoured before a checked statement.
CancelBeforeStatement ==
    /\ ops # <<>> /\ Head(ops).check /\ cancel
    /\ Cancelled

\* The process dies; the worker that replaces it starts with a catch-up walk.
Crash ==
    /\ used.crashes < MaxCrashes
    /\ used' = Spend("crashes")
    /\ torn' = torn \cup MidDelete
    /\ events' = {} /\ rescan' = TRUE
    /\ ClearRun
    /\ UNCHANGED <<disk, client, db>>

-----------------------------------------------------------------------------
(* The environment                                                         *)

\* A file is written, created or removed; the watcher reports it.
Edit(f) ==
    /\ used.edits < MaxEdits
    /\ used' = Spend("edits")
    /\ \E v \in [stamp : {used.edits + 1}, content : Contents] \cup {Absent} :
          /\ v # disk[f]
          /\ disk' = [disk EXCEPT ![f] = v]
    /\ events' = events \cup {f}
    /\ UNCHANGED <<rescan, client, db, pc, ops, torn>> /\ UNCHANGED runVars

\* The settings name another embedding model.  (Another provider of the same model
\* costs a rebuild like a forced one: the cache of embeddings does not tell the
\* providers apart, and their vectors are taken to be of one space.)
SwitchClient ==
    /\ used.requests < MaxRequests /\ used' = Spend("requests")
    /\ client' \in Identities \ {client}
    /\ UNCHANGED <<disk, events, rescan, db, pc, ops, torn>> /\ UNCHANGED runVars

\* The user cancels the run.
RequestCancel ==
    /\ pc # "idle" /\ ~cancel
    /\ used.requests < MaxRequests /\ used' = Spend("requests")
    /\ cancel' = TRUE
    /\ UNCHANGED <<disk, events, rescan, client, db, pc, ops, torn, job, st, buf, skipped, fatal>>

-----------------------------------------------------------------------------
(* Entering the mutation window                                            *)

\* full_rebuild leaves before it deletes anything: the cancel token is set ...
CancelBeforeRebuild ==
    /\ pc = "preflight" /\ ops = <<>> /\ cancel
    /\ Cancelled

\* ... or the preflight request shows that the embedding client is not working.
PreflightFails ==
    /\ pc = "preflight" /\ ops = <<>> /\ ~cancel
    /\ \/ used.errors < MaxErrors /\ Fail(db, FALSE, Spend("errors"))
       \/ used.fatal < MaxFatal /\ Fail(db, TRUE, Spend("fatal"))

\* full_rebuild: clear the markers, then delete_all_data, then (its result is
\* ignored) the edges_resolved marker.
BeginFull ==
    /\ pc = "preflight" /\ ops = <<>> /\ ~cancel
    /\ ops' = <<Meta([identity |-> None, raw_edge_complete |-> FALSE]),
                Delete("calls", Files), Delete("raw_edge", Files), Delete("symbol", Files),
                Delete("chunk", Files), Delete("file_meta", Files),
                Soft(Meta([edges_resolved |-> FALSE]))>>
    /\ pc' = "begin"
    /\ UNCHANGED <<disk, events, rescan, client, db, torn, used>> /\ UNCHANGED runVars

\* incremental_run: remember the old symbol surface and whether the call graph
\* was complete, clear the markers, then delete_files_data_incremental.
BeginIncremental ==
    LET affected == job.process \cup job.delete
    IN  /\ pc = "plan" /\ ops = <<>>
        /\ job' = [job EXCEPT !.oldSymbols = {s \in db.symbol : s.file \in job.process},
                              !.graphComplete = db.index_meta.edges_resolved]
        /\ ops' = <<Meta([identity |-> None, edges_resolved |-> FALSE]),
                    Delete("symbol", affected), Delete("chunk", affected),
                    Delete("raw_edge", affected), Delete("file_meta", affected)>>
        /\ pc' = "begin"
        /\ UNCHANGED <<disk, events, rescan, client, db, st, buf, skipped, cancel, fatal,
                       used, torn>>

\* streaming_index starts; with nothing to process it returns at once.
StartStream ==
    /\ pc = "begin" /\ ops = <<>>
    /\ st' = [f \in Files |-> IF f \in job.process THEN [NoStage EXCEPT !.at = "todo"] ELSE NoStage]
    /\ pc' = IF job.process = {} THEN "tail" ELSE "stream"
    /\ UNCHANGED <<disk, events, rescan, client, db, ops, job, buf, skipped, cancel, fatal,
                   used, torn>>

-----------------------------------------------------------------------------
(* streaming_index: parse and embed tasks, one writer                      *)

Streaming == pc = "stream" /\ UNCHANGED <<disk, events, rescan, client, db, pc, job, torn>>

\* A file leaves the stream without rows, to be tried again.
SkipForRetry(f) ==
    /\ skipped' = [skipped EXCEPT !.retry = @ \cup {f}]
    /\ st' = [st EXCEPT ![f] = [NoStage EXCEPT !.at = "done"]]

\* parse_one_file: the stamp is taken before the content is read.
StatFile(f) ==
    /\ Streaming /\ st[f].at = "todo"
    /\ IF disk[f] = Absent
       THEN SkipForRetry(f)
       ELSE /\ st' = [st EXCEPT ![f].at = "stat", ![f].stamp = disk[f]]
            /\ UNCHANGED skipped
    /\ UNCHANGED <<ops, buf, cancel, fatal, used>>

\* parse_one_file reads and parses, embed_parsed_file embeds: the rows are ready.
\* A file that is not text is remembered under its stamp, without rows.
ReadAndEmbed(f) ==
    /\ Streaming /\ st[f].at = "stat"
    /\ CASE disk[f] = Absent -> SkipForRetry(f)
         [] disk[f] # Absent /\ disk[f].content \in Binary ->
                /\ skipped' = [skipped EXCEPT !.permanent = @ \cup
                                  {[file |-> f, stamp |-> st[f].stamp]}]
                /\ st' = [st EXCEPT ![f] = [NoStage EXCEPT !.at = "done"]]
         [] OTHER ->
                /\ st' = [st EXCEPT ![f].at = "embedded", ![f].ver = disk[f]]
                /\ UNCHANGED skipped
    /\ UNCHANGED <<ops, buf, cancel, fatal, used>>

\* A read error or an embedding error that outlasted its retries.
TransientSkip(f) ==
    /\ Streaming /\ st[f].at \in {"todo", "stat"}
    /\ used.errors < MaxErrors /\ used' = Spend("errors")
    /\ SkipForRetry(f)
    /\ UNCHANGED <<ops, buf, cancel, fatal>>

\* A fatal embedding error stops the whole stream through the cancel token.
FatalEmbed(f) ==
    /\ Streaming /\ st[f].at = "stat" /\ disk[f] # Absent
    /\ used.fatal < MaxFatal /\ used' = Spend("fatal")
    /\ fatal' = TRUE /\ cancel' = TRUE
    /\ st' = [st EXCEPT ![f] = [NoStage EXCEPT !.at = "done"]]
    /\ UNCHANGED <<ops, buf, skipped>>

\* Mutants: the stamp is taken when the rows are stored, without and with a check
\* that the file is still there.
StampOfAnything(f) == disk[f]
StampAtStore(f) == IF f \in OnDisk THEN disk[f] ELSE st[f].stamp

\* The stamp a file is committed with.
RecordedStamp(f) == st[f].stamp

\* Mutant: pending symbols stay in memory when file_meta rows are committed.
BoundaryWithoutSymbols(chunks, raw, symbols, metas) ==
    <<Insert("chunk", chunks)>> \o InsertSome("raw_edge", raw) \o upsert_file_meta(metas)

\* A full chunk batch: chunks, pending raw edges and pending symbols become
\* durable before the file_meta rows of the files completed so far.
FlushBoundary(chunks, raw, symbols, metas) ==
    <<Insert("chunk", chunks)>> \o InsertSome("raw_edge", raw)
       \o InsertSome("symbol", symbols) \o upsert_file_meta(metas)

\* The writer takes one embedded file: symbols and raw edges are batched across
\* files, so are chunks, and the file's own file_meta is only queued.
StoreFile(f) ==
    LET v        == st[f].ver
        symbols  == buf.symbol \cup SymbolsOf[f][v.content]
        raw      == buf.raw_edge \cup EdgesOf[f][v.content]
        symFull  == Cardinality(symbols) >= SYM_BATCH_SIZE
        rawFull  == Cardinality(raw) >= RAW_EDGE_INSERT_BATCH_SIZE
        symLeft  == IF symFull THEN {} ELSE symbols
        rawLeft  == IF rawFull THEN {} ELSE raw
        room     == WRITE_BATCH_SIZE - Cardinality(buf.chunk)
        chunks   == ChunksOf(f, v, job.identity)
        fitting  == {c \in chunks : c.part <= room}
        boundary == Cardinality(chunks) >= room
    IN  /\ Streaming /\ ops = <<>> /\ ~cancel
        /\ st[f].at = "embedded"
        /\ ops' = (IF symFull THEN InsertSome("symbol", symbols) ELSE <<>>)
               \o (IF rawFull THEN InsertSome("raw_edge", raw) ELSE <<>>)
               \o (IF boundary
                   THEN FlushBoundary(buf.chunk \cup fitting, rawLeft, symLeft, buf.file_meta)
                   ELSE <<>>)
        /\ buf' = LET meta == {[file |-> f, stamp |-> RecordedStamp(f)]}
                  IN  IF boundary
                      THEN [chunk |-> chunks \ fitting, symbol |-> {}, raw_edge |-> {},
                            file_meta |-> meta]
                      ELSE [chunk |-> buf.chunk \cup chunks, symbol |-> symLeft,
                            raw_edge |-> rawLeft, file_meta |-> buf.file_meta \cup meta]
        /\ st' = [st EXCEPT ![f] = [NoStage EXCEPT !.at = "done"]]
        /\ UNCHANGED <<skipped, cancel, fatal, used>>

\* The stream ends early: nothing that is still buffered is written.
AbortStream ==
    /\ pc = "stream" /\ ops = <<>> /\ cancel
    /\ IF fatal THEN Fail(db, TRUE, used) ELSE Cancelled

\* Every file has come through: the tail flush, then the retry queue and the
\* file_meta rows of the permanently skipped files.
FlushTail ==
    /\ pc = "stream" /\ ops = <<>> /\ ~cancel
    /\ \A f \in job.process : st[f].at = "done"
    /\ ops' = InsertSome("symbol", buf.symbol) \o InsertSome("chunk", buf.chunk)
           \o InsertSome("raw_edge", buf.raw_edge) \o upsert_file_meta(buf.file_meta)
           \o <<Delete("pending_retry", IF job.mode = "full" THEN Files ELSE job.process)>>
           \o InsertSome("pending_retry", {[file |-> f] : f \in skipped.retry})
           \o upsert_file_meta(skipped.permanent)
    /\ buf' = NoBuf /\ skipped' = [retry |-> {}, permanent |-> {}]
    /\ st' = [f \in Files |-> NoStage]
    /\ pc' = "tail"
    /\ UNCHANGED <<disk, events, rescan, client, db, job, cancel, fatal, used, torn>>

-----------------------------------------------------------------------------
(* The commit of the rows, then the call graph                             *)

\* The rows are durable: the markers that say so.  A full rebuild has written
\* every raw edge; an incremental run drops what is left of the deleted files.
CommitRows ==
    /\ pc = "tail" /\ ops = <<>>
    /\ ops' = IF job.mode = "full"
              THEN <<Meta([raw_edge_complete |-> TRUE]), Meta([identity |-> job.identity])>>
              ELSE <<Delete("file_meta", job.delete), Delete("pending_retry", job.delete),
                     Meta([identity |-> job.identity])>>
    /\ pc' = "commit"
    /\ UNCHANGED <<disk, events, rescan, client, db, torn, used>> /\ UNCHANGED runVars

\* Phase 2 writes the calls rows batch by batch (here: one batch per calling
\* file) and looks at the cancel token before each.
InsertByFile(table, rows) ==
    LET order == SetToSeq(FilesOf(rows))
    IN  [i \in DOMAIN order |-> Checked(Insert(table, {r \in rows : r.file = order[i]}))]

StampEdgesResolved == <<Meta([edges_resolved |-> TRUE])>>

\* The statements of resolve_edges_phase2: all calls rows are replaced.
resolve_edges_phase2(raw) ==
    <<Delete("calls", Files)>> \o InsertByFile("calls", resolve_raw_edges(db.symbol, raw))
       \o StampEdgesResolved

\* Mutant: the scoped pass does not delete the rows it is about to replace.
ScopedWithoutDelete(resolve_set) ==
    InsertByFile("calls", resolve_raw_edges(db.symbol,
                              {e \in db.raw_edge : e.file \in resolve_set}))
       \o StampEdgesResolved

\* The statements of reresolve_files: the outgoing calls of the resolve set.
reresolve_statements(resolve_set) ==
    <<Checked(Delete("calls", resolve_set))>>
       \o InsertByFile("calls", resolve_raw_edges(db.symbol,
                                    {e \in db.raw_edge : e.file \in resolve_set}))
       \o StampEdgesResolved

\* Mutant: raw_edge_complete is set before the edges are written.
HealMarksFirst(unreadable) ==
    LET raw == UNION {EdgesOf[f][disk[f].content] : f \in (Stored \cap OnDisk) \ unreadable}
    IN  <<Delete("raw_edge", Files), Meta([raw_edge_complete |-> TRUE])>>
           \o InsertByFile("raw_edge", raw) \o resolve_edges_phase2(raw)

\* The statements of heal_edges: raw_edge is rebuilt by parsing every indexed
\* file again, as it is on disk now; a file in `unreadable` yields no edges.
heal_edges(unreadable) ==
    LET readable == (Stored \cap OnDisk) \ unreadable
        raw      == UNION {EdgesOf[f][disk[f].content] : f \in readable}
    IN  <<Meta([raw_edge_complete |-> FALSE, edges_resolved |-> FALSE]),
          Delete("raw_edge", Files)>>
           \o InsertByFile("raw_edge", raw)
           \o <<Meta([raw_edge_complete |-> TRUE])>>
           \o resolve_edges_phase2(raw)

Heal ==
    \/ ops' = heal_edges({}) /\ UNCHANGED used
    \/ /\ used.heal < MaxHealErrors /\ used' = Spend("heal")
       /\ \E U \in (SUBSET Stored) \ {{}} : ops' = heal_edges(U)

EnterPhase2(from) ==
    /\ pc = from /\ ops = <<>>
    /\ pc' = "phase2"
    /\ UNCHANGED <<disk, events, rescan, client, db, torn>> /\ UNCHANGED runVars

\* full_rebuild: from the edges still in memory, or from the table when there are
\* none there; only the latter deletes the calls rows again.  Unless an INSERT was
\* lost, the edges in memory are those of the table.
FullPhase2 ==
    /\ job.mode = "full" /\ EnterPhase2("commit")
    /\ \E lost \in SUBSET (IF RowsSeen THEN {} ELSE AllEdges) :
          ops' = IF db.raw_edge \cup lost = {} THEN resolve_edges_phase2({})
                 ELSE Tail(resolve_edges_phase2(db.raw_edge \cup lost))
    /\ UNCHANGED used

\* incremental_run: the blast radius of the surface delta, if the graph was
\* complete before the run; else a replay of the whole phase, or a heal.
IncrementalPhase2 ==
    LET affected    == job.process \cup job.delete
        removed     == removed_surface_files(job.oldSymbols, db.symbol, job.process, job.delete)
        added       == added_names(job.oldSymbols, db.symbol, job.process)
        resolve_set == build_resolve_set(db.raw_edge, affected,
                                         dir1_callers(db.calls, removed, affected), added)
        tooLarge    == exceeds_incremental_phase2_budget(Cardinality(resolve_set), job.indexed,
                                                         FallbackMinFiles, FallbackDivisor)
    IN  /\ job.mode = "incr" /\ EnterPhase2("commit")
        /\ IF ~db.index_meta.raw_edge_complete THEN Heal
           ELSE /\ ops' = IF job.graphComplete /\ ~tooLarge THEN reresolve_statements(resolve_set)
                          ELSE resolve_edges_phase2(db.raw_edge)
                /\ UNCHANGED used

\* run, no changes: finish what an interrupted run left of the call graph.
NoChangePhase2 ==
    /\ EnterPhase2("nochange")
    /\ IF ~db.index_meta.raw_edge_complete THEN Heal
       ELSE /\ ops' = IF db.index_meta.edges_resolved THEN <<>>
                      ELSE resolve_edges_phase2(db.raw_edge)
            /\ UNCHANGED used

\* Mutant: a successful run never schedules a retry.
NoRetryAfterSuccess == FALSE

\* Files wait in the retry queue after a successful run.
retry_needed == db.pending_retry # {}

\* run_consumer, Ok: schedule a retry if files wait for one, clear the rebuild
\* flag (its result is ignored) after a forced run.
RunSucceeds ==
    /\ pc = "phase2" /\ ops = <<>>
    /\ rescan' = (rescan \/ retry_needed)
    /\ pc' = "finish"
    /\ ops' = IF job.force THEN <<Soft(Meta([needs_rebuild |-> FALSE]))>> ELSE <<>>
    /\ UNCHANGED <<disk, events, client, db, used, torn>> /\ UNCHANGED runVars

Finish ==
    /\ pc = "finish" /\ ops = <<>>
    /\ ClearRun
    /\ UNCHANGED <<disk, events, rescan, client, db, used, torn>>

-----------------------------------------------------------------------------
Trigger == TakeRescan \/ TakeWatcherBatch

\* What the run does by itself.
RunStep ==
    \/ PerformNext \/ BeginFull \/ BeginIncremental \/ StartStream
    \/ \E f \in Files : StatFile(f) \/ ReadAndEmbed(f) \/ StoreFile(f)
    \/ AbortStream \/ FlushTail \/ CommitRows
    \/ FullPhase2 \/ IncrementalPhase2 \/ NoChangePhase2
    \/ RunSucceeds \/ Finish \/ CancelBeforeRebuild \/ CancelBeforeStatement

\* What goes wrong, and what users do.
Fault ==
    \/ StatementFails \/ SoftStatementFails \/ StatementLost \/ RollbackLost
    \/ PreflightFails \/ Crash
    \/ \E f \in Files : TransientSkip(f) \/ FatalEmbed(f)

Environment ==
    \/ \E f \in Files : Edit(f)
    \/ TakeRebuild \/ SwitchClient \/ RequestCancel

Next == Trigger \/ RunStep \/ Fault \/ Environment

Spec == Init /\ [][Next]_vars

\* A queued trigger is received and a started run goes on: the consumer task and
\* the pipeline futures it awaits are polled by the runtime as long as the
\* process lives.
FairSpec == Spec /\ WF_vars(Trigger) /\ WF_vars(RunStep)

-----------------------------------------------------------------------------
(* Properties                                                              *)

\* The type invariant: the rows of every table are about files of the repository,
\* file_meta and symbol hold one row per key, a recorded stamp is one a file on
\* disk really had, no run leaves statements, buffers or a job behind, and the
\* chunk buffer never reaches WRITE_BATCH_SIZE across a file.
TypeOK ==
    /\ disk \in [Files -> Versions \cup {Absent}]
    /\ events \subseteq Files /\ rescan \in BOOLEAN /\ client \in Identities
    /\ \A c \in db.chunk : c.file \in Files /\ c.ver \in Versions /\ c.part \in Parts
    /\ \A m \in db.file_meta : m.file \in Files /\ m.stamp \in Versions
    /\ \A m, n \in db.file_meta : m.file = n.file => m = n
    /\ \A s, t \in db.symbol : s.fqn = t.fqn => s = t
    /\ db.index_meta.identity \in Identities \cup {None}
    /\ pc \in {"idle", "plan", "preflight", "begin", "stream", "tail", "commit",
               "nochange", "phase2", "finish"}
    /\ pc = "idle" => ops = <<>> /\ job = NoJob /\ buf = NoBuf
    /\ Cardinality(buf.chunk) < WRITE_BATCH_SIZE
    /\ torn \subseteq Files

\* The stored rows of file f are those of its version v.
RowsOfVersion(f, v) ==
    /\ \E id \in Identities : {c \in db.chunk : c.file = f} = ChunksOf(f, v, id)
    /\ {s \in db.symbol : s.file = f} = SymbolsOf[f][v.content]

Committed == Stored \ (torn \cup MidDelete)

\* file_meta is the commit marker: whenever a file has its row - in the middle of
\* a run, after a crash, a seen failure or a cancel at any statement - all chunks
\* and all symbols of one version of the file are durable, and that version is not
\* older than the recorded stamp.  Excluded are a file whose deletion was
\* interrupted between its symbols and its file_meta (both bulk deletes remove
\* file_meta last), and a file of which an INSERT of chunks failed, which
\* flush_chunk_batch does not see: its file_meta is written all the same.
CommitMarker ==
    \A f \in Committed : \E v \in Versions :
        v.stamp >= StampOf(f).stamp /\ RowsOfVersion(f, v)

\* What the walk relies on when it skips a file: if the recorded stamp is the
\* file's stamp on disk, the stored rows are those of the content on disk, even if
\* the file was written while it was being read (for the files CommitMarker speaks
\* of; one that lost chunks unseen is skipped without them).
UnchangedMeansCurrent ==
    \A f \in Committed : StampOf(f) = disk[f] => RowsOfVersion(f, disk[f])

\* While raw_edge_complete is set, the raw edges of every file that is unchanged
\* since it was indexed are all there, so a replay of Phase 2 loses no call.
RawEdgesCurrent ==
    db.index_meta.raw_edge_complete =>
        \A f \in Committed : StampOf(f) = disk[f] =>
            {e \in db.raw_edge : e.file = f} = EdgesOf[f][disk[f].content]

\* The identity marker is never a lie: while it names an embedding space, every
\* stored vector is of that space, whatever was switched, cancelled or interrupted.
IdentitySound ==
    db.index_meta.identity # None =>
        \A c \in db.chunk : c.id = db.index_meta.identity

\* No sequence of interrupted runs mixes two embedding spaces among the stored
\* chunks.
OneEmbeddingSpace == \A c, d \in db.chunk : c.id = d.id

\* Stored vectors are comparable: one space, the one the marker names, if any
\* (full_rebuild and incremental_run around the identity marker), as long as no
\* clear of a marker, which these two do not check, has failed unseen.
VectorsOneSpace == ClearsSeen => IdentitySound /\ OneEmbeddingSpace

\* While both edge markers are set the call graph is the one a full Phase 2 would
\* write from the stored symbols and raw edges.
EdgesSound ==
    db.index_meta.edges_resolved /\ db.index_meta.raw_edge_complete =>
        db.calls = resolve_raw_edges(db.symbol, db.raw_edge)

\* The call graph can be trusted while its markers are set: the raw edges are
\* those of the files, and the edges are what a full Phase 2 makes of them - as long
\* as no statement failed unseen (those that write and clear edges are unchecked).
CallGraphSound == AllSeen => RawEdgesCurrent /\ EdgesSound

\* Nothing is forgotten: when no run is active, no trigger is queued and the markers
\* call for no repair (an index without any file_meta row is one that the next
\* run rebuilds), every file on disk is indexed at its current version or waits in
\* the retry queue, and no removed file is still listed.  (An identity whose clear
\* failed unseen stays while the run has only begun.)
Quiescent ==
    /\ pc = "idle" /\ events = {} /\ ~rescan
    /\ ~db.index_meta.needs_rebuild /\ db.index_meta.identity = client

QuiescentFresh ==
    ClearsSeen /\ Quiescent /\ Stored # {} => \A f \in Files :
        \/ StampOf(f) = disk[f]
        \/ f \in FilesOf(db.pending_retry)

\* The one step that forgets: a rebuild is cancelled before it begins, although its
\* trigger was what knew of changes, and the markers call for no repair (the identity
\* was adopted, or belongs to another client).  FreshSpec leaves it out.
RebuildDropped ==
    /\ CancelBeforeRebuild /\ Stored # {}
    /\ db.index_meta.identity # None /\ ~db.index_meta.needs_rebuild

FreshSpec == Init /\ [][Next /\ ~RebuildDropped]_vars

\* Convergence: once edits, errors and requests stop, the index becomes and stays
\* complete: every file at its current version, no retry outstanding, the call
\* graph resolved.  (A repository that ends up empty is excepted:
\* streaming_index returns before it rewrites the retry queue.)
Converged ==
    /\ Quiescent
    /\ db.pending_retry = {}
    /\ \A f \in Files : StampOf(f) = disk[f]
    /\ db.index_meta.edges_resolved /\ db.index_meta.raw_edge_complete

EventuallyConverged == <>[](OnDisk # {}) => <>[]Converged

-----------------------------------------------------------------------------
(* What comments of the code say and the code does not keep                *)

\* pipeline.rs: "The interrupted run that lost the marker may have left files half
\* processed (no file_meta): walk the repo so every one is reconciled": once
\* nothing is queued, no row belongs to a file that is not in the repository.
NoOrphanRows ==
    Quiescent => \A c \in db.chunk : disk[c.file] # Absent
=============================================================================
