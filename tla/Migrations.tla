----------------------------- MODULE Migrations -----------------------------
(***************************************************************************)
(* The schema of ONE repository's database across upgrades and crashes     *)
(* (src/src/store/mod.rs, src/src/store/schema.rs, and the index drops of  *)
(* src/src/indexing/pipeline.rs).                                          *)
(*                                                                         *)
(* What an older build wrote is a set of legacy items: rows of the three   *)
(* paged backfills, table definitions, edge markers, file records.  Each   *)
(* has the version that promises it is gone.  An open repairs the          *)
(* secondary indexes and then spawns the chain of migrations; a process    *)
(* death, an abort or a failed statement may hit between any two steps,    *)
(* and a full rebuild drops and rebuilds the indexes.                      *)
(***************************************************************************)
EXTENDS Naturals, FiniteSets

CONSTANTS
    NRows,          \* rows of each paged table, numbered in key order
    PageSize,       \* rows per page (512 in the code)
    MaxFaults       \* bound on deaths, failures and swallowed statements

ASSUME MigrationAssumption ==
    NRows \in Nat /\ PageSize \in Nat \ {0} /\ MaxFaults \in Nat

DB_SCHEMA_VERSION == 9

Rows == 1 .. NRows
Backfills == {"calls", "file_meta", "chunk"}
Row(b, r) == [item |-> b, row |-> r]
Whole(i) == [item |-> i, row |-> 0]
LegacyItems ==
    {Row(b, r) : b \in Backfills, r \in Rows}
        \cup {Whole(i) : i \in {"chunk_table", "symbol_table", "relations", "edges_resolved",
                                "raw_edge_complete", "js_files"}}

\* The version that promises the item is converted.
PromisedBy(x) ==
    CASE x.item \in {"calls", "file_meta"} -> 2
      [] x.item = "chunk_table" -> 3
      [] x.item = "symbol_table" -> 4
      [] x.item = "chunk" -> 5
      [] x.item = "relations" -> 6
      [] x.item \in {"edges_resolved", "raw_edge_complete"} -> 7
      [] x.item = "js_files" -> 9

Indexes == {"symbol", "calls", "raw_edge"}

VARIABLES
    stamped,    \* db_schema_version, 0 when the key is absent
    populated,  \* the tables hold rows
    legacy,     \* the items still in their old form
    cursor,     \* the persisted keyset cursor of every backfill
    idx,        \* "absent" | "building" | "ready" | "error" for every index
    open,       \* "closed" | "indexes" (opening) | "open"
    task,       \* the migration: [at, step, what, page, last]
    rebuild,    \* the rebuild: "none" | "written" | "symbols" | "raw_edges" | "calls"
    needs_rebuild,
    unrepaired, \* a rebuild ended early since the last open (history)
    swallowed,  \* items whose failed statement nobody noticed (history)
    faults

mvars == <<stamped, populated, legacy, cursor, idx, open, task, rebuild, needs_rebuild, unrepaired,
           swallowed, faults>>

NoTask == [at |-> "none", step |-> 0, what |-> "none", page |-> {}, last |-> 0]
Fault == faults < MaxFaults /\ faults' = faults + 1

-----------------------------------------------------------------------------
(* Opening. *)

read_db_schema_version == IF stamped = 0 THEN 1 ELSE stamped

\* Mutant: an index is trusted as soon as its name is listed.
NamePresent(s) == s # "absent"

\* A listed index is used only if its concurrent build is not known unfinished.
index_status_is_trustworthy(s) == s = "ready"

\* SCHEMA_DDL flips the symbol and calls tables on every open.
OpenStarts ==
    /\ open = "closed"
    /\ open' = "indexes"
    /\ legacy' = legacy \ {Whole("symbol_table")}
    /\ UNCHANGED <<stamped, populated, cursor, idx, task, rebuild, needs_rebuild, unrepaired, swallowed,
                   faults>>

\* The index of raw edges is left to the migration below version 8.
Repairs(i) ==
    \/ i # "raw_edge"
    \/ read_db_schema_version >= 8
    \/ idx[i] = "absent" /\ ~populated

\* An index that cannot be trusted is dropped and defined again: at once on an
\* empty table, else by a concurrent build the open waits for.
ensure_secondary_indexes(i) ==
    /\ open = "indexes" /\ Repairs(i)
    /\ ~index_status_is_trustworthy(idx[i]) /\ idx[i] # "building"
    /\ idx' = [idx EXCEPT ![i] = IF populated THEN "building" ELSE "ready"]
    /\ UNCHANGED <<stamped, populated, legacy, cursor, open, task, rebuild, needs_rebuild, unrepaired,
                   swallowed, faults>>

\* stamp_if_fresh: an empty database is current; then the chain starts at the
\* version it finds.
OpenEnds ==
    /\ open = "indexes"
    /\ \A i \in Indexes : Repairs(i) => index_status_is_trustworthy(idx[i])
    /\ open' = "open"
    /\ unrepaired' = FALSE
    /\ stamped' = IF populated \/ stamped # 0 THEN stamped ELSE DB_SCHEMA_VERSION
    /\ task' = IF stamped' < DB_SCHEMA_VERSION
               THEN [NoTask EXCEPT !.at = "start", !.step = read_db_schema_version + 1]
               ELSE NoTask
    /\ UNCHANGED <<populated, legacy, cursor, idx, rebuild, needs_rebuild, swallowed, faults>>

\* The database finishes or fails a concurrent build on its own.
IndexBuilt(i) ==
    /\ open # "closed" /\ idx[i] = "building"
    /\ \/ idx' = [idx EXCEPT ![i] = "ready"] /\ UNCHANGED <<open, task, rebuild, unrepaired, faults>>
       \/ /\ idx' = [idx EXCEPT ![i] = "error"] /\ Fault
          /\ open' = IF open = "indexes" THEN "closed" ELSE open
          /\ task' = IF task.at = "poll" THEN NoTask ELSE task
          /\ rebuild' = "none"
          /\ unrepaired' = (unrepaired \/ rebuild # "none")
    /\ UNCHANGED <<stamped, populated, legacy, cursor, needs_rebuild, swallowed>>

-----------------------------------------------------------------------------
(* The chain of migrations. *)

At(at) == task.at = at
Goto(at) == task' = [task EXCEPT !.at = at]

\* What a statement does to its items: it converts them, or it fails.  A failed
\* statement whose response is not checked goes unnoticed; any other failure
\* ends the chain.
Statement(items, checked, next) ==
    \/ legacy' = legacy \ items /\ task' = next /\ UNCHANGED <<swallowed, faults>>
    \/ ~checked /\ Fault /\ swallowed' = swallowed \cup items /\ task' = next /\ UNCHANGED legacy
    \/ Fault /\ task' = NoTask /\ UNCHANGED <<populated, legacy, swallowed>>

\* A step begins with its first backfill (its cursor read back) or its statement.
BackfillsFrom(b) == [task EXCEPT !.at = "scan", !.what = b, !.last = cursor[b]]
StepStarts ==
    /\ At("start")
    /\ task' = CASE task.step = 2 -> BackfillsFrom("calls")
                 [] task.step = 5 -> BackfillsFrom("chunk")
                 [] OTHER -> [task EXCEPT !.at = "act"]
    /\ UNCHANGED <<stamped, populated, legacy, cursor, idx, open, rebuild, needs_rebuild, unrepaired,
                   swallowed, faults>>

\* A page of rows beyond the cursor; an empty page ends the backfill.
ReadPage ==
    LET page == {r \in Rows : task.last < r /\ r <= task.last + PageSize} IN
    /\ At("scan")
    /\ task' = IF page = {} THEN [task EXCEPT !.at = "cleanup"]
               ELSE [task EXCEPT !.at = "update", !.page = page,
                       !.last = CHOOSE r \in page : \A s \in page : s <= r]
    /\ UNCHANGED <<stamped, populated, legacy, cursor, idx, open, rebuild, needs_rebuild, unrepaired,
                   swallowed, faults>>

\* Every row is updated by its own id; the response is not checked.
UpdateRow ==
    /\ At("update") /\ task.page # {}
    /\ LET r == CHOOSE x \in task.page : \A y \in task.page : x <= y IN
       Statement({Row(task.what, r)}, FALSE, [task EXCEPT !.page = @ \ {r}])
    /\ UNCHANGED <<stamped, populated, cursor, idx, open, rebuild, needs_rebuild, unrepaired>>

\* Mutant: the cursor is persisted as soon as the page is read.
CursorBeforeRows ==
    /\ At("update")
    /\ cursor' = [cursor EXCEPT ![task.what] = task.last]
    /\ Goto(IF task.page = {} THEN "scan" ELSE "update")
    /\ UNCHANGED <<stamped, populated, legacy, idx, open, rebuild, needs_rebuild, unrepaired, swallowed, faults>>

\* The cursor is persisted once the rows of the page are updated.
PersistCursor ==
    /\ At("update") /\ task.page = {}
    /\ cursor' = [cursor EXCEPT ![task.what] = task.last]
    /\ Goto("scan")
    /\ UNCHANGED <<stamped, populated, legacy, idx, open, rebuild, needs_rebuild, unrepaired, swallowed, faults>>

\* The cursor is deleted (a failure is ignored) and the next backfill begins.
CleanupCursor ==
    /\ At("cleanup")
    /\ \/ cursor' = [cursor EXCEPT ![task.what] = 0] /\ UNCHANGED faults
       \/ Fault /\ UNCHANGED cursor
    /\ task' = IF task.what = "calls" THEN BackfillsFrom("file_meta")
               ELSE [task EXCEPT !.at = "stamp"]
    /\ UNCHANGED <<stamped, populated, legacy, idx, open, rebuild, needs_rebuild, unrepaired, swallowed>>

\* v2 -> v3 flips the chunk table and reads an embedding back.
FlipChunk ==
    /\ At("act") /\ task.step = 3
    /\ Statement({Whole("chunk_table")}, FALSE, [task EXCEPT !.at = "probe"])
    /\ UNCHANGED <<stamped, populated, cursor, idx, open, rebuild, needs_rebuild, unrepaired>>

GatingReadback ==
    /\ At("probe")
    /\ needs_rebuild' \in {needs_rebuild, TRUE}
    /\ Goto("stamp")
    /\ UNCHANGED <<stamped, populated, legacy, cursor, idx, open, rebuild, unrepaired, swallowed, faults>>

\* v3 -> v4 flips the symbol table, checked.
FlipSymbol ==
    /\ At("act") /\ task.step = 4
    /\ Statement({Whole("symbol_table")}, TRUE, [task EXCEPT !.at = "stamp"])
    /\ UNCHANGED <<stamped, populated, cursor, idx, open, rebuild, needs_rebuild, unrepaired>>

\* v5 -> v6 deletes the relation rows and the marker of Phase 2.
DeleteCalls ==
    /\ At("act") /\ task.step = 6
    /\ Statement({Whole("relations")}, FALSE, [task EXCEPT !.at = "marker"])
    /\ UNCHANGED <<stamped, populated, cursor, idx, open, rebuild, needs_rebuild, unrepaired>>

ClearResolved ==
    /\ At("marker")
    /\ \/ legacy' = legacy \ {Whole("edges_resolved")} /\ UNCHANGED faults
       \/ Fault /\ UNCHANGED legacy
    /\ Goto("stamp")
    /\ UNCHANGED <<stamped, populated, cursor, idx, open, rebuild, needs_rebuild, unrepaired, swallowed>>

\* v6 -> v7 clears both edge markers.
ClearEdgeMarkers ==
    /\ At("act") /\ task.step = 7
    /\ Statement({Whole("edges_resolved"), Whole("raw_edge_complete")}, FALSE,
                 [task EXCEPT !.at = "stamp"])
    /\ UNCHANGED <<stamped, populated, cursor, idx, open, rebuild, needs_rebuild, unrepaired>>

\* v7 -> v8 drops a half-built index of raw edges, builds it and waits.
BuildRawEdgeIndex ==
    /\ At("act") /\ task.step = 8
    /\ idx' = IF index_status_is_trustworthy(idx["raw_edge"]) THEN idx
              ELSE [idx EXCEPT !["raw_edge"] = "building"]
    /\ Goto("poll")
    /\ UNCHANGED <<stamped, populated, legacy, cursor, open, rebuild, needs_rebuild, unrepaired, swallowed,
                   faults>>

build_index_concurrently ==
    /\ At("poll") /\ idx["raw_edge"] = "ready"
    /\ Goto("stamp")
    /\ UNCHANGED <<stamped, populated, legacy, cursor, idx, open, rebuild, needs_rebuild, unrepaired,
                   swallowed, faults>>

\* v8 -> v9 marks the JavaScript and TypeScript files stale, checked.
MarkStale ==
    /\ At("act") /\ task.step = 9
    /\ Statement({Whole("js_files")}, TRUE, [task EXCEPT !.at = "stamp"])
    /\ UNCHANGED <<stamped, populated, cursor, idx, open, rebuild, needs_rebuild, unrepaired>>

\* The version is stamped last, and the next step of the chain begins.
Stamp ==
    /\ At("stamp")
    /\ stamped' = task.step
    /\ task' = IF task.step = DB_SCHEMA_VERSION THEN NoTask
               ELSE [NoTask EXCEPT !.at = "start", !.step = task.step + 1]
    /\ UNCHANGED <<populated, legacy, cursor, idx, open, rebuild, needs_rebuild, unrepaired, swallowed, faults>>

-----------------------------------------------------------------------------
(* A full rebuild (after wait_migration), deaths and closes. *)

\* streaming_index drops the symbol and raw-edge indexes and replaces all rows.
RebuildWrites ==
    /\ open = "open" /\ At("none") /\ rebuild = "none"
    /\ rebuild' = "written"
    /\ idx' = [idx EXCEPT !["symbol"] = "absent", !["raw_edge"] = "absent"]
    /\ populated' = TRUE
    /\ legacy' = legacy \ ({Row(b, r) : b \in Backfills, r \in Rows}
                             \cup {Whole(i) : i \in {"relations", "edges_resolved",
                                                     "raw_edge_complete", "js_files"}})
    /\ UNCHANGED <<stamped, cursor, open, task, needs_rebuild, unrepaired, swallowed, faults>>

\* The symbol indexes are rebuilt, then the one of raw edges ...
RebuildBuilds(from, i, to) ==
    /\ rebuild = from
    /\ \/ idx[i] = "absent" /\ idx' = [idx EXCEPT ![i] = "building"] /\ UNCHANGED rebuild
       \/ idx[i] = "ready" /\ rebuild' = to /\ UNCHANGED idx
    /\ UNCHANGED <<stamped, populated, legacy, cursor, open, task, needs_rebuild, unrepaired, swallowed, faults>>

\* ... then Phase 2 drops the indexes of calls, replaces its rows and rebuilds.
PhaseTwoDrops ==
    /\ rebuild = "raw_edges"
    /\ rebuild' = "calls"
    /\ idx' = [idx EXCEPT !["calls"] = "absent"]
    /\ UNCHANGED <<stamped, populated, legacy, cursor, open, task, needs_rebuild, unrepaired, swallowed, faults>>

\* The rebuild completes, and with it what had asked for it.
RebuildEnds ==
    /\ rebuild = "done"
    /\ rebuild' = "none" /\ needs_rebuild' = FALSE
    /\ UNCHANGED <<stamped, populated, legacy, cursor, idx, open, task, unrepaired, swallowed, faults>>

\* A cancelled or failed rebuild leaves the indexes as they are.
RebuildStops ==
    /\ rebuild # "none" /\ Fault
    /\ rebuild' = "none" /\ unrepaired' = TRUE
    /\ UNCHANGED <<stamped, populated, legacy, cursor, idx, open, task, needs_rebuild, swallowed>>

\* A death, or a close that aborts the migration: what is durable stays, a
\* build in progress stays half done.
Close ==
    /\ open # "closed" /\ Fault
    /\ open' = "closed" /\ task' = NoTask /\ rebuild' = "none"
    /\ unrepaired' = FALSE
    /\ idx' = [i \in Indexes |-> IF idx[i] = "building" THEN "error" ELSE idx[i]]
    /\ UNCHANGED <<stamped, populated, legacy, cursor, needs_rebuild, swallowed>>

\* A new database, or one an older build wrote up to some version.
MInit ==
    /\ stamped \in 0 .. DB_SCHEMA_VERSION
    /\ \E fresh \in BOOLEAN :
          /\ fresh => stamped = 0
          /\ populated = ~fresh
          /\ legacy = IF fresh THEN {}
                      ELSE {x \in LegacyItems : PromisedBy(x) > read_db_schema_version}
          /\ idx = [i \in Indexes |-> IF fresh \/ (i = "raw_edge" /\ stamped < 8)
                                      THEN "absent" ELSE "ready"]
    /\ cursor = [b \in Backfills |-> 0]
    /\ open = "closed" /\ task = NoTask /\ rebuild = "none"
    /\ needs_rebuild = FALSE /\ unrepaired = FALSE /\ swallowed = {} /\ faults = 0

MNext ==
    \/ OpenStarts \/ OpenEnds
    \/ \E i \in Indexes : ensure_secondary_indexes(i) \/ IndexBuilt(i)
    \/ StepStarts \/ ReadPage \/ UpdateRow \/ PersistCursor \/ CleanupCursor
    \/ FlipChunk \/ GatingReadback \/ FlipSymbol \/ DeleteCalls \/ ClearResolved
    \/ ClearEdgeMarkers \/ BuildRawEdgeIndex \/ build_index_concurrently \/ MarkStale \/ Stamp
    \/ RebuildWrites
    \/ RebuildBuilds("written", "symbol", "symbols")
    \/ RebuildBuilds("symbols", "raw_edge", "raw_edges")
    \/ PhaseTwoDrops
    \/ RebuildBuilds("calls", "calls", "done")
    \/ RebuildEnds \/ RebuildStops \/ Close

MSpec == MInit /\ [][MNext]_mvars

-----------------------------------------------------------------------------
(* Properties. *)

\* A stamped version keeps its promise: whatever death or failure interrupted
\* the chain and however often it was resumed from a cursor, no item of an
\* older form is left that the stamp says is gone (statements whose failure
\* nobody checks excepted).
StampedMeansConverted ==
    \A x \in legacy \ swallowed : PromisedBy(x) > stamped

\* A database that is open has complete indexes, whatever a crash left behind,
\* unless a rebuild is under way or ended early in this process; the index of
\* raw edges from version 8 on.
IndexesReadyWhenOpen ==
    (open = "open" /\ rebuild = "none" /\ ~unrepaired) =>
        \A i \in Indexes : i # "raw_edge" \/ stamped >= 8 => idx[i] = "ready"

\* A database that opens is what its version says (maybe_spawn_migration,
\* ensure_secondary_indexes): every row the stamp promises converted is, and the
\* indexes queries use are complete.
OpenMeansMigrated == StampedMeansConverted /\ IndexesReadyWhenOpen

\* The same without excepting unchecked statements.
StampedMeansAllConverted == \A x \in legacy : PromisedBy(x) > stamped
=============================================================================
