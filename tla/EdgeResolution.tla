--------------------------- MODULE EdgeResolution ---------------------------
(***************************************************************************)
(* Incremental call-graph maintenance against its definition.              *)
(*                                                                         *)
(* An incremental run rewrites the symbols and raw edges of the changed    *)
(* files and then re-resolves only a "blast radius" computed from the      *)
(* difference of the symbol surfaces.  The promise is that the calls table *)
(* is afterwards what a full pass over the whole repository would write.   *)
(* Here every sequence of edits over a small universe of file contents is  *)
(* explored, one completed run per step; crashes inside a run are the      *)
(* business of module IndexPipeline.                                       *)
(***************************************************************************)
EXTENDS CallGraph

CONSTANTS
    Files,              \* the repository's files (numbers: the path order)
    Contents,           \* Contents[f]: the parses file f may have
    FallbackMinFiles,   \* INCREMENTAL_PHASE2_FULL_FALLBACK_MIN_FILES
    FallbackDivisor     \* INCREMENTAL_PHASE2_FULL_FALLBACK_DIVISOR

ASSUME ContentsAssumption ==
    /\ Files \subseteq Nat
    /\ \A f \in Files : \A c \in Contents[f] :
          /\ \A s \in c.symbols : s.file = f /\ s.line \in Nat
          /\ \A e \in c.edges : e.file = f /\ e.probes \in Seq(Nat)

\* Edits keep the order of same-named symbols of a file, and no two of them
\* begin on one line.  The surface delta, which leaves line numbers out, relies
\* on it.
StableOrder ==
    \A f \in Files : \A c, d \in Contents[f] :
        /\ \A a, b \in c.symbols : a.name = b.name /\ a.line = b.line => a = b
        /\ \A a, b \in c.symbols, x, y \in d.symbols :
              /\ a.name = b.name /\ x.name = a.name /\ y.name = a.name
              /\ x.fqn = a.fqn /\ y.fqn = b.fqn
              /\ a.line <= b.line
              => x.line <= y.line

VARIABLES
    symbol,             \* the symbol table
    raw_edge,           \* the raw_edge table
    calls,              \* the calls table
    indexed             \* the files with a file_meta row

vars == <<symbol, raw_edge, calls, indexed>>

\* The type invariant: every symbol and raw_edge row is one the parser extracts
\* from some content of a file that is indexed (the rows of a deleted file are
\* gone), and both ends of a calls row lie in files of the repository.
TypeOK ==
    /\ indexed \subseteq Files
    /\ symbol \subseteq UNION {UNION {c.symbols : c \in Contents[f]} : f \in indexed}
    /\ raw_edge \subseteq UNION {UNION {c.edges : c \in Contents[f]} : f \in indexed}
    /\ \A c \in calls : c.file \in Files /\ c.to_file \in Files

Init ==
    /\ symbol = {} /\ raw_edge = {} /\ calls = {} /\ indexed = {}

\* The rows a set of parsed files contributes to a table.
RowsOf(parse, field) == UNION {parse[f][field] : f \in DOMAIN parse}

\* Mutant: the old rows of the affected files are kept.
KeepOldRows(rows, affected, new) == rows \cup new

\* The rows of the affected files are deleted and the new ones written.
ReplaceRows(rows, affected, new) == {r \in rows : r.file \notin affected} \cup new

\* A full rebuild: everything is rewritten from the parses of the files found.
full_rebuild(parse) ==
    /\ symbol' = RowsOf(parse, "symbols")
    /\ raw_edge' = RowsOf(parse, "edges")
    /\ calls' = resolve_raw_edges(symbol', raw_edge')
    /\ indexed' = DOMAIN parse

\* resolve_edges_incremental_with: scoped re-resolution, or the full pass when
\* the blast radius is too large a share of the repository.
resolve_edges_incremental(newSymbols, newRaw, resolve_set) ==
    IF exceeds_incremental_phase2_budget(Cardinality(resolve_set), Cardinality(indexed),
                                         FallbackMinFiles, FallbackDivisor)
    THEN resolve_raw_edges(newSymbols, newRaw)
    ELSE reresolve_files(calls, newSymbols, newRaw, resolve_set)

\* An incremental run over the modified files in DOMAIN parse and the deleted
\* ones: rows of the affected files are replaced, then the blast radius of the
\* surface delta is re-resolved.
incremental_run(parse, deleted) ==
    LET modified   == DOMAIN parse
        affected   == modified \cup deleted
        newSymbols == ReplaceRows(symbol, affected, RowsOf(parse, "symbols"))
        newRaw     == ReplaceRows(raw_edge, affected, RowsOf(parse, "edges"))
        removed    == removed_surface_files(symbol, newSymbols, modified, deleted)
        added      == added_names(symbol, newSymbols, modified)
        dir1       == dir1_callers(calls, removed, affected)
    IN  /\ affected # {}
        /\ symbol' = newSymbols
        /\ raw_edge' = newRaw
        /\ calls' = resolve_edges_incremental(newSymbols, newRaw,
                        build_resolve_set(newRaw, affected, dir1, added))
        /\ indexed' = (indexed \ deleted) \cup modified

\* The parses a set of files may have.
Parses(S) == {p \in [S -> UNION {Contents[f] : f \in S}] : \A f \in S : p[f] \in Contents[f]}

Rebuild == \E S \in SUBSET Files : \E p \in Parses(S) : full_rebuild(p)

Edit ==
    \E M \in SUBSET Files : \E D \in SUBSET (indexed \ M) :
        \E p \in Parses(M) : incremental_run(p, D)

Next == Rebuild \/ Edit

Spec == Init /\ [][Next]_vars

-----------------------------------------------------------------------------
\* After every run, full or incremental, the calls table is exactly what a full
\* Phase 2 over the stored symbols and raw edges writes: no edge of an unchanged
\* caller is left stale, dropped or duplicated by the scoped re-resolution.
IncrementalEqualsFull == calls = resolve_raw_edges(symbol, raw_edge)

=============================================================================
