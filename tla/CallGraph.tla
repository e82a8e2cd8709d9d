----------------------------- MODULE CallGraph -----------------------------
(***************************************************************************)
(* The pure part of the call-graph phase ("Phase 2") of the indexing       *)
(* pipeline: which symbol a raw call edge resolves to, what a full pass    *)
(* writes to the `calls` table, and which files an incremental run has to  *)
(* re-resolve after an edit.  Source: src/src/indexing/pipeline.rs.        *)
(*                                                                         *)
(* A file is a number, so that the (file, line) order of the candidate     *)
(* buckets is the order of numbers.  A symbol row is                       *)
(*     [file, name, fqn, line]                                             *)
(* and a raw edge row is                                                   *)
(*     [file, name, probes, near]                                          *)
(* where file is the calling file, name the callee's leaf name, probes the *)
(* files the language-aware resolver would try for the edge's import path, *)
(* in order, and near the files the textual fallback of the import path    *)
(* accepts (path suffix, or same directory).  An edge without an import    *)
(* path has probes = <<>> and near = {}.                                   *)
(***************************************************************************)
EXTENDS Naturals, Sequences, FiniteSets

CONSTANT Generated          \* the files is_generated_file() recognises

\* The bucket order: by file, then by position in the file.
Before(a, b) == a.file < b.file \/ (a.file = b.file /\ a.line <= b.line)

\* The first symbol of a non-empty set in bucket order.
FirstOf(S) == CHOOSE a \in S : \A b \in S : Before(a, b)

\* Hand-written candidates first; generated ones only if there are no others.
prefer_non_generated(S) ==
    LET handWritten == {c \in S : c.file \notin Generated}
    IN  FirstOf(IF handWritten # {} THEN handWritten ELSE S)

\* Level 0: the file the import path resolves to, probed only among the
\* files that hold a candidate.
ImportedFile(candidates, e) ==
    LET hits == {i \in DOMAIN e.probes :
                    \E c \in candidates : c.file = e.probes[i]}
    IN  IF hits = {} THEN {}
        ELSE {e.probes[CHOOSE i \in hits : \A j \in hits : i <= j]}

\* The five-level choice among the candidates of one leaf name.
select_best_candidate(candidates, e) ==
    LET in(files) == {c \in candidates : c.file \in files}
        imported == in(ImportedFile(candidates, e))
        near     == in(e.near)
        own      == in({e.file})
    IN  IF imported # {} THEN prefer_non_generated(imported)
        ELSE IF near # {} THEN prefer_non_generated(near)
        ELSE IF own # {} THEN FirstOf(own)
        ELSE prefer_non_generated(candidates)

\* The name -> candidates bucket.
Candidates(symbols, name) == {s \in symbols : s.name = name}

\* The calls rows of a set of raw edges; an edge without a candidate has none.
resolve_raw_edges(symbols, edges) ==
    {[file |-> e.file, name |-> e.name,
      to_file |-> select_best_candidate(Candidates(symbols, e.name), e).file,
      to |-> select_best_candidate(Candidates(symbols, e.name), e).fqn] :
        e \in {x \in edges : Candidates(symbols, x.name) # {}}}

-----------------------------------------------------------------------------
(* Incremental blast radius                                                *)

\* The symbol surface of a file: its (leaf name, fqn) pairs, no line numbers.
Surface(symbols, f) ==
    {<<s.name, s.fqn>> : s \in {x \in symbols : x.file = f}}

\* Mutant: a loss is noticed only when the file lost every symbol.
RemovedOnlyWhenEmpty(old, new, modified, deleted) ==
    {f \in modified : Surface(old, f) # {} /\ Surface(new, f) = {}} \cup deleted

\* compute_surface_delta: the modified files that lost a pair and the deleted
\* files, and the names that gained a pair.
removed_surface_files(old, new, modified, deleted) ==
    {f \in modified : Surface(old, f) \ Surface(new, f) # {}} \cup deleted

added_names(old, new, modified) ==
    {p[1] : p \in UNION {Surface(new, f) \ Surface(old, f) : f \in modified}}

\* Direction 1: unchanged files whose stored calls point into a file that lost
\* part of its surface.
dir1_callers(calls, removed, affected) ==
    {c.file : c \in {x \in calls : x.to_file \in removed /\ x.file \notin affected}}

\* Mutant: direction 2 forgotten.
NoDirection2(raw, changed, dir1, added) == changed \cup dir1

\* resolve_set = changed files, direction-1 callers, and every file with a raw
\* edge to a name that gained a pair (direction 2).
build_resolve_set(raw, changed, dir1, added) ==
    changed \cup dir1 \cup {e.file : e \in {x \in raw : x.name \in added}}

\* What reresolve_files leaves in the calls table: the outgoing rows of the
\* resolve set are replaced, every other row stays.
reresolve_files(calls, symbols, raw, resolve_set) ==
    {c \in calls : c.file \notin resolve_set}
      \cup resolve_raw_edges(symbols, {e \in raw : e.file \in resolve_set})

\* Whether the resolve set is large enough to replay the full pass instead.
exceeds_incremental_phase2_budget(n, indexed, minFiles, divisor) ==
    n >= minFiles /\ n * divisor > indexed
=============================================================================
