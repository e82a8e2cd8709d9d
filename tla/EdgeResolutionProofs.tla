------------------------ MODULE EdgeResolutionProofs ------------------------
(***************************************************************************)
(* The scoped re-resolution of an incremental run writes what a full pass  *)
(* would write, for any set of files, any contents that keep the order of  *)
(* their same-named symbols, any sequence of edits and any fallback        *)
(* budget.                                                                 *)
(***************************************************************************)
EXTENDS EdgeResolution, CallGraphProofs, FiniteSetTheorems, TLAPS

-----------------------------------------------------------------------------
(* The runs                                                                *)

\* The symbols of each file are from one content of it.
FromContents(symbols) ==
    \A s \in symbols : s.file \in Files /\ \E c \in Contents[s.file] :
        \A x \in symbols : x.file = s.file => x \in c.symbols

EdgesOK(raw) == \A e \in raw : e.file \in Files /\ e.probes \in Seq(Nat)

GraphInv == FromContents(symbol) /\ EdgesOK(raw_edge) /\ IncrementalEqualsFull

\* Tables of contents that keep their order are comparable.
LEMMA ContentsOrdered ==
    ASSUME StableOrder, NEW old, NEW new, FromContents(old), FromContents(new)
    PROVE  Ordered(old, new)
<1>1. ASSUME NEW T, FromContents(T) PROVE Placed(T) /\ Apart(T)
  <2>1. ASSUME NEW s \in T PROVE s.file \in Nat /\ s.line \in Nat
    <3>1. s.file \in Files /\ \E c \in Contents[s.file] : s \in c.symbols
      BY <1>1 DEF FromContents
    <3> QED
      BY <3>1, ContentsAssumption
  <2>2. ASSUME NEW a \in T, NEW b \in T, a.name = b.name, Before(a, b), Before(b, a)
        PROVE  a = b
    <3>1. a.file = b.file /\ a.line = b.line
      BY <2>1, <2>2 DEF Before
    <3>2. PICK c \in Contents[a.file] : a \in c.symbols /\ b \in c.symbols
      BY <1>1, <3>1 DEF FromContents
    <3>3. a.file \in Files
      BY <1>1 DEF FromContents
    <3> QED
      BY <2>2, <3>1, <3>2, <3>3 DEF StableOrder
  <2> QED
    BY <2>1, <2>2 DEF Placed, Apart
<1>2. ASSUME NEW a \in old, NEW b \in old, NEW x \in new, NEW y \in new,
             Same(a, x), Same(b, y), a.name = b.name, Before(a, b)
      PROVE  Before(x, y)
  <2>1. CASE a.file < b.file
    BY <1>2, <2>1 DEF Same, Before
  <2>2. CASE a.file = b.file /\ a.line <= b.line
    <3>1. PICK c \in Contents[a.file] : a \in c.symbols /\ b \in c.symbols
      BY <2>2 DEF FromContents
    <3>2. PICK d \in Contents[a.file] : x \in d.symbols /\ y \in d.symbols
      BY <1>2, <2>2 DEF FromContents, Same
    <3>3. a.file \in Files
      BY DEF FromContents
    <3>4. /\ a.name = b.name /\ x.name = a.name /\ y.name = a.name
          /\ x.fqn = a.fqn /\ y.fqn = b.fqn
      BY <1>2 DEF Same
    <3>5. x.line <= y.line
      BY <2>2, <3>1, <3>2, <3>3, <3>4 DEF StableOrder
    <3> QED
      BY <1>2, <2>2, <3>5 DEF Same, Before
  <2> QED
    BY <1>2, <2>1, <2>2 DEF Before
<1> QED
  BY <1>1, <1>2 DEF Ordered

\* What the parses of some files contribute.
LEMMA ParseRows ==
    ASSUME NEW S \in SUBSET Files, NEW p \in Parses(S)
    PROVE  /\ DOMAIN p = S
           /\ \A r \in RowsOf(p, "symbols") : r.file \in S /\ r \in p[r.file].symbols
           /\ \A f \in S : p[f] \in Contents[f]
           /\ \A e \in RowsOf(p, "edges") : e.file \in S /\ e.probes \in Seq(Nat)
<1>1. DOMAIN p = S /\ \A f \in S : p[f] \in Contents[f]
  BY DEF Parses
<1>2. ASSUME NEW r \in RowsOf(p, "symbols") PROVE r.file \in S /\ r \in p[r.file].symbols
  <2>1. PICK f \in S : r \in p[f].symbols
    BY <1>1 DEF RowsOf
  <2>2. r.file = f
    BY <1>1, <2>1, ContentsAssumption
  <2> QED
    BY <2>1, <2>2
<1>3. ASSUME NEW e \in RowsOf(p, "edges") PROVE e.file \in S /\ e.probes \in Seq(Nat)
  <2>1. PICK f \in S : e \in p[f].edges
    BY <1>1 DEF RowsOf
  <2> QED
    BY <1>1, <2>1, ContentsAssumption
<1> QED
  BY <1>1, <1>2, <1>3

LEMMA RebuildStep == GraphInv /\ Rebuild => GraphInv'
<1> SUFFICES ASSUME NEW S \in SUBSET Files, NEW p \in Parses(S), full_rebuild(p)
             PROVE  GraphInv'
  BY DEF Rebuild
<1>1. FromContents(RowsOf(p, "symbols"))
  BY ParseRows DEF FromContents
<1>2. EdgesOK(RowsOf(p, "edges"))
  BY ParseRows DEF EdgesOK
<1> QED
  BY <1>1, <1>2 DEF full_rebuild, GraphInv, IncrementalEqualsFull

LEMMA EditStep ==
    ASSUME StableOrder, GraphInv, Edit
    PROVE  GraphInv'
<1> SUFFICES ASSUME NEW M \in SUBSET Files, NEW D \in SUBSET (indexed \ M),
                    NEW p \in Parses(M), incremental_run(p, D)
             PROVE  GraphInv'
  BY DEF Edit
<1> DEFINE new == ReplaceRows(symbol, M \cup D, RowsOf(p, "symbols"))
           newRaw == ReplaceRows(raw_edge, M \cup D, RowsOf(p, "edges"))
<1>2. DOMAIN p = M
  BY ParseRows
<1>3. FromContents(new)
  <2> SUFFICES ASSUME NEW s \in new
               PROVE  s.file \in Files /\ \E c \in Contents[s.file] :
                          \A x \in new : x.file = s.file => x \in c.symbols
    BY DEF FromContents
  <2>1. CASE s.file \in M
    <3>1. \A x \in new : x.file = s.file => x \in p[s.file].symbols
      BY <2>1, ParseRows DEF ReplaceRows
    <3> QED
      BY <2>1, <3>1, ParseRows
  <2>2. CASE s.file \notin M
    <3>1. s \in symbol /\ \A x \in new : x.file = s.file => x \in symbol
      BY <2>2, ParseRows DEF ReplaceRows
    <3> QED
      BY <3>1 DEF GraphInv, FromContents
  <2> QED
    BY <2>1, <2>2
<1>4. EdgesOK(newRaw)
  BY ParseRows DEF GraphInv, EdgesOK, ReplaceRows
<1>5. Edited(symbol, new, raw_edge, newRaw, M, D)
  <2>1. Ordered(symbol, new)
    BY <1>3, ContentsOrdered DEF GraphInv
  <2> QED
    BY <2>1, ParseRows DEF Edited, ReplaceRows, GraphInv, EdgesOK
<1> HIDE DEF new, newRaw
<1>6. calls = resolve_raw_edges(symbol, raw_edge)
  BY DEF GraphInv, IncrementalEqualsFull
<1>7. /\ symbol' = new /\ raw_edge' = newRaw
      /\ calls' = resolve_edges_incremental(new, newRaw,
                      Scope(symbol, new, raw_edge, newRaw, M, D))
  BY <1>2, <1>6 DEF incremental_run, Scope, new, newRaw
<1>8. calls' = resolve_raw_edges(new, newRaw)
  <2>1. reresolve_files(calls, new, newRaw, Scope(symbol, new, raw_edge, newRaw, M, D))
          = resolve_raw_edges(new, newRaw)
    BY <1>5, <1>6, ScopedIsFull
  <2> QED
    BY <1>7, <2>1 DEF resolve_edges_incremental
<1> QED
  BY <1>3, <1>4, <1>7, <1>8 DEF GraphInv, IncrementalEqualsFull

\* The incremental call graph is the full one: after any sequence of full and
\* incremental runs over any files, the calls table is what a full Phase 2 would
\* write from the stored symbols and raw edges, whether the scoped pass or the
\* fallback was taken, provided that edits keep the order of same-named symbols
\* (compute_surface_delta, build_resolve_set, select_best_candidate).
THEOREM IncrementalIsFull == StableOrder => (Spec => []IncrementalEqualsFull)
<1> SUFFICES ASSUME StableOrder PROVE Spec => []IncrementalEqualsFull
  OBVIOUS
<1>1. Init => GraphInv
  BY DEF Init, GraphInv, FromContents, EdgesOK, IncrementalEqualsFull, resolve_raw_edges
<1>2. GraphInv /\ [Next]_vars => GraphInv'
  <2>1. GraphInv /\ UNCHANGED vars => GraphInv'
    BY DEF vars, GraphInv, FromContents, EdgesOK, IncrementalEqualsFull
  <2> QED
    BY <2>1, RebuildStep, EditStep DEF Next
<1>3. GraphInv => IncrementalEqualsFull
  BY DEF GraphInv
<1> QED
  BY <1>1, <1>2, <1>3, PTL DEF Spec
=============================================================================
