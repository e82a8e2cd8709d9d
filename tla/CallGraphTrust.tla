--------------------------- MODULE CallGraphTrust ---------------------------
(***************************************************************************)
(* Proofs about the call graph of IndexPipeline: while its markers are set *)
(* it can be trusted, whatever run was interrupted before.                 *)
(***************************************************************************)
EXTENDS IndexPipelineProofs, CallGraphProofs

-----------------------------------------------------------------------------
(* The call graph: what the statements do to its tables and markers        *)

SoftClear == Soft(Meta([edges_resolved |-> FALSE]))
HealClear == Meta([raw_edge_complete |-> FALSE, edges_resolved |-> FALSE])
RawMark == Meta([raw_edge_complete |-> TRUE])
Stamp == Meta([edges_resolved |-> TRUE])

Complete == db.index_meta.raw_edge_complete = TRUE
Resolved == db.index_meta.edges_resolved = TRUE

TypedEdges(rows) == \A e \in rows : e.file \in Files /\ e.probes \in Seq(Nat)

\* Which statements a phase issues on the call graph and its markers.
EdgeStmt(s) ==
    /\ Shape(s)
    /\ Sets(s, "raw_edge_complete") =>
          \/ pc = "begin" /\ job.mode = "full" /\ s = ClearMarkers
          \/ pc = "commit" /\ job.mode = "full" /\ s = RawMark
          \/ pc = "phase2" /\ s \in {HealClear, RawMark}
    /\ Sets(s, "edges_resolved") =>
          \/ pc = "begin" /\ job.mode = "full" /\ s = SoftClear
          \/ pc = "begin" /\ job.mode = "incr" /\ s = IncrClear
          \/ pc = "phase2" /\ s \in {HealClear, Stamp}
    /\ On(s, "raw_edge") =>
          \/ pc = "begin" /\ s.op = "delete"
          \/ pc \in {"stream", "tail"} /\ s.op = "insert"
          \/ pc = "phase2"
    /\ On(s, "calls") =>
          \/ pc = "begin" /\ job.mode = "full" /\ s.op = "delete"
          \/ pc = "phase2"
    /\ On(s, "raw_edge") /\ s.op = "insert" => TypedEdges(s.rows)
    /\ On(s, "calls") /\ s.op = "insert" => EdgesIn(s.rows)

\* Markers are taken away first and set last, rows are deleted before they are
\* written again, and a file_meta row comes behind the raw edges of its file.
EdgeOrder(s, t) ==
    /\ t \notin {HealClear, ClearMarkers, IncrClear} /\ s # Stamp
    /\ s = RawMark => t # RawMark /\ ~On(t, "raw_edge")
    /\ s.op = "insert" /\ s.table \in {"raw_edge", "calls"} =>
          ~(t.op = "delete" /\ t.table = s.table)
    /\ s.op = "insert" /\ s.table = "file_meta" => ~(t.op = "insert" /\ t.table = "raw_edge")
    /\ job.mode = "incr" /\ s.op = "delete" /\ s.table = "raw_edge" =>
          ~(t.op = "delete" /\ t.table = "symbol")

EdgeTypes ==
    /\ {"heal", "soft"} \subseteq DOMAIN used /\ used.heal \in Nat /\ used.soft \in Nat
    /\ job.process \cap job.delete = {}
    /\ EdgesIn(db.calls) /\ TypedEdges(db.raw_edge) /\ TypedEdges(buf.raw_edge)
    /\ pc = "stream" => \A f \in Files : Reads(f) => f \in job.process

EdgeStmts == /\ \A s \in ToSet(ops) : EdgeStmt(s)
             /\ \A s, t : Precedes(ops, s, t) => EdgeOrder(s, t)

\* Phase 2 replaces the raw edges only under a missing marker, which it sets behind
\* them, and ends with the stamp.
EdgeMarks ==
    /\ pc = "begin" /\ job.mode = "full" => ClearMarkers \in ToSet(ops) \/ ~Complete
    /\ pc = "phase2" =>
          /\ HealClear \in ToSet(ops) \/ (\E s \in ToSet(ops) : On(s, "raw_edge")) =>
                RawMark \in ToSet(ops)
          /\ RawMark \in ToSet(ops) => ~Complete
          /\ ops # <<>> => Stamp \in ToSet(ops)

EdgeInv == EdgeTypes /\ EdgeStmts /\ EdgeMarks

-----------------------------------------------------------------------------
(* The raw edges                                                           *)

\* What the table will hold when the statements of the run are done.
RawRows == {e \in db.raw_edge : pc = "phase2" => ~Deletes(ops, "raw_edge", e.file)}
              \cup Issued("raw_edge") \cup buf.raw_edge

\* The raw edges are complete, or will be before the marker says so.
RawOn == \/ Complete
         \/ job.mode = "full" /\ pc \in {"stream", "tail", "commit"}
         \/ pc = "phase2" /\ RawMark \in ToSet(ops)

RawWhole ==
    RawOn => \A m \in Metas : m.file \notin torn \cup MidDelete /\ m.stamp = disk[m.file] =>
        {e \in RawRows : e.file = m.file} = EdgesOf[m.file][m.stamp.content]

RawUntouched ==
    pc = "stream" => \A f \in Files : Reads(f) => \A e \in RawRows : e.file # f

RawBehind ==
    pc # "phase2" =>
        /\ \A m \in db.file_meta : \A e \in Issued("raw_edge") \cup buf.raw_edge : e.file # m.file
        /\ \A m \in Issued("file_meta") : \A e \in buf.raw_edge : e.file # m.file

RawRemoving ==
    pc = "begin" => \/ Delete("raw_edge", Affected) \in ToSet(ops)
                    \/ \A e \in db.raw_edge : e.file \notin Affected

RawInv == used.heal = 0 => RawWhole /\ RawUntouched /\ RawBehind /\ RawRemoving

-----------------------------------------------------------------------------
(* The edges                                                               *)

CallRows == {c \in db.calls : ~Deletes(ops, "calls", c.file)} \cup Issued("calls")

\* The markers are gone before the rows are, and the rows Phase 2 is writing are
\* those of a full pass.
CallsCleared ==
    /\ EdgesSound
    /\ pc = "begin" /\ job.mode = "incr" => IncrClear \in ToSet(ops) \/ ~Resolved
    /\ pc = "begin" /\ job.mode = "full" =>
          /\ SoftClear \in ToSet(ops) \/ ~Resolved
          /\ Delete("calls", Files) \in ToSet(ops) \/ db.calls = {}
    /\ pc \in {"stream", "tail", "commit"} => ~Resolved /\ (job.mode = "full" => db.calls = {})
    /\ pc = "phase2" /\ Stamp \in ToSet(ops) =>
          /\ Resolved => HealClear \in ToSet(ops)
          /\ CallRows = resolve_raw_edges(db.symbol, RawRows)

\* The files an incremental run removes have lost their symbols for good.
CallsRemoved ==
    job.mode = "incr" /\ pc \in {"stream", "tail", "commit"} =>
        \A f \in job.delete : SymbolRows(f) = {}

\* Edits keep the order of the same-named symbols of a file, and no two of them
\* begin on one line: the surface delta of an incremental run, which leaves line
\* numbers out, relies on it.
OrderKept ==
    \A f \in Files : \A c, d \in Contents :
        /\ \A a, b \in SymbolsOf[f][c] : a.name = b.name /\ a.line = b.line => a = b
        /\ \A a, b \in SymbolsOf[f][c], x, y \in SymbolsOf[f][d] :
              /\ a.name = b.name /\ x.name = a.name /\ y.name = a.name
              /\ x.fqn = a.fqn /\ y.fqn = b.fqn
              /\ a.line <= b.line
              => x.line <= y.line

\* What the calls rows depend on besides: edits keep the order, and no statement
\* whose result the code ignores has failed.
Heeded == OrderKept /\ used.soft = 0

\* The symbols of each file are from one content of it.
OneEach(symbols) ==
    \A s \in symbols : s.file \in Files /\ \E c \in Contents :
        \A x \in symbols : x.file = s.file => x \in SymbolsOf[s.file][c]

\* The calls rows are still those of the tables the run found: `old` and `raw`,
\* of which the files outside the change set have kept their rows.
Remember(old, raw) ==
    /\ db.calls = resolve_raw_edges(old, raw)
    /\ job.oldSymbols = {s \in old : s.file \in job.process}
    /\ OneEach(old) /\ TypedEdges(raw)
    /\ \A f \in Files \ Affected : /\ SymbolRows(f) = {s \in old : s.file = f}
                                   /\ {e \in RawRows : e.file = f} = {e \in raw : e.file = f}

CallsRemembered ==
    /\ job.mode = "incr" /\ pc \in {"begin", "stream", "tail", "commit"}
    /\ job.graphComplete = TRUE /\ Complete
    => \E old, raw : Remember(old, raw)

CallsInv == Heeded => CallsCleared /\ CallsRemoved /\ CallsRemembered

-----------------------------------------------------------------------------
(* Sequences that write the call graph                                     *)

\* The named marker statements are different ones.
LEMMA MarksDiffer ==
  /\ HealClear # RawMark /\ HealClear # Stamp /\ RawMark # Stamp
  /\ \A s \in {HealClear, RawMark, Stamp} : s \notin {ClearMarkers, IncrClear}
  /\ SoftClear \notin {HealClear, RawMark, Stamp, ClearMarkers, IncrClear}
  /\ ClearMarkers # IncrClear
<1> DEFINE A == [raw_edge_complete |-> FALSE, edges_resolved |-> FALSE]
           B == [raw_edge_complete |-> TRUE]
           C == [edges_resolved |-> TRUE]
           D == [identity |-> None, raw_edge_complete |-> FALSE]
           E == [identity |-> None, edges_resolved |-> FALSE]
           F == [edges_resolved |-> FALSE]
<1>1. /\ DOMAIN A = {"raw_edge_complete", "edges_resolved"} /\ DOMAIN B = {"raw_edge_complete"}
      /\ DOMAIN C = {"edges_resolved"} /\ DOMAIN D = {"identity", "raw_edge_complete"}
      /\ DOMAIN E = {"identity", "edges_resolved"} /\ DOMAIN F = {"edges_resolved"}
      /\ C["edges_resolved"] # F["edges_resolved"]
  OBVIOUS
<1>2. /\ HealClear.rows = A /\ RawMark.rows = B /\ Stamp.rows = C /\ ClearMarkers.rows = D
      /\ IncrClear.rows = E /\ SoftClear.rows = F
  BY MetaFields DEF HealClear, RawMark, Stamp, ClearMarkers, IncrClear, SoftClear
<1> HIDE DEF A, B, C, D, E, F
<1> QED
  BY <1>1, <1>2

\* The statements of Phase 2, by their place in it.
Phase2Stmt(n, s) ==
    /\ Shape(s)
    /\ n = 1 => s = HealClear
    /\ n = 2 => On(s, "raw_edge") /\ s.op = "delete"
    /\ n = 3 => On(s, "raw_edge") /\ s.op = "insert" /\ TypedEdges(s.rows)
    /\ n = 4 => s = RawMark
    /\ n = 5 => On(s, "calls") /\ s.op = "delete"
    /\ n = 6 => On(s, "calls") /\ s.op = "insert" /\ EdgesIn(s.rows)
    /\ n = 7 => s = Stamp

EdgesInOrder(q) == \A s, t : Precedes(q, s, t) => EdgeOrder(s, t)

Ranked(q, low, high) ==
    /\ IsSeq(q) /\ EdgesInOrder(q)
    /\ \A s \in ToSet(q) : \E n \in low..high : Phase2Stmt(n, s)

LEMMA MarksMeta ==
  /\ \A s \in {HealClear, RawMark, Stamp, ClearMarkers, IncrClear, SoftClear} :
        s.op = "meta" /\ Shape(s) /\ \A t : ~On(s, t)
  /\ \A s \in {HealClear, RawMark, Stamp, ClearMarkers, IncrClear} : ~s.soft
  /\ HealClear.rows = [raw_edge_complete |-> FALSE, edges_resolved |-> FALSE]
  /\ RawMark.rows = [raw_edge_complete |-> TRUE]
  /\ Stamp.rows = [edges_resolved |-> TRUE]
  /\ ClearMarkers.rows = [identity |-> None, raw_edge_complete |-> FALSE]
  /\ IncrClear.rows = [identity |-> None, edges_resolved |-> FALSE]
  /\ SoftClear.rows = [edges_resolved |-> FALSE] /\ SoftClear.soft
<1>1. \A m : /\ Meta(m).op = "meta" /\ Shape(Meta(m)) /\ ~Meta(m).soft /\ Meta(m).rows = m
             /\ Soft(Meta(m)).op = "meta" /\ Shape(Soft(Meta(m))) /\ Soft(Meta(m)).rows = m
             /\ Soft(Meta(m)).soft
  <2>1. \A m : Soft(Meta(m)).soft
    BY DEF Soft, Meta, Stmt
  <2> QED
    BY <2>1, MetaFields
<1>2. /\ HealClear.op = "meta" /\ Shape(HealClear) /\ ~HealClear.soft
      /\ HealClear.rows = [raw_edge_complete |-> FALSE, edges_resolved |-> FALSE]
  BY <1>1 DEF HealClear
<1>3. /\ RawMark.op = "meta" /\ Shape(RawMark) /\ ~RawMark.soft
      /\ RawMark.rows = [raw_edge_complete |-> TRUE]
  BY <1>1 DEF RawMark
<1>4. /\ Stamp.op = "meta" /\ Shape(Stamp) /\ ~Stamp.soft /\ Stamp.rows = [edges_resolved |-> TRUE]
  BY <1>1 DEF Stamp
<1>5. /\ ClearMarkers.op = "meta" /\ Shape(ClearMarkers) /\ ~ClearMarkers.soft
      /\ ClearMarkers.rows = [identity |-> None, raw_edge_complete |-> FALSE]
  BY <1>1 DEF ClearMarkers
<1>6. /\ IncrClear.op = "meta" /\ Shape(IncrClear) /\ ~IncrClear.soft
      /\ IncrClear.rows = [identity |-> None, edges_resolved |-> FALSE]
  BY <1>1 DEF IncrClear
<1>7. /\ SoftClear.op = "meta" /\ Shape(SoftClear) /\ SoftClear.soft
      /\ SoftClear.rows = [edges_resolved |-> FALSE]
  BY <1>1 DEF SoftClear
<1>8. \A s \in {HealClear, RawMark, Stamp, ClearMarkers, IncrClear, SoftClear} :
         s.op = "meta" /\ Shape(s)
  BY <1>2, <1>3, <1>4, <1>5, <1>6, <1>7
<1> QED
  BY <1>2, <1>3, <1>4, <1>5, <1>6, <1>7, <1>8 DEF On

LEMMA RankOrder ==
  ASSUME NEW m \in 1..7, NEW n \in 1..7, m < n \/ (m = n /\ m \in {3, 6}),
         NEW s, Phase2Stmt(m, s), NEW t, Phase2Stmt(n, t)
  PROVE  EdgeOrder(s, t)
<1>1. \A k \in 1..7 : \A x : Phase2Stmt(k, x) =>
         /\ x = HealClear => k = 1
         /\ x = RawMark => k = 4
         /\ x = Stamp => k = 7
         /\ x \notin {ClearMarkers, IncrClear}
         /\ On(x, "raw_edge") => k \in {2, 3}
         /\ On(x, "raw_edge") /\ x.op = "insert" => k = 3
         /\ On(x, "raw_edge") /\ x.op = "delete" => k = 2
         /\ On(x, "calls") /\ x.op = "insert" => k = 6
         /\ On(x, "calls") /\ x.op = "delete" => k = 5
         /\ x.op = "delete" => x.table # "symbol"
         /\ x.op = "insert" => x.table # "file_meta"
  <2> SUFFICES ASSUME NEW k \in 1..7, NEW x, Phase2Stmt(k, x)
               PROVE /\ x = HealClear => k = 1
                     /\ x = RawMark => k = 4
                     /\ x = Stamp => k = 7
                     /\ x \notin {ClearMarkers, IncrClear}
                     /\ On(x, "raw_edge") => k \in {2, 3}
                     /\ On(x, "raw_edge") /\ x.op = "insert" => k = 3
                     /\ On(x, "raw_edge") /\ x.op = "delete" => k = 2
                     /\ On(x, "calls") /\ x.op = "insert" => k = 6
                     /\ On(x, "calls") /\ x.op = "delete" => k = 5
                     /\ x.op = "delete" => x.table # "symbol"
                     /\ x.op = "insert" => x.table # "file_meta"
    OBVIOUS
  <2>1. CASE k \in {1, 4, 7}
    <3>1. /\ x \in {HealClear, RawMark, Stamp} /\ x.op = "meta" /\ \A u : ~On(x, u)
          /\ (k = 1 => x = HealClear) /\ (k = 4 => x = RawMark) /\ (k = 7 => x = Stamp)
      BY <2>1, MarksMeta DEF Phase2Stmt
    <3> QED
      BY <2>1, <3>1, MarksDiffer
  <2>2. CASE k \in {2, 3, 5, 6}
    <3>1. x.op # "meta"
      BY <2>2 DEF Phase2Stmt, On
    <3>2. x \notin {HealClear, RawMark, Stamp, ClearMarkers, IncrClear}
      BY <3>1, MarksMeta
    <3> QED
      BY <2>2, <3>2 DEF Phase2Stmt, On
  <2> QED
    BY <2>1, <2>2
<1>2. /\ s = HealClear => m = 1 
      /\ s = RawMark => m = 4 
      /\ s = Stamp => m = 7
      /\ On(s, "raw_edge") /\ s.op = "insert" => m = 3
      /\ On(s, "calls") /\ s.op = "insert" => m = 6
      /\ s.op = "insert" => s.table # "file_meta"
  BY <1>1
<1>3. /\ t = HealClear => n = 1 
      /\ t = RawMark => n = 4 
      /\ t \notin {ClearMarkers, IncrClear}
      /\ On(t, "raw_edge") => n \in {2, 3}
      /\ On(t, "raw_edge") /\ t.op = "delete" => n = 2
      /\ On(t, "calls") /\ t.op = "delete" => n = 5
      /\ t.op = "delete" => t.table # "symbol"
  BY <1>1
<1>4. t \notin {HealClear, ClearMarkers, IncrClear} /\ s # Stamp
  BY <1>2, <1>3
<1>5. s = RawMark => t # RawMark /\ ~On(t, "raw_edge")
  BY <1>2, <1>3
<1>6. s.op = "insert" /\ s.table \in {"raw_edge", "calls"} =>
          ~(t.op = "delete" /\ t.table = s.table)
  BY <1>2, <1>3 DEF On
<1> QED
  BY <1>2, <1>3, <1>4, <1>5, <1>6 DEF EdgeOrder

LEMMA RankedConcat ==
  ASSUME NEW low \in 1..7, NEW mid \in 1..7, NEW next \in 1..7, NEW high \in 1..7,
         low <= mid, mid < next, next <= high,
         NEW a, Ranked(a, low, mid), NEW b, Ranked(b, next, high)
  PROVE  /\ Ranked(a \o b, low, high) /\ ToSet(a \o b) = ToSet(a) \cup ToSet(b)
         /\ \A t : Writes(a \o b, t) = Writes(a, t) \cup Writes(b, t)
<1>1. IsSeq(a) /\ IsSeq(b) /\ EdgesInOrder(a) /\ EdgesInOrder(b)
  BY DEF Ranked
<1>2. IsSeq(a \o b) /\ ToSet(a \o b) = ToSet(a) \cup ToSet(b)
  BY <1>1, ConcatSeq
<1>3. ASSUME NEW s \in ToSet(a), NEW t \in ToSet(b) PROVE EdgeOrder(s, t)
  <2>1. PICK m \in low..mid : Phase2Stmt(m, s)
    BY DEF Ranked
  <2>2. PICK n \in next..high : Phase2Stmt(n, t)
    BY DEF Ranked
  <2> QED
    BY <2>1, <2>2, RankOrder
<1>4. ASSUME NEW s, NEW t, Precedes(a \o b, s, t) PROVE EdgeOrder(s, t)
  BY <1>1, <1>3, <1>4, PrecedesConcat DEF EdgesInOrder
<1>5. \A s \in ToSet(a \o b) : \E n \in low..high : Phase2Stmt(n, s)
  BY <1>2 DEF Ranked
<1>6. \A t : Writes(a \o b, t) = Writes(a, t) \cup Writes(b, t)
  BY <1>2 DEF Writes
<1>7. EdgesInOrder(a \o b)
  BY <1>4 DEF EdgesInOrder
<1> QED
  BY <1>2, <1>5, <1>6, <1>7 DEF Ranked

\* One statement.
LEMMA RankedOne ==
  ASSUME NEW n \in 1..7, NEW s, Phase2Stmt(n, s)
  PROVE  /\ Ranked(<<s>>, n, n) /\ ToSet(<<s>>) = {s}
         /\ \A t : Writes(<<s>>, t) = IF s.op = "insert" /\ s.table = t THEN s.rows ELSE {}
<1>1. IsSeq(<<s>>) /\ ToSet(<<s>>) = {s} /\ DOMAIN <<s>> = {1}
  BY OneSeq
<1>2. EdgesInOrder(<<s>>)
  BY <1>1 DEF EdgesInOrder, Precedes
<1>3. \A t : Writes(<<s>>, t) = IF s.op = "insert" /\ s.table = t THEN s.rows ELSE {}
  BY <1>1 DEF Writes
<1> QED
  BY <1>1, <1>2, <1>3 DEF Ranked

\* One insert per file.
LEMMA RankedInserts ==
  ASSUME NEW n \in {3, 6}, NEW rows, IsFiniteSet(FilesOf(rows)),
         n = 3 => TypedEdges(rows), n = 6 => EdgesIn(rows)
  PROVE  LET table == IF n = 3 THEN "raw_edge" ELSE "calls"
             q == InsertByFile(table, rows)
         IN  /\ Ranked(q, n, n)
             /\ \A t : Writes(q, t) = IF t = table THEN rows ELSE {}
<1> DEFINE table == IF n = 3 THEN "raw_edge" ELSE "calls"
           q == InsertByFile(table, rows)
<1>1. /\ IsSeq(q)
      /\ \A s \in ToSet(q) : \E S \in SUBSET rows : s = Checked(Insert(table, S))
      /\ \A r \in rows : \E S : r \in S /\ Checked(Insert(table, S)) \in ToSet(q)
  BY ByFileStatements
<1>2. table \in Tables
  BY DEF Tables
<1> HIDE DEF q
<1>3. ASSUME NEW s \in ToSet(q)
      PROVE  /\ Phase2Stmt(n, s) /\ s.op = "insert" /\ s.table = table /\ s.rows \subseteq rows
  <2>1. PICK S \in SUBSET rows : s = Checked(Insert(table, S))
    BY <1>1
  <2>2. /\ Shape(s) /\ s.op = "insert" /\ s.table = table /\ s.rows = S
    BY <1>2, <2>1, CheckedFields
  <2>3. CASE n = 3
    BY <2>2, <2>3 DEF Phase2Stmt, On, TypedEdges
  <2>4. CASE n = 6
    BY <2>2, <2>4 DEF Phase2Stmt, On, EdgesIn
  <2> QED
    BY <2>2, <2>3, <2>4
<1>4. EdgesInOrder(q)
  BY <1>3, PrecedesIn, RankOrder DEF EdgesInOrder
<1>5. Ranked(q, n, n)
  BY <1>1, <1>3, <1>4 DEF Ranked
<1>6. ASSUME NEW r \in rows PROVE r \in Writes(q, table)
  <2>1. PICK S : r \in S /\ Checked(Insert(table, S)) \in ToSet(q)
    BY <1>1
  <2>2. /\ Checked(Insert(table, S)).op = "insert" /\ Checked(Insert(table, S)).table = table
        /\ Checked(Insert(table, S)).rows = S
    BY <1>2, CheckedFields
  <2> QED
    BY <2>1, <2>2 DEF Writes
<1>7. \A t : Writes(q, t) = IF t = table THEN rows ELSE {}
  BY <1>3, <1>6 DEF Writes
<1> QED
  BY <1>5, <1>7 DEF q

\* The calls rows of some raw edges and the stamp behind them.
CallsPart(raw) ==
    InsertByFile("calls", resolve_raw_edges(db.symbol, raw)) \o StampEdgesResolved

LEMMA CallsPartIs ==
  ASSUME NEW raw, EdgesIn(raw)
  PROVE  /\ Ranked(CallsPart(raw), 6, 7) /\ Stamp \in ToSet(CallsPart(raw))
         /\ Writes(CallsPart(raw), "calls") = resolve_raw_edges(db.symbol, raw)
         /\ Writes(CallsPart(raw), "raw_edge") = {}
<1> DEFINE rows == resolve_raw_edges(db.symbol, raw)
           b == InsertByFile("calls", rows)
<1>1. IsFiniteSet(FilesOf(rows))
  BY ResolvedFiles
<1>2. EdgesIn(rows)
  BY DEF EdgesIn, resolve_raw_edges
<1> HIDE DEF rows
<1>3. Ranked(b, 6, 6) /\ \A t : Writes(b, t) = IF t = "calls" THEN rows ELSE {}
  BY <1>1, <1>2, RankedInserts
<1>4. StampEdgesResolved = <<Stamp>>
  BY DEF StampEdgesResolved, Stamp
<1>5. Phase2Stmt(7, Stamp) /\ Stamp.op = "meta"
  BY MarksMeta DEF Phase2Stmt
<1>6. Ranked(<<Stamp>>, 7, 7) /\ ToSet(<<Stamp>>) = {Stamp} /\ \A t : Writes(<<Stamp>>, t) = {}
  BY <1>5, RankedOne
<1> HIDE DEF b
<1> DEFINE x == <<Stamp>>
<1> HIDE DEF x
<1>r. 6 \in 1..7 /\ 7 \in 1..7 /\ 6 <= 6 /\ 6 < 7 /\ 7 <= 7 /\ Ranked(b, 6, 6) /\ Ranked(x, 7, 7)
  BY <1>3, <1>6 DEF x
<1>c. /\ Ranked(b \o x, 6, 7) /\ ToSet(b \o x) = ToSet(b) \cup ToSet(x)
      /\ \A t : Writes(b \o x, t) = Writes(b, t) \cup Writes(x, t)
  BY ONLY <1>r, RankedConcat
<1>7. /\ Ranked(b \o <<Stamp>>, 6, 7) /\ Stamp \in ToSet(b \o <<Stamp>>)
      /\ \A t : Writes(b \o <<Stamp>>, t) = IF t = "calls" THEN rows ELSE {}
  BY <1>3, <1>6, <1>c DEF x
<1>8. CallsPart(raw) = b \o <<Stamp>>
  BY <1>4 DEF CallsPart, b, rows
<1> QED
  BY <1>7, <1>8 DEF rows

\* The rows are replaced: a delete comes first.
LEMMA ReplacesCalls ==
  ASSUME NEW raw, EdgesIn(raw), NEW h, Shape(h), On(h, "calls"), h.op = "delete"
  PROVE  LET q == <<h>> \o CallsPart(raw)
         IN  /\ Ranked(q, 5, 7) /\ Stamp \in ToSet(q) /\ h \in ToSet(q)
             /\ Writes(q, "calls") = resolve_raw_edges(db.symbol, raw)
             /\ Writes(q, "raw_edge") = {}
             /\ \A f : Deletes(q, "calls", f) <=> f \in h.files
<1> DEFINE c == CallsPart(raw)
           q == <<h>> \o c
<1>1. /\ Ranked(c, 6, 7) /\ Stamp \in ToSet(c)
      /\ Writes(c, "calls") = resolve_raw_edges(db.symbol, raw)
      /\ Writes(c, "raw_edge") = {}
  BY CallsPartIs
<1>2. Phase2Stmt(5, h)
  BY DEF Phase2Stmt
<1>3. Ranked(<<h>>, 5, 5) /\ ToSet(<<h>>) = {h} /\ \A t : Writes(<<h>>, t) = {}
  BY <1>2, RankedOne
<1> HIDE DEF c
<1> DEFINE x == <<h>>
<1> HIDE DEF x
<1>r. 5 \in 1..7 /\ 6 \in 1..7 /\ 7 \in 1..7 /\ 5 <= 5 /\ 5 < 6 /\ 6 <= 7 /\ Ranked(x, 5, 5)
      /\ Ranked(c, 6, 7)
  BY <1>1, <1>3 DEF x
<1>c. /\ Ranked(x \o c, 5, 7) /\ ToSet(x \o c) = ToSet(x) \cup ToSet(c)
      /\ \A t : Writes(x \o c, t) = Writes(x, t) \cup Writes(c, t)
  BY ONLY <1>r, RankedConcat
<1>4. /\ Ranked(q, 5, 7) /\ ToSet(q) = {h} \cup ToSet(c)
      /\ \A t : Writes(q, t) = Writes(c, t)
  BY <1>3, <1>c DEF x
<1>5. \A s \in ToSet(c) : s.op # "delete"
  <2>1. \A s \in ToSet(c) : Phase2Stmt(6, s) \/ Phase2Stmt(7, s)
    <3>1. \A n \in 6..7 : n = 6 \/ n = 7
      OBVIOUS
    <3> QED
      BY <1>1, <3>1 DEF Ranked
  <2> QED
    BY <2>1, MarksMeta DEF Phase2Stmt
<1>6. \A f : Deletes(q, "calls", f) <=> f \in h.files
  BY <1>4, <1>5 DEF Deletes, On
<1> HIDE DEF q
<1>7. /\ Ranked(q, 5, 7) /\ Stamp \in ToSet(q) /\ h \in ToSet(q)
      /\ Writes(q, "calls") = resolve_raw_edges(db.symbol, raw)
      /\ Writes(q, "raw_edge") = {}
      /\ \A f : Deletes(q, "calls", f) <=> f \in h.files
  BY <1>1, <1>4, <1>6
<1> QED
  BY <1>7 DEF q, c

\* resolve_edges_phase2 replaces all calls rows.
LEMMA FullPassIs ==
  ASSUME NEW raw, EdgesIn(raw)
  PROVE  LET q == resolve_edges_phase2(raw)
         IN  /\ Ranked(q, 5, 7) /\ Stamp \in ToSet(q)
             /\ Writes(q, "calls") = resolve_raw_edges(db.symbol, raw)
             /\ Writes(q, "raw_edge") = {}
             /\ \A f : Deletes(q, "calls", f) <=> f \in Files
             /\ Tail(q) = CallsPart(raw)
<1> DEFINE h == Delete("calls", Files)
           b == InsertByFile("calls", resolve_raw_edges(db.symbol, raw))
           c == CallsPart(raw)
<1>1. Shape(h) /\ On(h, "calls") /\ h.op = "delete" /\ h.files = Files
  BY DeleteFields DEF On, Tables
<1>2. LET q == <<h>> \o CallsPart(raw)
      IN  /\ Ranked(q, 5, 7) /\ Stamp \in ToSet(q)
          /\ Writes(q, "calls") = resolve_raw_edges(db.symbol, raw)
          /\ Writes(q, "raw_edge") = {}
          /\ \A f : Deletes(q, "calls", f) <=> f \in Files
  BY <1>1, ReplacesCalls
<1>3. IsSeq(b) /\ IsSeq(StampEdgesResolved) /\ IsSeq(<<h>>)
  BY ResolvedFiles, ByFileStatements, OneSeq DEF StampEdgesResolved
<1>4. IsSeq(c)
  BY CallsPartIs DEF Ranked
<1>5. resolve_edges_phase2(raw) = (<<h>> \o b) \o StampEdgesResolved /\ c = b \o StampEdgesResolved
  BY DEF resolve_edges_phase2, CallsPart
<1> HIDE DEF h, b, c
<1>6. (<<h>> \o b) \o StampEdgesResolved = <<h>> \o (b \o StampEdgesResolved)
  <2> DEFINE T == (ToSet(<<h>>) \cup ToSet(b)) \cup ToSet(StampEdgesResolved)
  <2>1. <<h>> \in Seq(T) /\ b \in Seq(T) /\ StampEdgesResolved \in Seq(T)
    BY <1>3 DEF IsSeq
  <2> HIDE DEF T
  <2> QED
    BY <2>1
<1>7. resolve_edges_phase2(raw) = <<h>> \o c
  BY <1>5, <1>6
<1>8. Tail(<<h>> \o c) = c
  <2> DEFINE T == {h} \cup ToSet(c)
  <2>1. h \in T /\ c \in Seq(T)
    BY <1>4 DEF IsSeq
  <2> HIDE DEF T
  <2> QED
    BY <2>1
<1>9. /\ Ranked(<<h>> \o c, 5, 7) /\ Stamp \in ToSet(<<h>> \o c)
      /\ Writes(<<h>> \o c, "calls") = resolve_raw_edges(db.symbol, raw)
      /\ Writes(<<h>> \o c, "raw_edge") = {}
      /\ \A f : Deletes(<<h>> \o c, "calls", f) <=> f \in Files
  BY <1>2 DEF c
<1> QED
  BY <1>7, <1>8, <1>9 DEF c

\* reresolve_files replaces the calls rows of the resolve set.
LEMMA ScopedPassIs ==
  ASSUME EdgesIn(db.raw_edge), NEW resolve_set
  PROVE  LET q == reresolve_statements(resolve_set)
         IN  /\ Ranked(q, 5, 7) /\ Stamp \in ToSet(q)
             /\ Writes(q, "calls") = resolve_raw_edges(db.symbol,
                                        {e \in db.raw_edge : e.file \in resolve_set})
             /\ Writes(q, "raw_edge") = {}
             /\ \A f : Deletes(q, "calls", f) <=> f \in resolve_set
<1> DEFINE raw == {e \in db.raw_edge : e.file \in resolve_set}
           h == Checked(Delete("calls", resolve_set))
           b == InsertByFile("calls", resolve_raw_edges(db.symbol, raw))
           c == CallsPart(raw)
<1>1. Shape(h) /\ On(h, "calls") /\ h.op = "delete" /\ h.files = resolve_set
  BY CheckedFields DEF On, Tables
<1>2. EdgesIn(raw)
  BY DEF EdgesIn
<1>3. IsSeq(b) /\ IsSeq(StampEdgesResolved) /\ IsSeq(<<h>>)
  BY <1>2, ResolvedFiles, ByFileStatements, OneSeq DEF StampEdgesResolved
<1>4. reresolve_statements(resolve_set) = (<<h>> \o b) \o StampEdgesResolved
      /\ c = b \o StampEdgesResolved
  BY DEF reresolve_statements, CallsPart
<1> HIDE DEF h, raw
<1>5. LET q == <<h>> \o CallsPart(raw)
      IN  /\ Ranked(q, 5, 7) /\ Stamp \in ToSet(q)
          /\ Writes(q, "calls") = resolve_raw_edges(db.symbol, raw)
          /\ Writes(q, "raw_edge") = {}
          /\ \A f : Deletes(q, "calls", f) <=> f \in resolve_set
  BY <1>1, <1>2, ReplacesCalls
<1> HIDE DEF b, c
<1>6. (<<h>> \o b) \o StampEdgesResolved = <<h>> \o (b \o StampEdgesResolved)
  <2> DEFINE T == (ToSet(<<h>>) \cup ToSet(b)) \cup ToSet(StampEdgesResolved)
  <2>1. <<h>> \in Seq(T) /\ b \in Seq(T) /\ StampEdgesResolved \in Seq(T)
    BY <1>3 DEF IsSeq
  <2> HIDE DEF T
  <2> QED
    BY <2>1
<1>7. reresolve_statements(resolve_set) = <<h>> \o CallsPart(raw)
  BY <1>4, <1>6 DEF c
<1> QED
  BY <1>5, <1>7 DEF raw

\* heal_edges writes the raw edges again, then all calls rows.
LEMMA HealIs ==
  ASSUME DOMAIN disk = Files, \A f \in Files : disk[f] # Absent => disk[f].content \in Contents,
         NEW unreadable
  PROVE  LET q == heal_edges(unreadable)
             raw == UNION {EdgesOf[f][disk[f].content] : f \in (Stored \cap OnDisk) \ unreadable}
         IN  /\ Ranked(q, 1, 7) /\ {HealClear, RawMark, Stamp} \subseteq ToSet(q)
             /\ Writes(q, "calls") = resolve_raw_edges(db.symbol, raw)
             /\ Writes(q, "raw_edge") = raw /\ TypedEdges(raw)
             /\ \A f \in Files : Deletes(q, "calls", f) /\ Deletes(q, "raw_edge", f)
<1> DEFINE readable == (Stored \cap OnDisk) \ unreadable
           raw == UNION {EdgesOf[f][disk[f].content] : f \in readable}
           h == Delete("raw_edge", Files)
           a == <<HealClear, h>>
           b == InsertByFile("raw_edge", raw)
           c == <<RawMark>>
           d == resolve_edges_phase2(raw)
<1>1. TypedEdges(raw)
  <2>1. ASSUME NEW e \in raw PROVE e.file \in Files /\ e.probes \in Seq(Nat)
    <3>1. PICK f \in readable : e \in EdgesOf[f][disk[f].content]
      OBVIOUS
    <3>2. f \in Files /\ disk[f].content \in Contents
      BY DEF OnDisk
    <3> QED
      BY <3>1, <3>2, PipelineAssumption, RowAssumption
  <2> HIDE DEF raw
  <2> QED
    BY <2>1 DEF TypedEdges
<1>2. EdgesIn(raw)
  BY <1>1 DEF EdgesIn, TypedEdges
<1>3. IsFiniteSet(FilesOf(raw))
  <2>1. FilesOf(raw) \subseteq Files
    BY <1>2 DEF FilesOf, EdgesIn
  <2> QED
    BY <2>1, FS_Subset, PipelineAssumption
<1>4. heal_edges(unreadable) = ((a \o b) \o c) \o d
  BY DEF heal_edges, HealClear, RawMark
<1> HIDE DEF raw, readable
<1>5. Ranked(b, 3, 3) /\ Writes(b, "raw_edge") = raw /\ Writes(b, "calls") = {}
  BY <1>1, <1>3, RankedInserts
<1>6. /\ Ranked(d, 5, 7) /\ Stamp \in ToSet(d)
      /\ Writes(d, "calls") = resolve_raw_edges(db.symbol, raw) /\ Writes(d, "raw_edge") = {}
      /\ \A f : Deletes(d, "calls", f) <=> f \in Files
  BY <1>2, FullPassIs
<1>7. Ranked(c, 4, 4) /\ ToSet(c) = {RawMark} /\ \A t : Writes(c, t) = {}
  <2>1. Phase2Stmt(4, RawMark) /\ RawMark.op = "meta"
    BY MarksMeta DEF Phase2Stmt
  <2> QED
    BY <2>1, RankedOne
<1>8. Ranked(a, 1, 2) /\ ToSet(a) = {HealClear, h} /\ \A t : Writes(a, t) = {}
  <2> DEFINE x == <<HealClear>>
             y == <<h>>
  <2>1. Phase2Stmt(1, HealClear) /\ HealClear.op = "meta"
    BY MarksMeta DEF Phase2Stmt
  <2>2. Phase2Stmt(2, h) /\ h.op = "delete"
    BY DeleteFields DEF Phase2Stmt, On, Tables
  <2>3. Ranked(x, 1, 1) /\ ToSet(x) = {HealClear} /\ \A t : Writes(x, t) = {}
    BY <2>1, RankedOne
  <2> HIDE DEF h
  <2>4. Ranked(y, 2, 2) /\ ToSet(y) = {h} /\ \A t : Writes(y, t) = {}
    BY <2>2, RankedOne
  <2>5. a = x \o y
    OBVIOUS
  <2> HIDE DEF x, y, a
  <2>6. 1 \in 1..7 /\ 2 \in 1..7 /\ 1 <= 1 /\ 1 < 2 /\ 2 <= 2
    OBVIOUS
  <2>7. /\ Ranked(x \o y, 1, 2) /\ ToSet(x \o y) = ToSet(x) \cup ToSet(y)
        /\ \A t : Writes(x \o y, t) = Writes(x, t) \cup Writes(y, t)
    BY ONLY <2>3, <2>4, <2>6, RankedConcat
  <2> QED
    BY <2>3, <2>4, <2>5, <2>7
<1>n. /\ \A n \in 1..7 : n \in 1..7 /\ n <= n
      /\ 1 \in 1..7 /\ 2 \in 1..7 /\ 3 \in 1..7 /\ 4 \in 1..7 /\ 5 \in 1..7 /\ 7 \in 1..7
      /\ 1 <= 2 /\ 2 < 3 /\ 3 <= 3 /\ 1 <= 3 /\ 3 < 4 /\ 4 <= 4 /\ 1 <= 4 /\ 4 < 5 /\ 5 <= 7
  OBVIOUS
<1> HIDE DEF a, b, c, d, h
<1>9. /\ Ranked(a \o b, 1, 3) /\ ToSet(a \o b) = ToSet(a) \cup ToSet(b)
      /\ \A t : Writes(a \o b, t) = Writes(a, t) \cup Writes(b, t)
  BY ONLY <1>5, <1>8, <1>n, RankedConcat
<1> DEFINE ab == a \o b
           abc == ab \o c
<1> HIDE DEF ab
<1>10. /\ Ranked(ab \o c, 1, 4) /\ ToSet(ab \o c) = ToSet(ab) \cup ToSet(c)
       /\ \A t : Writes(ab \o c, t) = Writes(ab, t) \cup Writes(c, t)
  <2>1. Ranked(ab, 1, 3)
    BY <1>9 DEF ab
  <2> QED
    BY ONLY <1>7, <2>1, <1>n, RankedConcat
<1> HIDE DEF abc
<1>11. /\ Ranked(abc \o d, 1, 7) /\ ToSet(abc \o d) = ToSet(abc) \cup ToSet(d)
       /\ \A t : Writes(abc \o d, t) = Writes(abc, t) \cup Writes(d, t)
  <2>1. Ranked(abc, 1, 4)
    BY <1>10 DEF abc
  <2> QED
    BY ONLY <1>6, <2>1, <1>n, RankedConcat
<1>12. heal_edges(unreadable) = abc \o d
  BY <1>4 DEF abc, ab
<1>13. ToSet(abc \o d) = ((ToSet(a) \cup ToSet(b)) \cup ToSet(c)) \cup ToSet(d)
  BY <1>9, <1>10, <1>11 DEF abc, ab
<1>14. \A t : Writes(abc \o d, t) =
                 ((Writes(a, t) \cup Writes(b, t)) \cup Writes(c, t)) \cup Writes(d, t)
  BY <1>9, <1>10, <1>11 DEF abc, ab
<1>15. /\ Writes(abc \o d, "calls") = resolve_raw_edges(db.symbol, raw)
       /\ Writes(abc \o d, "raw_edge") = raw
  BY <1>5, <1>6, <1>7, <1>8, <1>14
<1>16. \A f \in Files : Deletes(abc \o d, "calls", f) /\ Deletes(abc \o d, "raw_edge", f)
  <2>1. h \in ToSet(abc \o d) /\ h.op = "delete" /\ h.table = "raw_edge" /\ h.files = Files
    BY <1>8, <1>13, DeleteFields DEF h, Tables
  <2>2. \A f \in Files : Deletes(abc \o d, "raw_edge", f)
    BY <2>1 DEF Deletes
  <2>3. \A f \in Files : Deletes(abc \o d, "calls", f)
    BY <1>6, <1>13 DEF Deletes
  <2> QED
    BY <2>2, <2>3
<1>17. {HealClear, RawMark, Stamp} \subseteq ToSet(abc \o d)
  BY <1>6, <1>7, <1>8, <1>13
<1> QED
  BY <1>1, <1>11, <1>12, <1>15, <1>16, <1>17 DEF raw, readable

-----------------------------------------------------------------------------
(* The steps                                                               *)

TrustInv == EdgeInv /\ RawInv /\ CallsInv

\* The tables and markers, and what the invariants say without their shorthands.
LEMMA SoundIs ==
  /\ EdgesSound <=> (Resolved /\ Complete => db.calls = resolve_raw_edges(db.symbol, db.raw_edge))
  /\ EdgesSound' <=> (Resolved' /\ Complete' =>
                         db'.calls = resolve_raw_edges(db'.symbol, db'.raw_edge))
BY DEF EdgesSound, Resolved, Complete

LEMMA TrustInit ==
  ASSUME Init
  PROVE  TrustInv
<1>1. /\ pc = "idle" /\ ops = <<>> /\ buf = NoBuf /\ job = NoJob
      /\ db.calls = {} /\ db.raw_edge = {} /\ db.file_meta = {}
      /\ ~Complete /\ ~Resolved
  BY DEF Init, Tables, Complete, Resolved
<1>2. ToSet(ops) = {} /\ DOMAIN ops = {}
  BY <1>1, NoSeq
<1>3. \A t : Issued(t) = {}
  BY <1>2 DEF Issued
<1>4. buf.raw_edge = {} /\ job.process = {} /\ job.mode = "none"
  BY <1>1 DEF NoBuf, NoJob
<1>5. {"heal", "soft"} \subseteq DOMAIN used /\ used.heal = 0 /\ used.soft = 0
  BY DEF Init
<1>6. EdgeInv
  BY <1>1, <1>2, <1>4, <1>5 DEF EdgeInv, EdgeTypes, EdgeStmts, EdgeMarks, Precedes, EdgesIn, TypedEdges
<1>7. RawInv
  BY <1>1, <1>3, <1>4 DEF RawInv, RawWhole, RawOn, RawUntouched, RawBehind, RawRemoving
<1>8. CallsInv
  BY <1>1, <1>4, SoundIs DEF CallsInv, CallsCleared, CallsRemoved, CallsRemembered
<1> QED
  BY <1>6, <1>7, <1>8 DEF TrustInv

\* A run that ends leaves the tables as they are and at most takes markers away.
LEMMA TrustEnds ==
  ASSUME SpaceInv, CommitInv, TrustInv, ClearRun, disk' = disk, DbShape(db'),
         \A t \in Tables : db'[t] = db[t],
         \A k \in {"raw_edge_complete", "edges_resolved"} :
            db'.index_meta[k] \in {db.index_meta[k], FALSE},
         torn' = torn \cup MidDelete,
         {"heal", "soft"} \subseteq DOMAIN used', used'.heal \in Nat, used'.soft \in Nat,
         used'.heal = 0 => used.heal = 0, Heeded' => Heeded
  PROVE  TrustInv'
<1>1. pc' = "idle" /\ ops' = <<>> /\ buf' = NoBuf /\ job' = NoJob /\ skipped'.permanent = {}
  BY DEF ClearRun
<1>2. ToSet(ops') = {} /\ DOMAIN ops' = {} /\ IsSeq(ops')
  BY <1>1, NoSeq
<1>3. \A t : Issued(t)' = {}
  BY <1>2 DEF Issued
<1>4. /\ buf'.raw_edge = {} /\ buf'.file_meta = {} 
      /\ job'.process = {} /\ job'.mode = "none"
  BY <1>1 DEF NoBuf, NoJob
<1>5. /\ db'.raw_edge = db.raw_edge /\ db'.calls = db.calls /\ db'.file_meta = db.file_meta
      /\ db'.symbol = db.symbol
  BY DEF Tables
<1>6. (Complete' => Complete) /\ (Resolved' => Resolved)
  BY DEF Complete, Resolved
<1>7. EdgeInv'
  BY <1>1, <1>2, <1>4, <1>5
  DEF TrustInv, EdgeInv, EdgeTypes, EdgeStmts, EdgeMarks, Precedes, EdgesIn, TypedEdges
<1>8. Metas' = db.file_meta /\ db.file_meta \subseteq Metas
  BY <1>1, <1>3, <1>4, <1>5 DEF Metas
<1>9. RawRows' = db.raw_edge
  BY <1>1, <1>3, <1>4, <1>5 DEF RawRows
<1>10. ASSUME used.heal = 0, Complete, NEW m \in db.file_meta
       PROVE  {e \in db.raw_edge : e.file = m.file} = {e \in RawRows : e.file = m.file}
  <2>1. CASE pc # "phase2"
    <3>1. \A e \in Issued("raw_edge") \cup buf.raw_edge : e.file # m.file
      BY <1>10, <2>1 DEF TrustInv, RawInv, RawBehind
    <3> QED
      BY <2>1, <3>1 DEF RawRows
  <2>2. CASE pc = "phase2"
    <3>1. \A s \in ToSet(ops) : ~On(s, "raw_edge")
      BY <1>10, <2>2 DEF TrustInv, EdgeInv, EdgeMarks
    <3>2. Issued("raw_edge") = {} /\ \A f : ~Deletes(ops, "raw_edge", f)
      BY <3>1 DEF Issued, Deletes, On
    <3>3. buf.raw_edge = {}
      BY <2>2 DEF CommitInv, CommitTypes, NoBuf
    <3> QED
      BY <3>2, <3>3 DEF RawRows
  <2> QED
    BY <2>1, <2>2
<1>11. MidDelete' = {}
  BY <1>1 DEF MidDelete
<1>12. RawInv'
  <2>1. ASSUME used'.heal = 0, Complete', NEW m \in Metas', m.file \notin torn' \cup MidDelete',
               m.stamp = disk'[m.file]
        PROVE  {e \in RawRows' : e.file = m.file} = EdgesOf[m.file][m.stamp.content]
    <3>1. used.heal = 0 /\ Complete /\ m \in db.file_meta /\ m \in Metas
          /\ m.file \notin torn \cup MidDelete
      BY <1>6, <1>8, <2>1
    <3>2. {e \in RawRows : e.file = m.file} = EdgesOf[m.file][m.stamp.content]
      BY <2>1, <3>1 DEF TrustInv, RawInv, RawWhole, RawOn
    <3> QED
      BY <1>9, <1>10, <3>1, <3>2
  <2>2. RawOn' => Complete'
    BY <1>1, <1>4 DEF RawOn
  <2> QED
    BY <1>1, <1>3, <1>4, <2>1, <2>2
    DEF RawInv, RawWhole, RawUntouched, RawBehind, RawRemoving
<1>13. CallsInv'
  BY <1>1, <1>4, <1>5, <1>6, SoundIs
  DEF TrustInv, CallsInv, CallsCleared, CallsRemoved, CallsRemembered
<1> QED
  BY <1>7, <1>12, <1>13 DEF TrustInv

LEMMA TrustEndSteps ==
  ASSUME SpaceInv, CommitInv, TrustInv,
         StatementFails \/ PreflightFails \/ AbortStream \/ Crash \/ Finish
            \/ CancelBeforeRebuild \/ CancelBeforeStatement
  PROVE  TrustInv'
<1> DEFINE rolled == Perform(db, Meta([identity |-> None, edges_resolved |-> FALSE]))
           Left(d) == /\ DbShape(d) /\ \A t \in Tables : d[t] = db[t]
                      /\ \A k \in {"raw_edge_complete", "edges_resolved"} :
                            d.index_meta[k] \in {db.index_meta[k], FALSE}
           Paid(u) == /\ {"heal", "soft"} \subseteq DOMAIN u /\ u.heal \in Nat /\ u.soft \in Nat
                      /\ u.heal = 0 => used.heal = 0
                      /\ u.soft = 0 => used.soft = 0
<1>1. DbShape(db)
  BY DEF SpaceInv, SpaceTypes
<1>2. ASSUME NEW d, Left(d), NEW m,
             \A k \in DOMAIN m : k \in {"raw_edge_complete", "edges_resolved"} => m[k] = FALSE
      PROVE  Left(Perform(d, Meta(m)))
  <2>1. Meta(m).op = "meta" /\ Meta(m).rows = m
    BY MetaFields
  <2>2. /\ DbShape(Perform(d, Meta(m)))
        /\ \A t \in Tables : Perform(d, Meta(m))[t] = d[t]
        /\ \A k \in MetaKeys : Perform(d, Meta(m)).index_meta[k] =
               IF k \in DOMAIN m THEN m[k] ELSE d.index_meta[k]
    BY <1>2, <2>1, PerformMeta
  <2>3. {"raw_edge_complete", "edges_resolved"} \subseteq MetaKeys
    BY DEF MetaKeys
  <2> QED
    BY <1>2, <2>2, <2>3
<1>3. Left(db) /\ Left(rolled) /\ \A d : Left(d) => Left(Perform(d, Meta([needs_rebuild |-> TRUE])))
  <2> DEFINE A == [identity |-> None, edges_resolved |-> FALSE]
             B == [needs_rebuild |-> TRUE]
  <2>1. /\ DOMAIN A = {"identity", "edges_resolved"} /\ A["edges_resolved"] = FALSE
        /\ DOMAIN B = {"needs_rebuild"}
    OBVIOUS
  <2>2. Left(db)
    BY <1>1
  <2> HIDE DEF A, B, Left
  <2>3. Left(Perform(db, Meta(A))) /\ \A d : Left(d) => Left(Perform(d, Meta(B)))
    BY <1>2, <2>1, <2>2
  <2> QED
    BY <2>2, <2>3 DEF A, B
<1>4. /\ Paid(used) /\ Paid(Spend("errors")) /\ Paid(Spend("fatal")) /\ Paid(Spend("crashes"))
      /\ \A u : Paid(u) => Paid([u EXCEPT !.soft = @ + 1])
  <2>1. Paid(used)
    BY DEF TrustInv, EdgeInv, EdgeTypes
  <2>2. ASSUME NEW k \in {"errors", "fatal", "crashes"} PROVE Paid(Spend(k))
    BY <2>1 DEF Spend
  <2>3. ASSUME NEW u, Paid(u) PROVE Paid([u EXCEPT !.soft = @ + 1])
    BY <2>3
  <2> HIDE DEF Paid
  <2> QED
    BY <2>1, <2>2, <2>3
<1> HIDE DEF Left, rolled, Paid
<1>5. ASSUME ClearRun, disk' = disk, Left(db'), torn' = torn \cup MidDelete, Paid(used')
      PROVE  TrustInv'
  BY <1>5, TrustEnds DEF Left, Paid, Heeded
<1>6. ASSUME NEW d, Left(d), NEW isFatal, NEW u, Paid(u), Fail(d, isFatal, u) PROVE TrustInv'
  <2>1. /\ ClearRun /\ disk' = disk /\ torn' = torn \cup MidDelete
        /\ db' \in {d, Perform(d, Meta([needs_rebuild |-> TRUE]))}
        /\ used' \in {u, [u EXCEPT !.soft = @ + 1]}
    BY <1>6 DEF Fail
  <2>2. Left(db') /\ Paid(used')
    BY <1>3, <1>4, <1>6, <2>1
  <2> QED
    BY <1>5, <2>1, <2>2
<1>7. ASSUME ClearRun, UNCHANGED <<disk, db, torn, used>>, MidDelete = {} PROVE TrustInv'
  BY <1>3, <1>4, <1>5, <1>7
<1>8. pc # "begin" => MidDelete = {}
  BY DEF MidDelete
<1>9. CASE StatementFails
  <2>1. Fail(IF pc = "commit" /\ Head(ops).op = "meta" THEN rolled ELSE db, FALSE, Spend("errors"))
    BY <1>9 DEF StatementFails, rolled
  <2>2. CASE pc = "commit" /\ Head(ops).op = "meta"
    BY <1>3, <1>4, <1>6, <2>1, <2>2
  <2>3. CASE ~(pc = "commit" /\ Head(ops).op = "meta")
    BY <1>3, <1>4, <1>6, <2>1, <2>3
  <2> QED
    BY <2>2, <2>3
<1>10. CASE PreflightFails
  BY <1>3, <1>4, <1>6, <1>10 DEF PreflightFails
<1>11. CASE AbortStream
  BY <1>3, <1>4, <1>6, <1>7, <1>8, <1>11 DEF AbortStream, Cancelled
<1>12. CASE Crash
  BY <1>3, <1>4, <1>5, <1>12 DEF Crash
<1>13. CASE Finish \/ CancelBeforeRebuild
  BY <1>7, <1>8, <1>13 DEF Finish, CancelBeforeRebuild, Cancelled
<1>14. CASE CancelBeforeStatement
  <2>1. ops # <<>> /\ Head(ops).check
    BY <1>14 DEF CancelBeforeStatement
  <2>2. PhaseStmt(Head(ops))
    BY <2>1, TailSeq DEF CommitInv, CommitStmts
  <2>3. pc # "begin"
    BY <2>1, <2>2 DEF PhaseStmt
  <2> QED
    BY <1>7, <1>8, <1>14, <2>3 DEF CancelBeforeStatement, Cancelled
<1> QED
  BY <1>9, <1>10, <1>11, <1>12, <1>13, <1>14

\* Steps that leave the tables, the statements and the buffers alone.
Spent(u) == /\ {"heal", "soft"} \subseteq DOMAIN u
            /\ u.heal = used.heal /\ u.soft = used.soft

LEMMA SpentOther ==
  ASSUME TrustInv, NEW k \in {"edits", "crashes", "errors", "fatal", "requests"}
  PROVE  Spent(Spend(k)) /\ Spent(used)
BY DEF Spent, Spend, TrustInv, EdgeInv, EdgeTypes

LEMMA TrustCalm ==
  ASSUME TrustInv, UNCHANGED <<db, pc, ops, job, buf>>, Spent(used'),
         used.heal = 0 => RawWhole' /\ RawUntouched',
         \A f \in Files : Reads(f)' => Reads(f)
  PROVE  TrustInv'
<1>1. /\ {"heal", "soft"} \subseteq DOMAIN used' /\ used'.heal \in Nat /\ used'.soft \in Nat
      /\ used'.heal = used.heal /\ used'.soft = used.soft
  BY DEF Spent, TrustInv, EdgeInv, EdgeTypes
<1>2. EdgeTypes'
  BY <1>1 DEF TrustInv, EdgeInv, EdgeTypes, EdgesIn, TypedEdges
<1>3. EdgeStmts'
  <2>1. \A s : EdgeStmt(s) => EdgeStmt(s)'
    BY DEF EdgeStmt
  <2>2. \A s, t : EdgeOrder(s, t) => EdgeOrder(s, t)'
    BY DEF EdgeOrder
  <2> QED
    BY <2>1, <2>2 DEF TrustInv, EdgeInv, EdgeStmts
<1>4. (Complete' <=> Complete) /\ (Resolved' <=> Resolved)
  BY DEF Complete, Resolved
<1>5. EdgeMarks'
  BY <1>4 DEF TrustInv, EdgeInv, EdgeMarks
<1>6. /\ \A t : Issued(t)' = Issued(t)
      /\ RawRows' = RawRows /\ CallRows' = CallRows /\ Affected' = Affected
      /\ \A f : SymbolRows(f)' = SymbolRows(f)
  BY DEF Issued, RawRows, CallRows, SymbolRows, Affected
<1>7. RawInv'
  BY <1>1, <1>6 DEF TrustInv, RawInv, RawBehind, RawRemoving
<1>8. CallsCleared <=> CallsCleared'
  BY <1>4, <1>6, SoundIs DEF CallsCleared
<1>9. CallsRemoved <=> CallsRemoved'
  BY <1>6 DEF CallsRemoved
<1>10. \A old, raw : Remember(old, raw) => Remember(old, raw)'
  BY <1>6 DEF Remember
<1>11. CallsRemembered => CallsRemembered'
  BY <1>4, <1>10 DEF CallsRemembered
<1> QED
  BY <1>1, <1>2, <1>3, <1>5, <1>7, <1>8, <1>9, <1>11 DEF TrustInv, EdgeInv, CallsInv, Heeded

LEMMA TrustEdit ==
  ASSUME SpaceInv, CommitInv, TrustInv, NEW f \in Files, Edit(f)
  PROVE  TrustInv'
<1>1. PICK w \in [stamp : {used.edits + 1}, content : Contents] \cup {Absent} :
         disk' = [disk EXCEPT ![f] = w]
  BY DEF Edit
<1>2. /\ UNCHANGED <<client, db, pc, ops, job, st, buf, skipped, torn>>
      /\ used.edits < MaxEdits /\ used' = Spend("edits")
  BY DEF Edit, runVars
<1>3. /\ DOMAIN disk = Files /\ disk'[f] = w /\ \A g \in Files : g # f => disk'[g] = disk[g]
  BY <1>1 DEF SpaceInv, SpaceTypes
<1>4. w # Absent => w.stamp = used.edits + 1
  BY <1>1
<1>5. /\ \A t : Issued(t)' = Issued(t)
      /\ RawRows' = RawRows /\ Metas' = Metas /\ MidDelete' = MidDelete
      /\ RawOn' => RawOn
  BY <1>2 DEF Issued, RawRows, Metas, MidDelete, Stored, RawOn, Complete
<1>6. ASSUME NEW m \in Metas, m.file \notin torn \cup MidDelete, m.stamp = disk'[m.file]
      PROVE  m.stamp = disk[m.file]
  <2>1. m.file \in Files
    BY DEF CommitInv, CommitTypes
  <2>2. PICK v \in Versions : Fits(m.file, m.stamp, v)
    BY <1>6 DEF CommitInv, Whole
  <2>3. m.stamp \in Versions /\ m.stamp.stamp <= v.stamp /\ v.stamp <= used.edits
    BY <2>2 DEF Fits
  <2>4. m.stamp.stamp \in Int /\ v.stamp \in Int /\ used.edits \in Int
    BY <2>3, PipelineAssumption DEF Versions, CommitInv, CommitTypes
  <2>5. m.stamp # Absent
    BY <2>3, PipelineAssumption DEF Versions
  <2>6. m.file # f
    BY <1>3, <1>4, <1>6, <2>3, <2>4, <2>5
  <2> QED
    BY <1>3, <1>6, <2>1, <2>6
<1>7. used.heal = 0 => RawWhole' /\ RawUntouched'
  BY <1>2, <1>5, <1>6 DEF TrustInv, RawInv, RawWhole, RawUntouched, Reads
<1> QED
  BY <1>2, <1>7, SpentOther, TrustCalm DEF Reads

LEMMA TrustAround ==
  ASSUME TrustInv, SwitchClient \/ RequestCancel \/ UNCHANGED vars
  PROVE  TrustInv'
<1>1. UNCHANGED <<disk, db, pc, job, st, buf, skipped, torn, ops>>
  BY DEF SwitchClient, RequestCancel, runVars, vars
<1>2. Spent(used')
  BY SpentOther DEF SwitchClient, RequestCancel, vars
<1>3. /\ RawRows' = RawRows /\ Metas' = Metas /\ MidDelete' = MidDelete
      /\ RawOn' => RawOn
  BY <1>1 DEF Issued, RawRows, Metas, MidDelete, Stored, RawOn, Complete
<1>4. used.heal = 0 => RawWhole' /\ RawUntouched'
  BY <1>1, <1>3 DEF TrustInv, RawInv, RawWhole, RawUntouched, Reads
<1> QED
  BY <1>1, <1>2, <1>4, TrustCalm DEF Reads

\* A file that is read has no raw edges yet, and one that is not text never has any.
LEMMA TrustReading ==
  ASSUME SpaceInv, CommitInv, TrustInv, NEW f \in Files,
         StatFile(f) \/ ReadAndEmbed(f) \/ TransientSkip(f) \/ FatalEmbed(f)
  PROVE  TrustInv'
<1>1. pc = "stream" /\ UNCHANGED <<disk, db, pc, job, ops, buf, torn>>
  BY DEF StatFile, ReadAndEmbed, TransientSkip, FatalEmbed, Streaming
<1>2. Spent(used')
  BY SpentOther DEF StatFile, ReadAndEmbed, TransientSkip, FatalEmbed
<1>3. /\ DOMAIN st = Files /\ DOMAIN st[f] = {"at", "stamp", "ver"}
      /\ DOMAIN skipped = {"retry", "permanent"}
  BY DEF SpaceInv, SpaceTypes
<1>4. st[f].at \in {"todo", "stat"}
  BY DEF StatFile, ReadAndEmbed, TransientSkip, FatalEmbed
<1> DEFINE row == [file |-> f, stamp |-> st[f].stamp]
<1>5. /\ \/ skipped'.permanent = skipped.permanent
         \/ /\ skipped'.permanent = skipped.permanent \cup {row}
            /\ disk[f] # Absent /\ disk[f].content \in Binary
      /\ \A g \in Files : g # f => st'[g] = st[g]
  <2>1. ASSUME SkipForRetry(f)
        PROVE  skipped'.permanent = skipped.permanent /\ \A g \in Files : g # f => st'[g] = st[g]
    BY <1>3, <2>1 DEF SkipForRetry
  <2>2. CASE StatFile(f)
    BY <1>3, <2>1, <2>2 DEF StatFile
  <2>3. CASE ReadAndEmbed(f)
    <3>1. CASE disk[f] = Absent
      BY <2>1, <2>3, <3>1 DEF ReadAndEmbed
    <3>2. CASE disk[f] # Absent /\ disk[f].content \in Binary
      <4>1. /\ skipped' = [skipped EXCEPT !.permanent = @ \cup {row}]
            /\ st' = [st EXCEPT ![f] = [NoStage EXCEPT !.at = "done"]]
        BY <2>3, <3>2 DEF ReadAndEmbed
      <4> HIDE DEF row
      <4> QED
        BY <1>3, <3>2, <4>1
    <3>3. CASE disk[f] # Absent /\ disk[f].content \notin Binary
      BY <1>3, <2>3, <3>3 DEF ReadAndEmbed
    <3> QED
      BY <3>1, <3>2, <3>3
  <2>4. CASE TransientSkip(f)
    BY <2>1, <2>4 DEF TransientSkip
  <2>5. CASE FatalEmbed(f)
    BY <1>3, <2>5 DEF FatalEmbed
  <2> QED
    BY <2>2, <2>3, <2>4, <2>5
<1>6. row.file = f /\ row.stamp = st[f].stamp
  OBVIOUS
<1> HIDE DEF row
<1>7. /\ \A t : Issued(t)' = Issued(t)
      /\ RawRows' = RawRows /\ MidDelete' = MidDelete /\ (RawOn' => RawOn)
  BY <1>1 DEF Issued, RawRows, MidDelete, Stored, RawOn, Complete
<1>8. \A m \in Metas' : m \in Metas \/ (m = row /\ disk[f] # Absent /\ disk[f].content \in Binary)
  BY <1>1, <1>5, <1>7 DEF Metas
<1>9. used.heal = 0 => \A e \in RawRows : e.file # f
  BY <1>1, <1>4 DEF TrustInv, RawInv, RawUntouched, Reads
<1>10. ASSUME used.heal = 0 PROVE RawWhole'
  <2>1. SUFFICES ASSUME RawOn', NEW m \in Metas', m.file \notin torn \cup MidDelete,
                        m.stamp = disk[m.file]
                 PROVE  {e \in RawRows : e.file = m.file} = EdgesOf[m.file][m.stamp.content]
    BY <1>1, <1>7 DEF RawWhole
  <2>2. CASE m \in Metas
    BY <1>7, <1>10, <2>1, <2>2 DEF TrustInv, RawInv, RawWhole
  <2>3. CASE m \notin Metas
    <3>1. m = row /\ m.file = f /\ m.stamp = disk[f] /\ disk[f].content \in Binary
      BY <1>6, <1>8, <2>1, <2>3
    <3>2. EdgesOf[f][disk[f].content] = {}
      BY <3>1, PipelineAssumption
    <3> QED
      BY <1>9, <1>10, <3>1, <3>2
  <2> QED
    BY <2>2, <2>3
<1>11. ASSUME used.heal = 0 PROVE RawUntouched'
  <2>1. ASSUME NEW g \in Files, st'[g].at \in {"todo", "stat", "embedded"}
        PROVE  \A e \in RawRows : e.file # g
    <3>1. CASE g = f
      BY <1>9, <1>11, <3>1
    <3>2. CASE g # f
      BY <1>1, <1>5, <1>11, <2>1, <3>2 DEF TrustInv, RawInv, RawUntouched, Reads
    <3> QED
      BY <3>1, <3>2
  <2> QED
    BY <1>7, <2>1 DEF RawUntouched, Reads
<1>12. \A g \in Files : Reads(g)' => Reads(g)
  BY <1>4, <1>5 DEF Reads
<1> QED
  BY <1>1, <1>2, <1>10, <1>11, <1>12, TrustCalm

\* A statement fails whose result is ignored: from then on the calls are not
\* vouched for, and the raw edges are not touched by such a statement.
LEMMA TrustSoftFails ==
  ASSUME SpaceInv, CommitInv, TrustInv, SoftStatementFails
  PROVE  TrustInv'
<1>1. /\ UNCHANGED <<disk, db, pc, job, st, buf, skipped, torn>>
      /\ ops # <<>> /\ Head(ops).soft /\ ops' = Tail(ops) /\ used' = Spend("soft")
  BY DEF SoftStatementFails, runVars
<1>2. IsSeq(ops) /\ IsSeq(ops') /\ Head(ops) \in ToSet(ops)
      /\ ToSet(ops) = {Head(ops)} \cup ToSet(ops')
  BY <1>1, TailSeq DEF CommitInv, CommitStmts
<1>3. Head(ops).op = "meta"
  BY <1>1, <1>2 DEF CommitInv, CommitStmts, PhaseStmt
<1>4. \A t : Issued(t)' = Issued(t)
  BY <1>1, <1>2, <1>3, IssuedTail
<1>5. \A t, f : Deletes(ops', t, f) <=> Deletes(ops, t, f)
  BY <1>2, <1>3 DEF Deletes
<1>6. \A s \in {HealClear, RawMark, Stamp, ClearMarkers} : s \in ToSet(ops) <=> s \in ToSet(ops')
  <2>1. \A s \in {HealClear, RawMark, Stamp, ClearMarkers} : s # Head(ops)
    BY <1>1, MarksMeta
  <2> QED
    BY <1>2, <2>1
<1>7. \A s : On(s, "raw_edge") => (s \in ToSet(ops) <=> s \in ToSet(ops'))
  BY <1>2, <1>3 DEF On
<1>8. /\ {"heal", "soft"} \subseteq DOMAIN used' /\ used'.heal = used.heal
      /\ used'.soft = used.soft + 1 /\ used'.soft \in Nat /\ used'.soft # 0
  BY <1>1 DEF TrustInv, EdgeInv, EdgeTypes, Spend
<1>9. EdgeTypes'
  BY <1>1, <1>8 DEF TrustInv, EdgeInv, EdgeTypes, EdgesIn, TypedEdges, Reads
<1>10. EdgeStmts'
  <2>1. \A s : EdgeStmt(s) => EdgeStmt(s)'
    BY <1>1 DEF EdgeStmt
  <2>2. \A s, t : EdgeOrder(s, t) => EdgeOrder(s, t)'
    BY <1>1 DEF EdgeOrder
  <2>3. \A s, t : Precedes(ops', s, t) => Precedes(ops, s, t)
    BY <1>1, <1>2, PrecedesTail
  <2> QED
    BY <1>2, <2>1, <2>2, <2>3 DEF TrustInv, EdgeInv, EdgeStmts
<1>11. Complete' <=> Complete
  BY <1>1 DEF Complete
<1>12. EdgeMarks'
  BY <1>1, <1>6, <1>7, <1>11 DEF TrustInv, EdgeInv, EdgeMarks
<1>13. /\ RawRows' = RawRows /\ Metas' = Metas /\ Affected' = Affected /\ (RawOn' => RawOn)
  BY <1>1, <1>4, <1>5, <1>6, <1>11 DEF RawRows, Metas, Affected, RawOn
<1>14. MidDelete' = MidDelete
  <2>1. Stored' = Stored
    BY <1>1 DEF Stored
  <2> QED
    BY <1>1, <1>5, <2>1, MidDeleteIs
<1>15. Delete("raw_edge", Affected) \in ToSet(ops) <=> Delete("raw_edge", Affected) \in ToSet(ops')
  BY <1>7, DeleteFields DEF On, Tables
<1>16. RawInv'
  BY <1>1, <1>4, <1>8, <1>13, <1>14, <1>15
  DEF TrustInv, RawInv, RawWhole, RawUntouched, Reads, RawBehind, RawRemoving
<1> QED
  BY <1>8, <1>9, <1>10, <1>12, <1>16 DEF TrustInv, EdgeInv, CallsInv, Heeded

\* The next statements are issued, none of which writes rows.
LEMMA TrustIssue ==
  ASSUME SpaceInv, CommitInv, TrustInv, CommitInv',
         UNCHANGED <<disk, db, buf, torn, skipped>>, Spent(used'),
         ops = <<>>, pc # "stream", pc' \notin {"stream", "phase2"},
         job'.process \cap job'.delete = {},
         \A s \in ToSet(ops') : s.op # "insert" /\ EdgeStmt(s)',
         \A s, t : Precedes(ops', s, t) => EdgeOrder(s, t)', EdgeMarks', RawRemoving',
         RawOn' => RawOn \/ Metas = {},
         RawUntouched'
  PROVE  /\ EdgeInv' /\ RawInv'
         /\ RawRows = db.raw_edge /\ RawRows' = db.raw_edge
         /\ \A f : /\ SymbolRows(f) = {s \in db.symbol : s.file = f}
                   /\ SymbolRows(f)' = {s \in db.symbol : s.file = f}
<1>1. ToSet(ops) = {}
  BY NoSeq
<1>2. \A t : Issued(t) = {} /\ Issued(t)' = {}
  BY <1>1 DEF Issued
<1>3. buf.raw_edge = {} /\ buf.symbol = {} /\ buf.file_meta = {}
  BY DEF CommitInv, CommitTypes, NoBuf
<1>4. RawRows = db.raw_edge /\ RawRows' = db.raw_edge
  BY <1>1, <1>2, <1>3 DEF RawRows, Deletes
<1>5. Metas' = Metas
  BY <1>2 DEF Metas
<1>6. MidDelete = {}
  BY <1>1, MidDeleteIs DEF Deletes
<1>7. \A f : /\ SymbolRows(f) = {s \in db.symbol : s.file = f}
             /\ SymbolRows(f)' = {s \in db.symbol : s.file = f}
  BY <1>2, <1>3 DEF SymbolRows
<1>8. EdgeTypes'
  BY DEF TrustInv, EdgeInv, EdgeTypes, EdgesIn, TypedEdges, Spent
<1>9. EdgeStmts'
  BY DEF EdgeStmts
<1>10. RawInv'
  <2>1. used.heal = 0 => RawWhole'
    BY <1>4, <1>5, <1>6 DEF TrustInv, RawInv, RawWhole
  <2>2. RawBehind'
    BY <1>2, <1>3 DEF RawBehind
  <2> QED
    BY <2>1, <2>2 DEF RawInv, Spent
<1> QED
  BY <1>4, <1>7, <1>8, <1>9, <1>10 DEF EdgeInv

\* A run starts.
LEMMA TrustStart ==
  ASSUME SpaceInv, CommitInv, CommitInv', TrustInv, NEW changes,
         NEW forced, StartRun(changes, forced), Spent(used')
  PROVE  TrustInv'
<1> DEFINE marker == db.index_meta.identity
           force == forced \/ db.index_meta.needs_rebuild
           hasData == Stored # {}
           Rebuild(adopt) == ~hasData \/ force \/ identity_forces_rebuild(marker, hasData, adopt)
           found(adopt) == IF walks(changes, adopt) THEN detect_changes
                           ELSE normalize_explicit_changes(changes)
           Change(adopt) == FoldPendingRetry(found(adopt))
           adoptOp(adopt) == IF adopt THEN <<Meta([identity |-> client])>> ELSE <<>>
           retryOp(adopt) == IF Rebuild(adopt) \/ Vanished = {} THEN <<>>
                             ELSE <<Delete("pending_retry", Vanished)>>
<1>1. PICK adopt \in BOOLEAN :
         /\ ops' = adoptOp(adopt) \o retryOp(adopt)
         /\ job'.mode = IF Rebuild(adopt) THEN "full" ELSE "incr"
         /\ job'.process = IF Rebuild(adopt) THEN OnDisk ELSE Change(adopt).process
         /\ job'.delete = IF Rebuild(adopt) THEN {} ELSE Change(adopt).delete
         /\ pc' \in {"preflight", "nochange", "plan"}
  BY DEF StartRun
<1>2. UNCHANGED <<disk, client, db, buf, torn, skipped>> /\ pc = "idle"
  BY DEF StartRun
<1>3. job'.process \cap job'.delete = {}
  <2> DEFINE Apart2(c) == /\ \A f \in c.process : disk[f] # Absent
                          /\ \A f \in c.delete : disk[f] = Absent
  <2>1. Apart2(detect_changes) /\ \A E : Apart2(normalize_explicit_changes(E))
    BY DEF detect_changes, normalize_explicit_changes, OnDisk
  <2>2. Apart2(found(adopt)) /\ Apart2(normalize_explicit_changes(FilesOf(db.pending_retry)))
    BY <2>1
  <2>3. /\ Change(adopt).process = found(adopt).process
                \cup normalize_explicit_changes(FilesOf(db.pending_retry)).process
        /\ Change(adopt).delete = found(adopt).delete
                \cup normalize_explicit_changes(FilesOf(db.pending_retry)).delete
    BY DEF FoldPendingRetry
  <2> HIDE DEF Change, Rebuild, found
  <2>4. Apart2(Change(adopt))
    BY <2>2, <2>3
  <2> QED
    BY <1>1, <2>4
<1>4. IsSeq(adoptOp(adopt)) /\ ToSet(adoptOp(adopt)) \subseteq {Meta([identity |-> client])}
  BY NoSeq, OneSeq
<1>5. IsSeq(retryOp(adopt)) /\ ToSet(retryOp(adopt)) \subseteq {Delete("pending_retry", Vanished)}
  <2> HIDE DEF Rebuild
  <2>1. CASE Rebuild(adopt) \/ Vanished = {}
    BY <2>1, NoSeq
  <2>2. CASE ~(Rebuild(adopt) \/ Vanished = {})
    BY <2>2, OneSeq
  <2> QED
    BY <2>1, <2>2
<1> HIDE DEF marker, force, hasData, Rebuild, adoptOp, retryOp, Change, found
<1>6. IsSeq(ops')
      /\ ToSet(ops') \subseteq {Meta([identity |-> client]), Delete("pending_retry", Vanished)}
  BY <1>1, <1>4, <1>5, ConcatSeq
<1> DEFINE Plain(s) == /\ Shape(s) /\ s.op # "insert" /\ s # RawMark /\ s # HealClear
                       /\ s \notin {Stamp, ClearMarkers, IncrClear}
                       /\ \A k \in {"raw_edge_complete", "edges_resolved"} : ~Sets(s, k)
                       /\ \A t \in {"raw_edge", "calls", "symbol"} : ~On(s, t)
<1>7. \A s \in ToSet(ops') : Plain(s)
  <2> DEFINE A == [identity |-> client]
             m == Meta(A)
  <2>1. DOMAIN A = {"identity"}
    OBVIOUS
  <2> HIDE DEF A
  <2>2. m.op = "meta" /\ m.rows = A /\ Shape(m)
    BY MetaFields
  <2> HIDE DEF m
  <2>3. "edges_resolved" \notin DOMAIN A /\ "raw_edge_complete" \notin DOMAIN A
    BY <2>1
  <2>4. \A s \in {HealClear, RawMark, Stamp, ClearMarkers, IncrClear} :
           "edges_resolved" \in DOMAIN s.rows \/ "raw_edge_complete" \in DOMAIN s.rows
    BY MarksMeta
  <2>5. Plain(m)
    BY <2>2, <2>3, <2>4 DEF On, Sets
  <2> DEFINE d == Delete("pending_retry", Vanished)
  <2>6. Shape(d) /\ d.op = "delete" /\ d.table = "pending_retry"
    BY DeleteFields DEF Tables
  <2> HIDE DEF d
  <2>7. Plain(d)
    BY <2>6, MarksMeta DEF On, Sets
  <2> QED
    BY <1>6, <2>5, <2>7 DEF m, A, d
<1> HIDE DEF Plain
<1>8. \A s \in ToSet(ops') : s.op # "insert" /\ EdgeStmt(s)'
  BY <1>7 DEF Plain, EdgeStmt
<1>9. \A s, t : Precedes(ops', s, t) => EdgeOrder(s, t)'
  <2>1. ASSUME NEW s, NEW t, Plain(s), Plain(t) PROVE EdgeOrder(s, t)'
    BY <2>1 DEF Plain, EdgeOrder, On
  <2> QED
    BY <1>7, <2>1, PrecedesIn
<1>10. EdgeMarks' /\ RawRemoving' /\ RawUntouched' /\ (RawOn' => RawOn)
  BY <1>1, <1>2 DEF EdgeMarks, RawRemoving, RawUntouched, RawOn, Complete
<1>11. ops = <<>>
  BY <1>2 DEF SpaceInv, SpacePhase
<1>12. EdgeInv' /\ RawInv'
  BY <1>1, <1>2, <1>3, <1>8, <1>9, <1>10, <1>11, TrustIssue
<1>13. (Complete' <=> Complete) /\ (Resolved' <=> Resolved)
  BY <1>2 DEF Complete, Resolved
<1>14. CallsInv'
  BY <1>1, <1>2, <1>13, SoundIs
  DEF TrustInv, CallsInv, CallsCleared, CallsRemoved, CallsRemembered, Spent, Heeded
<1> QED
  BY <1>12, <1>14 DEF TrustInv

\* full_rebuild issues its deletes, the markers around them.
LEMMA TrustBeginFull ==
  ASSUME SpaceInv, CommitInv, CommitInv', TrustInv, BeginFull
  PROVE  TrustInv'
<1> DEFINE d1 == Delete("calls", Files)
           d2 == Delete("raw_edge", Files)
           d3 == Delete("symbol", Files)
           d4 == Delete("chunk", Files)
           d5 == Delete("file_meta", Files)
<1>1. /\ UNCHANGED <<disk, client, db, buf, torn, skipped, used, job>> /\ ops = <<>>
      /\ pc = "preflight" /\ pc' = "begin"
      /\ ops' = <<ClearMarkers, d1, d2, d3, d4, d5, SoftClear>>
  BY DEF BeginFull, runVars, ClearMarkers, SoftClear
<1>2. job.mode = "full"
  BY <1>1 DEF CommitInv, CommitTypes
<1>3. /\ d1.op = "delete" /\ d1.table = "calls" /\ d2.op = "delete" /\ d2.table = "raw_edge"
      /\ d3.op = "delete" /\ d3.table = "symbol" /\ d4.op = "delete" /\ d4.table = "chunk"
      /\ d5.op = "delete" /\ d5.table = "file_meta"
      /\ Shape(d1) /\ Shape(d2) /\ Shape(d3) /\ Shape(d4) /\ Shape(d5)
  BY DeleteFields DEF Tables
<1> HIDE DEF d1, d2, d3, d4, d5
<1>4. IsSeq(ops') /\ ToSet(ops') = {ClearMarkers, d1, d2, d3, d4, d5, SoftClear}
  BY <1>1, SevenSeq
<1>5. /\ ClearMarkers.op = "meta" /\ Shape(ClearMarkers)
      /\ SoftClear.op = "meta" /\ Shape(SoftClear)
      /\ Sets(SoftClear, "raw_edge_complete") => FALSE
      /\ Sets(ClearMarkers, "edges_resolved") => FALSE
  BY MarksMeta DEF Sets
<1>6. ASSUME NEW s \in ToSet(ops') PROVE s.op # "insert" /\ EdgeStmt(s)'
  <2>1. CASE s \in {d1, d2, d3, d4, d5}
    BY <1>1, <1>2, <1>3, <2>1 DEF EdgeStmt, Sets, On
  <2>2. CASE s = ClearMarkers
    BY <1>1, <1>2, <1>5, <2>2 DEF EdgeStmt, On
  <2>3. CASE s = SoftClear
    BY <1>1, <1>2, <1>5, <2>3 DEF EdgeStmt, On
  <2> QED
    BY <1>4, <2>1, <2>2, <2>3
<1>7. \A s \in {d1, d2, d3, d4, d5} : s \notin {HealClear, ClearMarkers, IncrClear, RawMark, Stamp}
  BY <1>3, MarksMeta
<1>8. ASSUME NEW s, NEW t, Precedes(ops', s, t) PROVE EdgeOrder(s, t)'
  <2>1. PICK i \in 1..7, j \in 1..7 : i < j /\ ops'[i] = s /\ ops'[j] = t
    BY <1>1, <1>8 DEF Precedes
  <2>2. t \in {d1, d2, d3, d4, d5, SoftClear}
    <3>1. j # 1
      BY <2>1
    <3> QED
      BY <1>1, <2>1, <3>1
  <2>3. s \in {ClearMarkers, d1, d2, d3, d4, d5, SoftClear}
    BY <1>1, <2>1
  <2>4. t \notin {HealClear, ClearMarkers, IncrClear} /\ s # Stamp /\ s # RawMark
    BY <1>7, <2>2, <2>3, MarksDiffer
  <2>5. s.op # "insert" /\ job'.mode # "incr"
    BY <1>1, <1>2, <1>3, <1>5, <2>3
  <2> QED
    BY <2>4, <2>5 DEF EdgeOrder
<1>9. Affected' = Files
  BY <1>1, <1>2 DEF Affected
<1>10. EdgeMarks' /\ RawRemoving' /\ RawUntouched'
  BY <1>1, <1>4, <1>9 DEF EdgeMarks, RawRemoving, RawUntouched, d2
<1>11. RawOn' => RawOn
  BY <1>1 DEF RawOn, Complete
<1>12. job'.process \cap job'.delete = {} /\ Spent(used')
  BY <1>1, SpentOther DEF TrustInv, EdgeInv, EdgeTypes
<1>13. EdgeInv' /\ RawInv'
  <2>1. /\ pc # "stream" /\ pc' \notin {"stream", "phase2"}
        /\ \A s \in ToSet(ops') : s.op # "insert" /\ EdgeStmt(s)'
        /\ \A s, t : Precedes(ops', s, t) => EdgeOrder(s, t)'
    BY <1>1, <1>6, <1>8
  <2>2. UNCHANGED <<disk, db, buf, torn, skipped>> /\ ops = <<>>
    BY <1>1
  <2> QED
    BY <1>10, <1>11, <1>12, <2>1, <2>2, TrustIssue
<1>14. (Complete' <=> Complete) /\ (Resolved' <=> Resolved)
  BY <1>1 DEF Complete, Resolved
<1>15. SoftClear \in ToSet(ops') /\ Delete("calls", Files) \in ToSet(ops')
  BY <1>4 DEF d1
<1>16. CallsInv'
  BY <1>1, <1>2, <1>14, <1>15, SoundIs
  DEF TrustInv, CallsInv, CallsCleared, CallsRemoved, CallsRemembered, Heeded
<1> QED
  BY <1>13, <1>16 DEF TrustInv

\* incremental_run remembers the surface of the files it is about to replace: if
\* the call graph is complete, the calls rows are those of the tables as they are.
LEMMA TrustBeginIncremental ==
  ASSUME SpaceInv, CommitInv, CommitInv', TrustInv, BeginIncremental
  PROVE  TrustInv'
<1> DEFINE affected == job.process \cup job.delete
           d1 == Delete("symbol", affected)
           d2 == Delete("chunk", affected)
           d3 == Delete("raw_edge", affected)
           d4 == Delete("file_meta", affected)
<1>1. /\ UNCHANGED <<disk, client, db, buf, torn, skipped, used>> /\ ops = <<>>
      /\ pc = "plan" /\ pc' = "begin"
      /\ ops' = <<IncrClear, d1, d2, d3, d4>>
  BY DEF BeginIncremental, IncrClear
<1>2. /\ job.mode = "incr" /\ job'.mode = "incr"
      /\ job'.process = job.process /\ job'.delete = job.delete
      /\ job'.oldSymbols = {s \in db.symbol : s.file \in job.process}
      /\ job'.graphComplete = db.index_meta.edges_resolved
  BY DEF BeginIncremental, SpaceInv, SpaceTypes, SpacePhase, JobKeys
<1>3. /\ d1.op = "delete" /\ d1.table = "symbol" /\ d2.op = "delete" /\ d2.table = "chunk"
      /\ d3.op = "delete" /\ d3.table = "raw_edge"
      /\ d4.op = "delete" /\ d4.table = "file_meta"
      /\ Shape(d1) /\ Shape(d2) /\ Shape(d3) /\ Shape(d4)
  BY DeleteFields DEF Tables
<1> HIDE DEF d1, d2, d3, d4
<1>4. IsSeq(ops') /\ ToSet(ops') = {IncrClear, d1, d2, d3, d4}
  BY <1>1, FiveSeq
<1>5. /\ IncrClear.op = "meta" /\ Shape(IncrClear)
      /\ Sets(IncrClear, "raw_edge_complete") => FALSE
  BY MarksMeta DEF Sets
<1>6. ASSUME NEW s \in ToSet(ops') PROVE s.op # "insert" /\ EdgeStmt(s)'
  <2>1. CASE s \in {d1, d2, d3, d4}
    BY <1>1, <1>2, <1>3, <2>1 DEF EdgeStmt, Sets, On
  <2>2. CASE s = IncrClear
    BY <1>1, <1>2, <1>5, <2>2 DEF EdgeStmt, On
  <2> QED
    BY <1>4, <2>1, <2>2
<1>7. \A s \in {d1, d2, d3, d4} : s \notin {HealClear, ClearMarkers, IncrClear, RawMark, Stamp}
  BY <1>3, MarksMeta
<1>8. ASSUME NEW s, NEW t, Precedes(ops', s, t) PROVE EdgeOrder(s, t)'
  <2>1. PICK i \in 1..5, j \in 1..5 : i < j /\ ops'[i] = s /\ ops'[j] = t
    BY <1>1, <1>8 DEF Precedes
  <2>2. t \in {d1, d2, d3, d4}
    <3>1. j # 1
      BY <2>1
    <3> QED
      BY <1>1, <2>1, <3>1
  <2>3. s \in {IncrClear, d1, d2, d3, d4}
    BY <1>1, <2>1
  <2>4. t \notin {HealClear, ClearMarkers, IncrClear} /\ s # Stamp /\ s # RawMark
    BY <1>7, <2>2, <2>3, MarksDiffer
  <2>5. s.op # "insert"
    BY <1>3, <1>5, <2>3
  <2>6. s.op = "delete" /\ s.table = "raw_edge" => ~(t.op = "delete" /\ t.table = "symbol")
    <3>1. j # 2 => t \in {d2, d3, d4}
      BY <1>1, <2>1, <2>2
    <3>2. j = 2 => s = IncrClear
      BY <1>1, <2>1
    <3> QED
      BY <1>3, <1>5, <3>1, <3>2
  <2> QED
    BY <2>4, <2>5, <2>6 DEF EdgeOrder
<1>9. Affected' = affected
  BY <1>1, <1>2 DEF Affected
<1>10. EdgeMarks' /\ RawRemoving' /\ RawUntouched'
  BY <1>1, <1>2, <1>4, <1>9 DEF EdgeMarks, RawRemoving, RawUntouched, d3
<1>11. RawOn' => RawOn
  BY <1>1 DEF RawOn, Complete
<1>12. job'.process \cap job'.delete = {} /\ Spent(used')
  BY <1>1, <1>2, SpentOther DEF TrustInv, EdgeInv, EdgeTypes
<1>13. /\ EdgeInv' /\ RawInv'
       /\ RawRows' = db.raw_edge
       /\ \A f : /\ SymbolRows(f) = {s \in db.symbol : s.file = f}
                 /\ SymbolRows(f)' = {s \in db.symbol : s.file = f}
  <2>1. /\ pc # "stream" /\ pc' \notin {"stream", "phase2"}
        /\ \A s \in ToSet(ops') : s.op # "insert" /\ EdgeStmt(s)'
        /\ \A s, t : Precedes(ops', s, t) => EdgeOrder(s, t)'
    BY <1>1, <1>6, <1>8
  <2>2. UNCHANGED <<disk, db, buf, torn, skipped>> /\ ops = <<>>
    BY <1>1
  <2> QED
    BY <1>10, <1>11, <1>12, <2>1, <2>2, TrustIssue
<1>14. (Complete' <=> Complete) /\ (Resolved' <=> Resolved)
  BY <1>1 DEF Complete, Resolved
<1>15. OneEach(db.symbol)
  <2>1. ASSUME NEW s \in db.symbol
        PROVE  s.file \in Files /\ \E c \in Contents :
                  \A x \in db.symbol : x.file = s.file => x \in SymbolsOf[s.file][c]
    <3>1. s.file \in Files
      BY DEF CommitInv, CommitTypes, SymbolRow
    <3>2. s \in SymbolRows(s.file)
      BY <1>13
    <3>3. PICK c \in Contents : SymbolRows(s.file) \subseteq SymbolsOf[s.file][c]
      BY <3>1, <3>2 DEF CommitInv, OneContent
    <3> QED
      BY <1>13, <3>1, <3>3
  <2> QED
    BY <2>1 DEF OneEach
<1>16. ASSUME Heeded, job'.graphComplete = TRUE, Complete
       PROVE  Remember(db.symbol, db.raw_edge)'
  <2>1. db.calls = resolve_raw_edges(db.symbol, db.raw_edge)
    BY <1>2, <1>16, SoundIs DEF Resolved, TrustInv, CallsInv, CallsCleared
  <2>2. TypedEdges(db.raw_edge)
    BY DEF TrustInv, EdgeInv, EdgeTypes
  <2> QED
    BY <1>1, <1>2, <1>13, <1>15, <2>1, <2>2 DEF Remember
<1>17. CallsInv'
  <2>1. ASSUME Heeded PROVE CallsRemembered'
    <3>1. ASSUME job'.graphComplete = TRUE, Complete'
          PROVE  (\E old, raw : Remember(old, raw))'
      <4>1. Remember(db.symbol, db.raw_edge)'
        BY <1>14, <1>16, <2>1, <3>1
      <4>2. \E o, r : Remember(o, r)'
        BY <1>1, <4>1 DEF Remember
      <4> QED
        BY <4>2
    <3> QED
      BY <3>1 DEF CallsRemembered
  <2>2. IncrClear \in ToSet(ops')
    BY <1>4
  <2>3. ASSUME Heeded PROVE CallsCleared' /\ CallsRemoved'
    BY <1>1, <1>2, <1>14, <2>2, <2>3, SoundIs DEF TrustInv, CallsInv, CallsCleared, CallsRemoved
  <2> QED
    BY <1>1, <2>1, <2>3 DEF CallsInv, Heeded
<1> QED
  BY <1>13, <1>17 DEF TrustInv

\* The rows the calls were made of are still remembered.
LEMMA StillRemembered ==
  ASSUME UNCHANGED <<job, db>>, CallsRemembered, job.mode = "incr" => pc \in {"begin", "stream", "tail"},
         RawRows' = RawRows, \A f : SymbolRows(f)' = SymbolRows(f)
  PROVE  CallsRemembered'
<1>1. Affected' = Affected
  BY DEF Affected
<1>2. \A old, raw : Remember(old, raw) => Remember(old, raw)'
  BY <1>1 DEF Remember
<1> QED
  BY <1>2 DEF CallsRemembered, Complete

LEMMA TrustStartStream ==
  ASSUME SpaceInv, CommitInv, CommitInv', TrustInv, StartStream
  PROVE  TrustInv'
<1>1. /\ UNCHANGED <<disk, client, db, buf, torn, skipped, used, ops, job>> /\ ops = <<>>
      /\ pc = "begin" /\ pc' \in {"stream", "tail"}
      /\ st' = [f \in Files |-> IF f \in job.process THEN [NoStage EXCEPT !.at = "todo"]
                                ELSE NoStage]
  BY DEF StartStream
<1>2. ToSet(ops) = {} /\ ToSet(ops') = {} /\ DOMAIN ops' = {}
  BY <1>1, NoSeq
<1>3. \A t : Issued(t) = {} /\ Issued(t)' = {}
  BY <1>2 DEF Issued
<1>4. /\ \A t \in RowTables : \A r \in db[t] : r.file \notin Affected
      /\ \A e \in db.raw_edge : used.heal = 0 => e.file \notin Affected
  BY <1>1, <1>2 DEF CommitInv, Removing, TrustInv, RawInv, RawRemoving
<1>5. buf.raw_edge = {} /\ buf.file_meta = {} /\ buf.symbol = {} /\ skipped.permanent = {}
  BY <1>1 DEF CommitInv, CommitTypes, NoBuf
<1>6. job.mode = "full" => Metas = {}
  BY <1>3, <1>4, <1>5 DEF Metas, RowTables, Affected, CommitInv, CommitTypes
<1>7. RawOn' => RawOn \/ Metas = {}
  BY <1>1, <1>6 DEF RawOn, Complete
<1>8. job.process \subseteq Affected
  BY <1>1 DEF CommitInv, CommitTypes, Affected
<1>9. RawRows' = db.raw_edge
  BY <1>1, <1>3, <1>5 DEF RawRows
<1>10. used.heal = 0 => RawUntouched'
  <2>1. \A f \in Files : st'[f].at \in {"todo", "stat", "embedded"} => f \in job.process
    BY <1>1 DEF NoStage
  <2> QED
    BY <1>4, <1>8, <1>9, <2>1 DEF RawUntouched, Reads
<1>11. EdgeTypes' /\ EdgeStmts'
  <2>1. \A f \in Files : Reads(f)' => f \in job.process
    BY <1>1 DEF Reads, NoStage
  <2> QED
    BY <1>1, <1>2, <2>1
    DEF TrustInv, EdgeInv, EdgeTypes, EdgeStmts, EdgesIn, TypedEdges, Precedes
<1>12. EdgeMarks' /\ RawRemoving'
  BY <1>1 DEF EdgeMarks, RawRemoving
<1>13. RawRows = db.raw_edge
  BY <1>1, <1>3, <1>5 DEF RawRows
<1>14. Metas' = Metas
  BY <1>1, <1>3 DEF Metas
<1>15. MidDelete = {}
  BY <1>2, MidDeleteIs DEF Deletes
<1>16. RawInv'
  <2>1. used.heal = 0 => RawWhole'
    BY <1>1, <1>7, <1>9, <1>13, <1>14, <1>15 DEF TrustInv, RawInv, RawWhole
  <2>2. RawBehind'
    BY <1>1, <1>3, <1>5 DEF RawBehind
  <2> QED
    BY <1>1, <1>10, <1>12, <2>1, <2>2 DEF RawInv
<1>17. \A f : SymbolRows(f)' = SymbolRows(f) /\ SymbolRows(f) = {s \in db.symbol : s.file = f}
  BY <1>1, <1>3, <1>5 DEF SymbolRows
<1>18. (Complete' <=> Complete) /\ (Resolved' <=> Resolved)
  BY <1>1 DEF Complete, Resolved
<1>19. ASSUME Heeded PROVE CallsInv'
  <2>1. CallsCleared /\ CallsRemembered /\ job.mode \in {"full", "incr"}
    BY <1>1, <1>19 DEF TrustInv, CallsInv, SpaceInv, SpacePhase
  <2>2. CallsCleared'
    BY <1>1, <1>2, <1>18, <2>1, SoundIs DEF CallsCleared
  <2>3. CallsRemoved'
    <3>1. job.mode = "incr" => \A f \in job.delete : f \in Affected
      BY DEF Affected
    <3> QED
      BY <1>1, <1>4, <1>17, <3>1 DEF CallsRemoved, RowTables
  <2>4. CallsRemembered'
    BY <1>1, <1>9, <1>13, <1>17, <2>1, StillRemembered
  <2> QED
    BY <2>2, <2>3, <2>4 DEF CallsInv
<1> QED
  BY <1>1, <1>11, <1>12, <1>16, <1>19 DEF TrustInv, EdgeInv, CallsInv, Heeded

\* The rows are durable: the markers of the run.
LEMMA TrustCommitRows ==
  ASSUME SpaceInv, CommitInv, CommitInv', TrustInv, CommitRows
  PROVE  TrustInv'
<1>1. /\ UNCHANGED <<disk, client, db, buf, torn, skipped, used, job>> /\ ops = <<>>
      /\ pc = "tail" /\ pc' = "commit"
  BY DEF CommitRows, runVars
<1> DEFINE A == [identity |-> job.identity]
           i == Meta(A)
           d1 == Delete("file_meta", job.delete)
           d2 == Delete("pending_retry", job.delete)
<1>2. /\ job.mode = "full" => ops' = <<RawMark, i>>
      /\ job.mode # "full" => ops' = <<d1, d2, i>>
  BY DEF CommitRows, RawMark
<1>3. "edges_resolved" \notin DOMAIN A /\ "raw_edge_complete" \notin DOMAIN A
  <2>1. DOMAIN A = {"identity"}
    OBVIOUS
  <2> QED
    BY <2>1
<1> HIDE DEF A
<1>4. i.op = "meta" /\ i.rows = A /\ Shape(i)
  BY MetaFields
<1>5. /\ d1.op = "delete" /\ d1.table = "file_meta" /\ Shape(d1)
      /\ d2.op = "delete" /\ d2.table = "pending_retry" /\ Shape(d2)
  BY DeleteFields DEF Tables
<1> HIDE DEF i, d1, d2
<1>6. /\ job.mode = "full" => ToSet(ops') = {RawMark, i} /\ IsSeq(ops')
      /\ job.mode # "full" => ToSet(ops') = {d1, d2, i} /\ IsSeq(ops')
  BY <1>2, TwoSeq, ThreeSeq
<1>7. \A s \in {HealClear, RawMark, Stamp, ClearMarkers, IncrClear} : s \notin {i, d1, d2}
  <2>1. \A s \in {HealClear, RawMark, Stamp, ClearMarkers, IncrClear} :
           s.op = "meta" /\ ("edges_resolved" \in DOMAIN s.rows \/ "raw_edge_complete" \in DOMAIN s.rows)
    BY MarksMeta
  <2> QED
    BY <1>3, <1>4, <1>5, <2>1
<1>8. ASSUME NEW s \in ToSet(ops') PROVE s.op # "insert" /\ EdgeStmt(s)'
  <2>1. CASE s \in {i, d1, d2}
    BY <1>3, <1>4, <1>5, <2>1 DEF EdgeStmt, Sets, On
  <2>2. CASE s = RawMark /\ job.mode = "full"
    <3>1. RawMark.op = "meta" /\ Shape(RawMark) /\ (Sets(RawMark, "edges_resolved") => FALSE)
      BY MarksMeta DEF Sets
    <3> QED
      BY <1>1, <2>2, <3>1 DEF EdgeStmt, On
  <2> QED
    BY <1>6, <2>1, <2>2
<1>9. ASSUME NEW s, NEW t, Precedes(ops', s, t) PROVE EdgeOrder(s, t)'
  <2>1. s \in ToSet(ops') /\ t \in ToSet(ops')
    BY <1>9, PrecedesIn
  <2>2. s \in {RawMark, i, d1, d2} /\ t \in {RawMark, i, d1, d2}
    BY <1>6, <2>1
  <2>3. t \in {i, d1, d2}
    <3>1. CASE job.mode = "full"
      <4>1. PICK k \in 1..2, l \in 1..2 : k < l /\ ops'[k] = s /\ ops'[l] = t
        BY <1>2, <1>9, <3>1 DEF Precedes
      <4>2. l = 2
        BY <4>1
      <4> QED
        BY <1>2, <3>1, <4>1, <4>2
    <3>2. CASE job.mode # "full"
      BY <1>6, <2>1, <3>2
    <3> QED
      BY <3>1, <3>2
  <2>4. t \notin {HealClear, ClearMarkers, IncrClear, RawMark} /\ s # Stamp
    BY <1>7, <2>2, <2>3, MarksDiffer
  <2>5. s.op # "insert" /\ ~On(t, "raw_edge")
    BY <1>4, <1>5, <2>2, <2>3, MarksMeta DEF On
  <2>6. ~(s.op = "delete" /\ s.table = "raw_edge")
    BY <1>4, <1>5, <2>2, MarksMeta
  <2> QED
    BY <2>4, <2>5, <2>6 DEF EdgeOrder
<1>10. EdgeMarks' /\ RawRemoving' /\ RawUntouched' /\ (RawOn' => RawOn)
  BY <1>1 DEF EdgeMarks, RawRemoving, RawUntouched, RawOn, Complete
<1>11. job'.process \cap job'.delete = {} /\ Spent(used')
  BY <1>1, SpentOther DEF TrustInv, EdgeInv, EdgeTypes
<1>12. /\ EdgeInv' /\ RawInv'
       /\ RawRows' = RawRows /\ \A f : SymbolRows(f)' = SymbolRows(f)
  <2>1. /\ pc # "stream" /\ pc' \notin {"stream", "phase2"}
        /\ \A s \in ToSet(ops') : s.op # "insert" /\ EdgeStmt(s)'
        /\ \A s, t : Precedes(ops', s, t) => EdgeOrder(s, t)'
    BY <1>1, <1>8, <1>9
  <2>2. UNCHANGED <<disk, db, buf, torn, skipped>> /\ ops = <<>>
    BY <1>1
  <2>3. /\ EdgeInv' /\ RawInv'
        /\ RawRows = db.raw_edge /\ RawRows' = db.raw_edge
        /\ \A f : /\ SymbolRows(f) = {s \in db.symbol : s.file = f}
                  /\ SymbolRows(f)' = {s \in db.symbol : s.file = f}
    BY <1>10, <1>11, <2>1, <2>2, TrustIssue
  <2> QED
    BY <2>3
<1>13. (Complete' <=> Complete) /\ (Resolved' <=> Resolved)
  BY <1>1 DEF Complete, Resolved
<1>14. CallsInv'
  <2>1. ASSUME Heeded PROVE CallsCleared' /\ CallsRemoved' /\ CallsRemembered'
    <3>1. CallsCleared /\ CallsRemoved /\ CallsRemembered
      BY <2>1 DEF TrustInv, CallsInv
    <3>2. CallsCleared'
      BY <1>1, <1>13, <3>1, SoundIs DEF CallsCleared
    <3>3. CallsRemoved'
      BY <1>1, <1>12, <3>1 DEF CallsRemoved
    <3>4. CallsRemembered'
      BY <1>1, <1>12, <3>1, StillRemembered
    <3> QED
      BY <3>2, <3>3, <3>4
  <2> QED
    BY <1>1, <2>1 DEF CallsInv, Heeded
<1> QED
  BY <1>12, <1>14 DEF TrustInv

\* The run is over.
LEMMA TrustSucceeds ==
  ASSUME SpaceInv, CommitInv, CommitInv', TrustInv, RunSucceeds
  PROVE  TrustInv'
<1>1. /\ UNCHANGED <<disk, client, db, buf, torn, skipped, used, job>> /\ ops = <<>>
      /\ pc = "phase2" /\ pc' = "finish"
      /\ ops' \in {<<Soft(Meta([needs_rebuild |-> FALSE]))>>, <<>>}
  BY DEF RunSucceeds, runVars
<1> DEFINE A == [needs_rebuild |-> FALSE]
           m == Soft(Meta(A))
<1>2. "edges_resolved" \notin DOMAIN A /\ "raw_edge_complete" \notin DOMAIN A
  <2>1. DOMAIN A = {"needs_rebuild"}
    OBVIOUS
  <2> QED
    BY <2>1
<1> HIDE DEF A
<1>3. m.op = "meta" /\ m.rows = A /\ Shape(m)
  BY MetaFields
<1>4. ToSet(ops') \subseteq {m} /\ DOMAIN ops' \subseteq {1}
  <2>1. ASSUME NEW x PROVE ToSet(<<x>>) = {x} /\ DOMAIN <<x>> = {1}
    <3>1. DOMAIN <<x>> = {1}
      OBVIOUS
    <3> QED
      BY <3>1, OneSeq
  <2>2. ToSet(<<>>) = {} /\ DOMAIN <<>> = {}
    BY NoSeq
  <2> QED
    BY <1>1, <2>1, <2>2 DEF m, A
<1> HIDE DEF m
<1>5. \A s \in ToSet(ops') : s.op # "insert" /\ EdgeStmt(s)'
  BY <1>2, <1>3, <1>4 DEF EdgeStmt, Sets, On
<1>6. \A s, t : Precedes(ops', s, t) => EdgeOrder(s, t)'
  BY <1>4 DEF Precedes
<1>7. EdgeMarks' /\ RawRemoving' /\ RawUntouched' /\ (RawOn' => RawOn)
  BY <1>1 DEF EdgeMarks, RawRemoving, RawUntouched, RawOn, Complete
<1>8. job'.process \cap job'.delete = {} /\ Spent(used')
  BY <1>1, SpentOther DEF TrustInv, EdgeInv, EdgeTypes
<1>9. EdgeInv' /\ RawInv'
  BY <1>1, <1>5, <1>6, <1>7, <1>8, TrustIssue
<1>10. (Complete' <=> Complete) /\ (Resolved' <=> Resolved)
  BY <1>1 DEF Complete, Resolved
<1>11. CallsInv'
  BY <1>1, <1>10, SoundIs
  DEF TrustInv, CallsInv, CallsCleared, CallsRemoved, CallsRemembered, Heeded
<1> QED
  BY <1>9, <1>11 DEF TrustInv

-----------------------------------------------------------------------------
(* Phase 2 starts                                                          *)

LEMMA TablesOrdered ==
  ASSUME OrderKept, NEW old, NEW new, OneEach(old), OneEach(new)
  PROVE  Ordered(old, new)
<1>1. ASSUME NEW T, OneEach(T) PROVE Placed(T) /\ Apart(T)
  <2>1. ASSUME NEW s \in T PROVE s.file \in Nat /\ s.line \in Nat
    <3>1. s.file \in Files /\ \E c \in Contents : s \in SymbolsOf[s.file][c]
      BY <1>1 DEF OneEach
    <3> QED
      BY <3>1, RowAssumption
  <2>2. ASSUME NEW a \in T, NEW b \in T, a.name = b.name, Before(a, b), Before(b, a)
        PROVE  a = b
    <3>1. a.file = b.file /\ a.line = b.line
      BY <2>1, <2>2 DEF Before
    <3>2. PICK c \in Contents : a \in SymbolsOf[a.file][c] /\ b \in SymbolsOf[a.file][c]
      BY <1>1, <3>1 DEF OneEach
    <3>3. a.file \in Files
      BY <1>1 DEF OneEach
    <3> QED
      BY <2>2, <3>1, <3>2, <3>3 DEF OrderKept
  <2> QED
    BY <2>1, <2>2 DEF Placed, Apart
<1>2. ASSUME NEW a \in old, NEW b \in old, NEW x \in new, NEW y \in new,
             Same(a, x), Same(b, y), a.name = b.name, Before(a, b)
      PROVE  Before(x, y)
  <2>1. CASE a.file < b.file
    BY <1>2, <2>1 DEF Same, Before
  <2>2. CASE a.file = b.file /\ a.line <= b.line
    <3>1. PICK c \in Contents : a \in SymbolsOf[a.file][c] /\ b \in SymbolsOf[a.file][c]
      BY <2>2 DEF OneEach
    <3>2. PICK d \in Contents : x \in SymbolsOf[a.file][d] /\ y \in SymbolsOf[a.file][d]
      BY <1>2, <2>2 DEF OneEach, Same
    <3>3. a.file \in Files
      BY DEF OneEach
    <3>4. /\ a.name = b.name /\ x.name = a.name /\ y.name = a.name
          /\ x.fqn = a.fqn /\ y.fqn = b.fqn
      BY <1>2 DEF Same
    <3>5. x.line <= y.line
      BY <2>2, <3>1, <3>2, <3>3, <3>4 DEF OrderKept
    <3> QED
      BY <1>2, <2>2, <3>5 DEF Same, Before
  <2> QED
    BY <1>2, <2>1, <2>2 DEF Before
<1> QED
  BY <1>1, <1>2 DEF Ordered

\* The stored symbols are of one content per file.
LEMMA StoredOneEach ==
  ASSUME CommitInv
  PROVE  OneEach(db.symbol)
<1>1. ASSUME NEW s \in db.symbol
      PROVE  s.file \in Files /\ \E c \in Contents :
                \A x \in db.symbol : x.file = s.file => x \in SymbolsOf[s.file][c]
  <2>1. s.file \in Files
    BY DEF CommitInv, CommitTypes, SymbolRow
  <2>2. \A x \in db.symbol : x.file = s.file => x \in SymbolRows(s.file)
    BY DEF SymbolRows
  <2>3. PICK c \in Contents : SymbolRows(s.file) \subseteq SymbolsOf[s.file][c]
    BY <2>1, <2>2 DEF CommitInv, OneContent
  <2> QED
    BY <2>1, <2>2, <2>3
<1> QED
  BY <1>1 DEF OneEach

\* The statements of Phase 2 are issued in the order of their places.
LEMMA PassStmts ==
  ASSUME NEW q, NEW n \in {1, 5, 6}, Ranked(q, n, 7), ops' = q, pc' = "phase2",
         job' = job
  PROVE  EdgeStmts' /\ \A t \in RowTables : Writes(q, t) = {}
<1>1. ASSUME NEW s \in ToSet(q) PROVE EdgeStmt(s)' /\ (s.op = "insert" => s.table \notin RowTables)
  <2>1. PICK k \in n..7 : Phase2Stmt(k, s)
    BY DEF Ranked
  <2>2. k \in 1..7
    BY <2>1
  <2>3. CASE k \in {1, 4, 7}
    <3>1. s \in {HealClear, RawMark, Stamp} /\ s.op = "meta" /\ Shape(s)
      BY <2>1, <2>3, MarksMeta DEF Phase2Stmt
    <3>2. /\ ~Sets(RawMark, "edges_resolved") /\ ~Sets(Stamp, "raw_edge_complete")
      BY MarksMeta DEF Sets
    <3> QED
      BY <3>1, <3>2 DEF EdgeStmt, On
  <2>4. CASE k \in {2, 3, 5, 6}
    BY <2>1, <2>4 DEF Phase2Stmt, EdgeStmt, Sets, On, RowTables
  <2> QED
    BY <2>2, <2>3, <2>4
<1>2. \A s, t : Precedes(q, s, t) => EdgeOrder(s, t)
  BY DEF Ranked, EdgesInOrder
<1>3. \A s, t : EdgeOrder(s, t) => EdgeOrder(s, t)'
  BY DEF EdgeOrder
<1> QED
  BY <1>1, <1>2, <1>3 DEF EdgeStmts, Writes

\* Phase 2 is entered: `raw` is what the raw edges will be, and the calls rows will
\* be those of a full pass over it.
LEMMA TrustPass ==
  ASSUME SpaceInv, CommitInv, CommitInv', TrustInv, ops = <<>>,
         pc \in {"commit", "nochange"}, pc' = "phase2",
         UNCHANGED <<disk, db, buf, torn, skipped, job>>,
         {"heal", "soft"} \subseteq DOMAIN used', used'.heal \in Nat, used'.soft \in Nat,
         used'.heal = 0 => used.heal = 0, Heeded' => Heeded,
         NEW n \in {1, 5, 6}, Ranked(ops', n, 7), Stamp \in ToSet(ops'),
         HealClear \in ToSet(ops') \/ (\E s \in ToSet(ops') : On(s, "raw_edge")) =>
            RawMark \in ToSet(ops'),
         RawMark \in ToSet(ops') => HealClear \in ToSet(ops') /\ ~Complete,
         NEW raw,
         {e \in db.raw_edge : ~Deletes(ops', "raw_edge", e.file)} \cup Writes(ops', "raw_edge") = raw,
         used'.heal = 0 => \A m \in db.file_meta :
            m.file \notin torn /\ m.stamp = disk[m.file] /\ (Complete \/ RawMark \in ToSet(ops')) =>
                {e \in raw : e.file = m.file} = EdgesOf[m.file][m.stamp.content],
         Heeded =>
            /\ Resolved => HealClear \in ToSet(ops')
            /\ {c \in db.calls : ~Deletes(ops', "calls", c.file)} \cup Writes(ops', "calls")
                  = resolve_raw_edges(db.symbol, raw)
  PROVE  TrustInv'
<1>1. /\ EdgeStmts' /\ \A t \in RowTables : Writes(ops', t) = {}
  BY PassStmts
<1>2. \A t : Issued(t)' = Writes(ops', t)
  BY DEF Issued, Writes
<1>3. buf'.raw_edge = {} /\ buf'.file_meta = {} /\ skipped'.permanent = {}
  BY DEF CommitInv, CommitTypes, NoBuf
<1>4. RawRows' = raw
  BY <1>2, <1>3 DEF RawRows
<1>5. CallRows' = {c \in db.calls : ~Deletes(ops', "calls", c.file)} \cup Writes(ops', "calls")
  BY <1>2 DEF CallRows
<1>6. Metas' = db.file_meta
  BY <1>1, <1>2, <1>3 DEF Metas, RowTables
<1>7. (Complete' <=> Complete) /\ (Resolved' <=> Resolved)
  BY DEF Complete, Resolved
<1>8. EdgeTypes'
  BY DEF TrustInv, EdgeInv, EdgeTypes, EdgesIn, TypedEdges
<1>9. EdgeMarks'
  BY <1>7 DEF EdgeMarks
<1>10. RawInv'
  <2>1. used'.heal = 0 => RawWhole'
    BY <1>4, <1>6, <1>7 DEF RawWhole, RawOn
  <2> QED
    BY <2>1 DEF RawInv, RawUntouched, RawBehind, RawRemoving
<1>11. ASSUME Heeded' PROVE CallsCleared' /\ CallsRemoved' /\ CallsRemembered'
  <2>1. EdgesSound'
    BY <1>7, <1>11, SoundIs DEF TrustInv, CallsInv, CallsCleared
  <2>2. CallsCleared'
    BY <1>4, <1>5, <1>7, <1>11, <2>1 DEF CallsCleared
  <2> QED
    BY <2>2 DEF CallsRemoved, CallsRemembered
<1> QED
  BY <1>1, <1>8, <1>9, <1>10, <1>11 DEF TrustInv, EdgeInv, CallsInv

\* A pass over the calls only.
LEMMA CallsOnly ==
  ASSUME NEW q, NEW n \in {5, 6}, Ranked(q, n, 7)
  PROVE  /\ HealClear \notin ToSet(q) /\ RawMark \notin ToSet(q)
         /\ \A s \in ToSet(q) : ~On(s, "raw_edge")
         /\ \A f : ~Deletes(q, "raw_edge", f)
<1>1. ASSUME NEW s \in ToSet(q) PROVE s \notin {HealClear, RawMark} /\ ~On(s, "raw_edge")
  <2>1. PICK k \in n..7 : Phase2Stmt(k, s)
    BY DEF Ranked
  <2>2. k \in {5, 6, 7}
    BY <2>1
  <2>3. CASE k = 7
    BY <2>1, <2>3, MarksMeta, MarksDiffer DEF Phase2Stmt
  <2>4. CASE k \in {5, 6}
    BY <2>1, <2>4, MarksMeta DEF Phase2Stmt, On
  <2> QED
    BY <2>2, <2>3, <2>4
<1> QED
  BY <1>1 DEF Deletes, On

\* What every entry into Phase 2 has in common.
Entering(from) == /\ ops = <<>> /\ pc = from /\ pc' = "phase2"
                  /\ UNCHANGED <<disk, db, buf, torn, skipped, job>>

LEMMA PassCalls ==
  ASSUME SpaceInv, CommitInv, CommitInv', TrustInv,
         Entering("commit") \/ Entering("nochange"), used' = used,
         NEW n \in {5, 6}, Ranked(ops', n, 7), Stamp \in ToSet(ops'),
         Writes(ops', "raw_edge") = {},
         Heeded =>
            /\ ~Resolved
            /\ {c \in db.calls : ~Deletes(ops', "calls", c.file)} \cup Writes(ops', "calls")
                  = resolve_raw_edges(db.symbol, db.raw_edge)
  PROVE  TrustInv'
<1>1. /\ ops = <<>> /\ pc \in {"commit", "nochange"} /\ pc' = "phase2"
      /\ UNCHANGED <<disk, db, buf, torn, skipped, job>>
  BY DEF Entering
<1>2. /\ HealClear \notin ToSet(ops') /\ RawMark \notin ToSet(ops')
      /\ \A s \in ToSet(ops') : ~On(s, "raw_edge")
      /\ \A f : ~Deletes(ops', "raw_edge", f)
  BY CallsOnly
<1>3. {e \in db.raw_edge : ~Deletes(ops', "raw_edge", e.file)} \cup Writes(ops', "raw_edge")
         = db.raw_edge
  BY <1>2
<1>4. ToSet(ops) = {}
  BY <1>1, NoSeq
<1>5. RawRows = db.raw_edge /\ Metas = db.file_meta /\ MidDelete = {}
  <2>1. buf.raw_edge = {} /\ buf.file_meta = {} /\ skipped.permanent = {}
    BY <1>1 DEF CommitInv, CommitTypes, NoBuf
  <2>2. \A t : Issued(t) = {}
    BY <1>4 DEF Issued
  <2>3. MidDelete = {}
    BY <1>1, MidDeleteIs
  <2> QED
    BY <1>1, <2>1, <2>2, <2>3 DEF RawRows, Metas
<1>6. used.heal = 0 => \A m \in db.file_meta :
            m.file \notin torn /\ m.stamp = disk[m.file] /\ Complete =>
                {e \in db.raw_edge : e.file = m.file} = EdgesOf[m.file][m.stamp.content]
  BY <1>5 DEF TrustInv, RawInv, RawWhole, RawOn
<1>7. /\ {"heal", "soft"} \subseteq DOMAIN used' /\ used'.heal \in Nat /\ used'.soft \in Nat
      /\ used'.heal = 0 => used.heal = 0
      /\ Heeded' => Heeded
  BY DEF TrustInv, EdgeInv, EdgeTypes, Heeded
<1> QED
  BY <1>1, <1>2, <1>3, <1>6, <1>7, TrustPass

\* A heal that can read every file writes the raw edges of what is on disk.
LEMMA PassHeal ==
  ASSUME SpaceInv, CommitInv, CommitInv', TrustInv,
         Entering("commit") \/ Entering("nochange"), ~Complete, Heal
  PROVE  TrustInv'
<1>1. /\ ops = <<>> /\ pc \in {"commit", "nochange"} /\ pc' = "phase2"
      /\ UNCHANGED <<disk, db, buf, torn, skipped, job>>
  BY DEF Entering
<1>2. PICK U : ops' = heal_edges(U) /\ (U = {} \/ used' = Spend("heal"))
               /\ (used' = used \/ used' = Spend("heal"))
  BY DEF Heal
<1>3. /\ {"heal", "soft"} \subseteq DOMAIN used' /\ used'.heal \in Nat /\ used'.soft \in Nat
      /\ used'.heal = 0 => used.heal = 0 /\ U = {}
      /\ Heeded' => Heeded
  <2>1. {"heal", "soft"} \subseteq DOMAIN used /\ used.heal \in Nat /\ used.soft \in Nat
    BY DEF TrustInv, EdgeInv, EdgeTypes
  <2>2. ASSUME used' = Spend("heal")
        PROVE  /\ {"heal", "soft"} \subseteq DOMAIN used' /\ used'.heal = used.heal + 1
               /\ used'.soft = used.soft
    BY <2>1, <2>2 DEF Spend
  <2> QED
    BY <1>2, <2>1, <2>2 DEF Heeded
<1> DEFINE raw == UNION {EdgesOf[f][disk[f].content] : f \in (Stored \cap OnDisk) \ U}
<1>4. DOMAIN disk = Files /\ \A f \in Files : disk[f] # Absent => disk[f].content \in Contents
  BY DEF SpaceInv, SpaceTypes
<1>5. /\ Ranked(ops', 1, 7) /\ {HealClear, RawMark, Stamp} \subseteq ToSet(ops')
      /\ Writes(ops', "calls") = resolve_raw_edges(db.symbol, raw)
      /\ Writes(ops', "raw_edge") = raw
      /\ \A f \in Files : Deletes(ops', "calls", f) /\ Deletes(ops', "raw_edge", f)
  BY <1>2, <1>4, HealIs
<1>6. used'.heal = 0 => \A m \in db.file_meta :
            m.file \notin torn /\ m.stamp = disk[m.file] =>
                {e \in raw : e.file = m.file} = EdgesOf[m.file][m.stamp.content]
  <2>1. SUFFICES ASSUME U = {}, NEW m \in db.file_meta, m.file \notin torn, m.stamp = disk[m.file]
                 PROVE  {e \in raw : e.file = m.file} = EdgesOf[m.file][m.stamp.content]
    BY <1>3
  <2>2. m \in Metas /\ m.file \in Stored
    BY DEF Metas, Stored, FilesOf
  <2>3. m.file \in Files /\ m.stamp \in Versions
    <3>1. MidDelete = {}
      BY <1>1, MidDeleteIs
    <3> QED
      BY <2>1, <2>2, <3>1 DEF CommitInv, CommitTypes, Whole, Fits
  <2>4. m.file \in OnDisk
    BY <2>1, <2>3, PipelineAssumption DEF OnDisk, Versions
  <2>5. \A f \in OnDisk : f \in Files /\ \A e \in EdgesOf[f][disk[f].content] : e.file = f
    BY <1>4, PipelineAssumption DEF OnDisk
  <2> QED
    BY <2>1, <2>2, <2>4, <2>5
<1> HIDE DEF raw
<1>7. {e \in db.raw_edge : ~Deletes(ops', "raw_edge", e.file)} \cup Writes(ops', "raw_edge") = raw
  BY <1>5 DEF SpaceInv, SpaceTypes, EdgesIn
<1>8. {c \in db.calls : ~Deletes(ops', "calls", c.file)} \cup Writes(ops', "calls")
         = resolve_raw_edges(db.symbol, raw)
  BY <1>5 DEF TrustInv, EdgeInv, EdgeTypes, EdgesIn
<1> QED
  BY <1>1, <1>3, <1>5, <1>6, <1>7, <1>8, TrustPass

LEMMA TrustFullPhase2 ==
  ASSUME SpaceInv, CommitInv, CommitInv', TrustInv, RowsSeen, FullPhase2
  PROVE  TrustInv'
<1>1. /\ Entering("commit") /\ used' = used /\ job.mode = "full" /\ pc = "commit"
      /\ \/ db.raw_edge = {} /\ ops' = resolve_edges_phase2(db.raw_edge)
         \/ ops' = Tail(resolve_edges_phase2(db.raw_edge))
  <2>1. Entering("commit") /\ used' = used /\ job.mode = "full" /\ pc = "commit"
    BY DEF FullPhase2, EnterPhase2, Entering, runVars
  <2>2. \/ db.raw_edge = {} /\ ops' = resolve_edges_phase2(db.raw_edge)
        \/ ops' = Tail(resolve_edges_phase2(db.raw_edge))
    BY FullPhase2Edges
  <2> QED
    BY <2>1, <2>2
<1>2. EdgesIn(db.raw_edge)
  BY DEF SpaceInv, SpaceTypes
<1>3. /\ Ranked(ops', 5, 7) \/ Ranked(ops', 6, 7)
      /\ Stamp \in ToSet(ops') /\ Writes(ops', "raw_edge") = {}
      /\ Writes(ops', "calls") = resolve_raw_edges(db.symbol, db.raw_edge)
  BY <1>1, <1>2, FullPassIs, CallsPartIs
<1>4. Heeded => ~Resolved /\ db.calls = {}
  BY <1>1 DEF TrustInv, CallsInv, CallsCleared
<1> QED
  BY <1>1, <1>3, <1>4, PassCalls

LEMMA PassAll ==
  ASSUME SpaceInv, CommitInv, CommitInv', TrustInv,
         Entering("commit") \/ Entering("nochange"), used' = used,
         ops' = resolve_edges_phase2(db.raw_edge), Heeded => ~Resolved
  PROVE  TrustInv'
<1>1. EdgesIn(db.raw_edge)
  BY DEF SpaceInv, SpaceTypes
<1>2. /\ Ranked(ops', 5, 7) /\ Stamp \in ToSet(ops') /\ Writes(ops', "raw_edge") = {}
      /\ Writes(ops', "calls") = resolve_raw_edges(db.symbol, db.raw_edge)
      /\ \A f : Deletes(ops', "calls", f) <=> f \in Files
  BY <1>1, FullPassIs
<1>3. {c \in db.calls : ~Deletes(ops', "calls", c.file)} \cup Writes(ops', "calls")
         = resolve_raw_edges(db.symbol, db.raw_edge)
  BY <1>2 DEF TrustInv, EdgeInv, EdgeTypes, EdgesIn
<1> QED
  BY <1>2, <1>3, PassCalls

LEMMA TrustNoChange ==
  ASSUME SpaceInv, CommitInv, CommitInv', TrustInv, NoChangePhase2
  PROVE  TrustInv'
<1>1. /\ Entering("nochange") /\ pc = "nochange"
      /\ \/ ~Complete /\ Heal
         \/ used' = used /\ ~Resolved /\ ops' = resolve_edges_phase2(db.raw_edge)
         \/ used' = used /\ ops' = <<>>
  <2>1. Entering("nochange")
    BY DEF NoChangePhase2, EnterPhase2, Entering, runVars
  <2>2. CASE ~db.index_meta.raw_edge_complete
    BY <2>1, <2>2 DEF NoChangePhase2, Complete, Entering
  <2>3. CASE db.index_meta.raw_edge_complete
    <3>1. used' = used /\ ops' = IF db.index_meta.edges_resolved THEN <<>>
                                 ELSE resolve_edges_phase2(db.raw_edge)
      BY <2>3 DEF NoChangePhase2
    <3>2. CASE db.index_meta.edges_resolved
      BY <2>1, <3>1, <3>2 DEF Entering
    <3>3. CASE ~db.index_meta.edges_resolved
      BY <2>1, <3>1, <3>3 DEF Entering, Resolved
    <3> QED
      BY <3>2, <3>3
  <2> QED
    BY <2>2, <2>3
<1>2. CASE ~Complete /\ Heal
  BY <1>1, <1>2, PassHeal
<1>3. CASE used' = used /\ ~Resolved /\ ops' = resolve_edges_phase2(db.raw_edge)
  BY <1>1, <1>3, PassAll
<1>4. CASE used' = used /\ ops' = <<>>
  <2>1. /\ UNCHANGED <<disk, db, buf, torn, skipped, job, ops>> /\ ops = <<>> /\ pc' = "phase2"
    BY <1>1, <1>4 DEF Entering
  <2>2. ToSet(ops) = {} /\ DOMAIN ops = {} /\ ToSet(ops') = {} /\ DOMAIN ops' = {}
    BY <2>1, NoSeq
  <2>3. (Complete' <=> Complete) /\ (Resolved' <=> Resolved)
    BY <2>1 DEF Complete, Resolved
  <2>4. /\ RawRows' = RawRows /\ Metas' = Metas
    BY <1>1, <2>1, <2>2 DEF RawRows, Metas, Issued, Deletes
  <2>5. EdgeInv'
    BY <1>4, <2>1, <2>2
    DEF TrustInv, EdgeInv, EdgeTypes, EdgeStmts, EdgeMarks, EdgesIn, TypedEdges, Precedes
  <2>6. MidDelete = {} /\ MidDelete' = {}
    BY <1>1, <2>1, MidDeleteIs
  <2>7. RawOn' => RawOn
    BY <2>1, <2>2, <2>3 DEF RawOn
  <2>8. RawInv'
    BY <1>1, <1>4, <2>1, <2>4, <2>6, <2>7
    DEF TrustInv, RawInv, RawWhole, RawUntouched, RawBehind, RawRemoving
  <2>9. CallsInv'
    BY <1>4, <2>1, <2>2, <2>3, SoundIs
    DEF TrustInv, CallsInv, CallsCleared, CallsRemoved, CallsRemembered, Heeded
  <2> QED
    BY <2>5, <2>8, <2>9 DEF TrustInv
<1> QED
  BY <1>1, <1>2, <1>3, <1>4

\* The blast radius: what it leaves of the calls and what it writes again is what
\* a full pass over the tables would write.
LEMMA TrustIncrementalPhase2 ==
  ASSUME SpaceInv, CommitInv, CommitInv', TrustInv, IncrementalPhase2
  PROVE  TrustInv'
<1> DEFINE affected    == job.process \cup job.delete
           removed     == removed_surface_files(job.oldSymbols, db.symbol, job.process, job.delete)
           added       == added_names(job.oldSymbols, db.symbol, job.process)
           resolve_set == build_resolve_set(db.raw_edge, affected,
                                            dir1_callers(db.calls, removed, affected), added)
<1>1. Entering("commit") /\ pc = "commit" /\ ops = <<>> /\ job.mode = "incr"
  BY DEF IncrementalPhase2, EnterPhase2, Entering, runVars
<1>2. \/ ~Complete /\ Heal
      \/ used' = used /\ ops' = resolve_edges_phase2(db.raw_edge)
      \/ /\ used' = used /\ Complete /\ job.graphComplete = TRUE
         /\ ops' = reresolve_statements(resolve_set)
  <2>1. CASE ~db.index_meta.raw_edge_complete
    BY <2>1 DEF IncrementalPhase2, Complete
  <2>2. CASE db.index_meta.raw_edge_complete
    <3> DEFINE tooLarge == exceeds_incremental_phase2_budget(Cardinality(resolve_set),
                              job.indexed, FallbackMinFiles, FallbackDivisor)
    <3>1. used' = used /\ ops' = IF job.graphComplete /\ ~tooLarge
                                 THEN reresolve_statements(resolve_set)
                                 ELSE resolve_edges_phase2(db.raw_edge)
      BY <2>2 DEF IncrementalPhase2
    <3> HIDE DEF tooLarge, resolve_set
    <3>2. CASE job.graphComplete /\ ~tooLarge
      BY <2>2, <3>1, <3>2 DEF Complete
    <3>3. CASE ~(job.graphComplete /\ ~tooLarge)
      BY <3>1, <3>3
    <3> QED
      BY <3>2, <3>3
  <2> QED
    BY <2>1, <2>2
<1>3. Heeded => ~Resolved
  BY <1>1 DEF TrustInv, CallsInv, CallsCleared
<1>4. CASE ~Complete /\ Heal
  BY <1>1, <1>4, PassHeal
<1>5. CASE used' = used /\ ops' = resolve_edges_phase2(db.raw_edge)
  BY <1>1, <1>3, <1>5, PassAll
<1>6. CASE /\ used' = used /\ Complete /\ job.graphComplete = TRUE
           /\ ops' = reresolve_statements(resolve_set)
  <2>1. EdgesIn(db.raw_edge)
    BY DEF SpaceInv, SpaceTypes
  <2> DEFINE scoped == {e \in db.raw_edge : e.file \in resolve_set}
  <2>2. /\ Ranked(ops', 5, 7) /\ Stamp \in ToSet(ops') /\ Writes(ops', "raw_edge") = {}
        /\ Writes(ops', "calls") = resolve_raw_edges(db.symbol, scoped)
        /\ \A f : Deletes(ops', "calls", f) <=> f \in resolve_set
    <3> HIDE DEF resolve_set
    <3> QED
      BY <1>6, <2>1, ScopedPassIs
  <2>3. ASSUME Heeded
        PROVE  {c \in db.calls : ~Deletes(ops', "calls", c.file)} \cup Writes(ops', "calls")
                  = resolve_raw_edges(db.symbol, db.raw_edge)
    <3>1. PICK old, raw : Remember(old, raw)
      BY <1>1, <1>6, <2>3 DEF TrustInv, CallsInv, CallsRemembered
    <3>2. ToSet(ops) = {} /\ buf.raw_edge = {} /\ buf.symbol = {}
      BY <1>1, NoSeq DEF CommitInv, CommitTypes, NoBuf
    <3>3. RawRows = db.raw_edge /\ \A f : SymbolRows(f) = {s \in db.symbol : s.file = f}
      BY <1>1, <3>2 DEF RawRows, SymbolRows, Issued
    <3>4. Affected = affected
      BY <1>1 DEF Affected
    <3>5. OneEach(old) /\ OneEach(db.symbol) /\ TypedEdges(raw)
      BY <3>1, StoredOneEach DEF Remember
    <3>6. ASSUME NEW f \in Files \ affected
          PROVE  /\ {s \in db.symbol : s.file = f} = {s \in old : s.file = f}
                 /\ {e \in db.raw_edge : e.file = f} = {e \in raw : e.file = f}
      BY <3>1, <3>3, <3>4 DEF Remember
    <3>7. \A s \in db.symbol : s.file \notin job.delete
      BY <1>1, <2>3, <3>3 DEF TrustInv, CallsInv, CallsRemoved
    <3>8. Edited(old, db.symbol, raw, db.raw_edge, job.process, job.delete)
      <4>1. Ordered(old, db.symbol)
        BY <2>3, <3>5, TablesOrdered DEF Heeded
      <4>2. \A s \in old : s.file \notin affected => s \in db.symbol
        BY <3>5, <3>6 DEF OneEach
      <4>3. \A s \in db.symbol : s.file \notin job.process => s \in old
        BY <3>5, <3>6, <3>7 DEF OneEach
      <4>4. \A e \in raw : e.file \notin affected => e \in db.raw_edge
        BY <3>5, <3>6 DEF TypedEdges
      <4>5. \A e \in db.raw_edge : e.file \notin affected => e \in raw
        BY <2>1, <3>6 DEF EdgesIn
      <4> QED
        BY <3>5, <3>7, <4>1, <4>2, <4>3, <4>4, <4>5 DEF Edited, TypedEdges
    <3>9. resolve_set = Scope(old, db.symbol, raw, db.raw_edge, job.process, job.delete)
      <4>1. db.calls = resolve_raw_edges(old, raw)
            /\ job.oldSymbols = {s \in old : s.file \in job.process}
        BY <3>1 DEF Remember
      <4>2. \A f \in job.process : Surface(job.oldSymbols, f) = Surface(old, f)
        BY <4>1 DEF Surface
      <4>3. removed = removed_surface_files(old, db.symbol, job.process, job.delete)
        BY <4>2 DEF removed_surface_files
      <4>4. added = added_names(old, db.symbol, job.process)
        BY <4>2 DEF added_names
      <4> HIDE DEF removed, added
      <4> QED
        BY <4>1, <4>3, <4>4 DEF Scope
    <3> HIDE DEF resolve_set
    <3>10. reresolve_files(resolve_raw_edges(old, raw), db.symbol, db.raw_edge, resolve_set)
              = resolve_raw_edges(db.symbol, db.raw_edge)
      BY <3>8, <3>9, ScopedIsFull
    <3>11. db.calls = resolve_raw_edges(old, raw)
      BY <3>1 DEF Remember
    <3> QED
      BY <2>2, <3>10, <3>11 DEF reresolve_files
  <2> HIDE DEF resolve_set, scoped
  <2> QED
    BY <1>1, <1>3, <1>6, <2>2, <2>3, PassCalls
<1> QED
  BY <1>2, <1>4, <1>5, <1>6

\* A sequence of stream statements is one of those an edge phase may issue.
LEMMA StreamEdges ==
  ASSUME StreamSeq(ops'), InOrder(ops'), pc' \in {"stream", "tail"},
         TypedEdges(Writes(ops', "raw_edge"))
  PROVE  EdgeStmts'
<1>1. ASSUME NEW s \in ToSet(ops') PROVE StreamStmt(s) /\ EdgeStmt(s)'
  <2>1. StreamStmt(s)
    BY DEF StreamSeq
  <2>2. On(s, "raw_edge") /\ s.op = "insert" => s.rows \subseteq Writes(ops', "raw_edge")
    BY DEF On, Writes
  <2>3. On(s, "raw_edge") /\ s.op = "insert" => TypedEdges(s.rows)
    BY <2>2 DEF TypedEdges
  <2> QED
    BY <2>1, <2>3 DEF StreamStmt, EdgeStmt, Shape, Sets, On
<1>2. ASSUME NEW s, NEW t, Precedes(ops', s, t) PROVE EdgeOrder(s, t)'
  <2>1. StreamStmt(s) /\ StreamStmt(t) /\ MayPrecede(s, t)
    BY <1>1, <1>2, OrderIs, PrecedesIn
  <2>2. \A m \in {HealClear, RawMark, Stamp, ClearMarkers, IncrClear} : m # s /\ m # t
    BY <2>1, MarksMeta DEF StreamStmt
  <2>3. /\ s.op = "delete" => s.table = "pending_retry"
        /\ t.op = "delete" => t.table = "pending_retry"
        /\ s.op = "insert" /\ s.table = "file_meta" => ~(t.op = "insert" /\ t.table = "raw_edge")
    BY <2>1 DEF StreamStmt, MayPrecede
  <2> QED
    BY <2>2, <2>3 DEF EdgeOrder
<1> QED
  BY <1>1, <1>2 DEF EdgeStmts

\* The rows of the stream move on, those of file f (if any) join them, and no
\* file_meta row overtakes a raw edge of its file.
LEMMA TrustTakes ==
  ASSUME SpaceInv, CommitInv, TrustInv, NEW f, NEW edges,
         pc = "stream", ops = <<>>, pc' \in {"stream", "tail"},
         UNCHANGED <<disk, db, job, torn, used>>,
         StreamSeq(ops'), InOrder(ops'),
         TakesRaw(f, edges), TypedEdges(edges), \A e \in edges : e.file = f,
         edges # {} => f \in Files /\ Reads(f),
         \A m \in Metas' \ Metas :
            m.file = f /\ f \in Files /\ Reads(f)
              /\ (m.stamp = disk[f] => edges = EdgesOf[f][m.stamp.content]),
         pc' = "stream" => \A g \in Files : Reads(g)' => Reads(g) /\ g # f,
         \A g : g \notin job.process => SymbolRows(g)' = SymbolRows(g)
  PROVE  TrustInv'
<1>1. \A t : Issued(t) = {} /\ Issued(t)' = Writes(ops', t)
  <2>1. \A t : Issued(t)' = Writes(ops', t)
    BY StreamIssues
  <2>2. ToSet(ops) = {}
    BY NoSeq
  <2> QED
    BY <2>1, <2>2 DEF Issued
<1>2. /\ RawRows = db.raw_edge \cup buf.raw_edge
      /\ RawRows' = RawRows \cup edges
  BY <1>1 DEF RawRows, TakesRaw
<1>3. \A s \in Writes(ops', "raw_edge") \cup buf'.raw_edge : s \in buf.raw_edge \cup edges
  BY DEF TakesRaw
<1>4. TypedEdges(Writes(ops', "raw_edge")) /\ TypedEdges(buf'.raw_edge)
  BY <1>3 DEF TrustInv, EdgeInv, EdgeTypes, TypedEdges
<1>5. EdgeInv'
  <2>1. EdgeStmts'
    BY <1>4, StreamEdges
  <2>2. EdgeTypes'
    BY <1>4 DEF TrustInv, EdgeInv, EdgeTypes, EdgesIn, TypedEdges
  <2>3. EdgeMarks'
    BY DEF EdgeMarks
  <2> QED
    BY <2>1, <2>2, <2>3 DEF EdgeInv
<1>6. MidDelete = {} /\ MidDelete' = {} /\ (RawOn' => RawOn)
  BY MidDeleteIs DEF RawOn, Complete
<1>7. edges # {} => \A m \in Metas : m.file # f
  BY DEF CommitInv, Reading, Untouched, Reads
<1>8. ASSUME used.heal = 0 PROVE RawWhole'
  <2>1. SUFFICES ASSUME RawOn, NEW m \in Metas', m.file \notin torn, m.stamp = disk[m.file]
                 PROVE  {e \in RawRows \cup edges : e.file = m.file} = EdgesOf[m.file][m.stamp.content]
    BY <1>2, <1>6 DEF RawWhole
  <2>2. CASE m \in Metas
    <3>1. \A e \in edges : e.file # m.file
      BY <1>7, <2>2
    <3>2. {e \in RawRows : e.file = m.file} = EdgesOf[m.file][m.stamp.content]
      BY <1>6, <1>8, <2>1, <2>2 DEF TrustInv, RawInv, RawWhole
    <3> QED
      BY <3>1, <3>2
  <2>3. CASE m \notin Metas
    <3>1. m.file = f /\ f \in Files /\ Reads(f) /\ edges = EdgesOf[f][m.stamp.content]
      BY <2>1, <2>3
    <3>2. \A e \in RawRows : e.file # f
      BY <1>8, <3>1 DEF TrustInv, RawInv, RawUntouched
    <3> QED
      BY <3>1, <3>2
  <2> QED
    BY <2>2, <2>3
<1>9. ASSUME used.heal = 0 PROVE RawUntouched'
  <2>1. ASSUME pc' = "stream", NEW g \in Files, Reads(g)'
        PROVE  \A e \in RawRows \cup edges : e.file # g
    BY <1>9, <2>1 DEF TrustInv, RawInv, RawUntouched
  <2> QED
    BY <1>2, <2>1 DEF RawUntouched
<1>10. ASSUME used.heal = 0 PROVE RawBehind'
  <2>1. ASSUME NEW m \in db.file_meta, NEW e \in Writes(ops', "raw_edge") \cup buf'.raw_edge
        PROVE  e.file # m.file
    <3>1. m \in Metas
      BY DEF Metas
    <3> QED
      BY <1>3, <1>7, <1>10, <3>1 DEF TrustInv, RawInv, RawBehind
  <2>2. ASSUME NEW m \in Writes(ops', "file_meta") PROVE buf'.raw_edge = {}
    BY DEF TakesRaw
  <2> QED
    BY <1>1, <2>1, <2>2 DEF RawBehind
<1>11. RawInv'
  BY <1>8, <1>9, <1>10 DEF RawInv, RawRemoving
<1>12. Affected' = Affected /\ (Complete' <=> Complete) /\ (Resolved' <=> Resolved)
  BY DEF Affected, Complete, Resolved
<1>13. job.process \subseteq Affected
  BY DEF CommitInv, CommitTypes, Affected
<1>14. ASSUME Heeded PROVE CallsCleared' /\ CallsRemoved'
  <2>1. CallsCleared' 
    BY <1>12, <1>14, SoundIs DEF TrustInv, CallsInv, CallsCleared
  <2>2. \A g \in job.delete : g \notin job.process
    BY DEF TrustInv, EdgeInv, EdgeTypes
  <2>3. job.mode = "incr" => \A g \in job.delete : SymbolRows(g) = {}
    BY <1>14 DEF TrustInv, CallsInv, CallsRemoved
  <2> QED
    BY <2>1, <2>2, <2>3 DEF CallsRemoved
<1>15. ASSUME Heeded PROVE CallsRemembered'
  <2>1. ASSUME NEW old, NEW raw, Remember(old, raw) PROVE Remember(old, raw)'
    <3>1. ASSUME NEW g \in Files \ Affected
          PROVE  /\ SymbolRows(g)' = SymbolRows(g)
                 /\ {e \in RawRows' : e.file = g} = {e \in RawRows : e.file = g}
      <4>1. g \notin job.process
        BY <1>13
      <4>2. \A e \in edges : e.file # g
        BY <4>1 DEF TrustInv, EdgeInv, EdgeTypes
      <4> QED
        BY <1>2, <4>1, <4>2
    <3> QED
      BY <1>12, <2>1, <3>1 DEF Remember
  <2> QED
    BY <1>12, <1>15, <2>1 DEF TrustInv, CallsInv, CallsRemembered
<1> QED
  BY <1>5, <1>11, <1>14, <1>15 DEF TrustInv, CallsInv, Heeded

LEMMA TrustStore ==
  ASSUME SpaceInv, CommitInv, TrustInv, NEW f \in Files, StoreFile(f)
  PROVE  TrustInv'
<1> DEFINE v     == st[f].ver
           row   == [file |-> f, stamp |-> st[f].stamp]
           edges == EdgesOf[f][v.content]
<1>1. PICK chunks, symbols : Takes(f, chunks, symbols, row) /\ TakesRaw(f, edges)
  BY SMTT(60), StoreTakes
<1>2. /\ pc = "stream" /\ pc' = "stream" /\ ops = <<>>
      /\ UNCHANGED <<disk, db, job, torn, used>>
      /\ st[f].at = "embedded"
      /\ st' = [st EXCEPT ![f] = [NoStage EXCEPT !.at = "done"]]
  BY DEF StoreFile, Streaming
<1>3. v \in Versions /\ v.content \in Contents /\ Fits(f, st[f].stamp, v)
  BY <1>2 DEF CommitInv, Reading, Fits, Versions
<1>4. row.file = f /\ row.stamp = st[f].stamp
  OBVIOUS
<1>5. Reads(f) /\ f \in job.process
  BY <1>2 DEF Reads, TrustInv, EdgeInv, EdgeTypes
<1>6. \A e \in edges : e.file = f /\ e.probes \in Seq(Nat)
  BY <1>3, PipelineAssumption, RowAssumption
<1>7. row.stamp = disk[f] => v = row.stamp
  <2>1. SUFFICES ASSUME row.stamp = disk[f] PROVE v = row.stamp
    OBVIOUS
  <2>2. disk[f] \in Versions /\ disk[f] # Absent
    BY <1>3, <1>4, <2>1, PipelineAssumption DEF Fits, Versions
  <2>3. v.stamp <= disk[f].stamp /\ disk[f].stamp <= v.stamp
    BY <1>3, <1>4, <2>1, <2>2 DEF Fits
  <2>4. v.stamp = disk[f].stamp
    BY <1>3, <2>2, <2>3, PipelineAssumption DEF Versions
  <2> QED
    BY <1>3, <1>4, <2>1, <2>4 DEF Fits
<1>8. \A g \in Files : Reads(g)' => Reads(g) /\ g # f
  BY <1>2 DEF Reads, SpaceInv, SpaceTypes, NoStage
<1> HIDE DEF row
<1>9. /\ StreamSeq(ops') /\ InOrder(ops') /\ Metas' \subseteq Metas \cup {row}
      /\ Writes(ops', "symbol") \cup buf'.symbol = buf.symbol \cup symbols
      /\ \A s \in symbols : s.file = f
  BY <1>1 DEF Takes
<1>10. \A g : g \notin job.process => SymbolRows(g)' = SymbolRows(g)
  <2>1. Issued("symbol")' = Writes(ops', "symbol")
    BY <1>2, <1>9, StreamIssues
  <2>2. Issued("symbol") = {}
    BY <1>2, NoSeq DEF Issued
  <2>3. \A g : g \notin job.process => g # f
    BY <1>5
  <2> QED
    BY <1>2, <1>9, <2>1, <2>2, <2>3 DEF SymbolRows
<1>11. ASSUME NEW m \in Metas' \ Metas
       PROVE  m.file = f /\ (m.stamp = disk[f] => edges = EdgesOf[f][m.stamp.content])
  BY <1>4, <1>7, <1>9
<1>12. TypedEdges(edges)
  BY <1>6 DEF TypedEdges
<1>13. (\A e \in edges : e.file = f) /\ TakesRaw(f, edges)
  BY <1>1, <1>6
<1> HIDE DEF edges
<1> QED
  BY <1>2, <1>5, <1>8, <1>9, <1>10, <1>11, <1>12, <1>13, TrustTakes

LEMMA TrustFlush ==
  ASSUME SpaceInv, CommitInv, TrustInv, FlushTail
  PROVE  TrustInv'
<1>1. /\ pc = "stream" /\ pc' = "tail" /\ ops = <<>>
      /\ UNCHANGED <<disk, db, job, torn, used>> /\ buf' = NoBuf
  BY DEF FlushTail
<1>2. /\ StreamSeq(ops') /\ InOrder(ops') /\ Metas' \subseteq Metas
      /\ \A t \in {"chunk", "symbol", "raw_edge"} : Writes(ops', t) = buf[t]
  BY FlushWrites
<1>3. buf'.raw_edge = {} /\ buf'.symbol = {}
  BY <1>1 DEF NoBuf
<1>4. TakesRaw(None, {}) /\ TypedEdges({})
  BY <1>2, <1>3 DEF TakesRaw, TypedEdges
<1>5. \A g : SymbolRows(g)' = SymbolRows(g)
  <2>1. Issued("symbol")' = Writes(ops', "symbol")
    BY <1>1, <1>2, StreamIssues
  <2>2. Issued("symbol") = {}
    BY <1>1, NoSeq DEF Issued
  <2> QED
    BY <1>1, <1>2, <1>3, <2>1, <2>2 DEF SymbolRows
<1> QED
  BY <1>1, <1>2, <1>4, <1>5, TrustTakes

\* The next statement is performed: the tables it writes, the markers it sets, and
\* what it may come before.
Performed(s) ==
    /\ Shape(s) /\ EdgeStmt(s) /\ PhaseStmt(s) /\ IsSeq(ops')
    /\ ops # <<>> /\ ToSet(ops) = {s} \cup ToSet(ops')
    /\ \A t \in ToSet(ops') : EdgeOrder(s, t) /\ MayPrecede(s, t)
    /\ UNCHANGED <<disk, pc, job, st, buf, skipped, used>>
    /\ torn' = IF s.op = "delete" /\ s.table = "file_meta" THEN torn \ s.files ELSE torn
    /\ \A t \in Tables :
          /\ ~On(s, t) => db'[t] = db[t]
          /\ On(s, t) /\ s.op = "insert" =>
                db'[t] = {r \in db[t] : \A n \in s.rows : ~SameKey(t, r, n)} \cup s.rows
          /\ On(s, t) /\ s.op = "delete" => db'[t] = {r \in db[t] : r.file \notin s.files}
    /\ \A k \in MetaKeys :
          db'.index_meta[k] = IF Sets(s, k) THEN s.rows[k] ELSE db.index_meta[k]
    /\ \A t : Issued(t) = Issued(t)' \cup (IF s.op = "insert" /\ s.table = t THEN s.rows ELSE {})

LEMMA PerformedIs ==
  ASSUME SpaceInv, CommitInv, TrustInv, PerformNext
  PROVE  \E s : Performed(s)
<1> DEFINE s == Head(ops)
<1>1. /\ ops # <<>> /\ db' = Perform(db, s) /\ ops' = Tail(ops)
      /\ torn' = IF s.op = "delete" /\ s.table = "file_meta" THEN torn \ s.files ELSE torn
      /\ UNCHANGED <<disk, pc, job, st, buf, skipped, used>>
  BY DEF PerformNext, runVars
<1>2. IsSeq(ops) /\ InOrder(ops) /\ IsSeq(ops') /\ s \in ToSet(ops) /\ ToSet(ops) = {s} \cup ToSet(ops')
  BY <1>1, TailSeq DEF CommitInv, CommitStmts
<1>3. /\ PhaseStmt(s) /\ Shape(s) /\ DbShape(db) /\ EdgeStmt(s)
  BY <1>2 DEF CommitInv, CommitStmts, PhaseStmt, SpaceInv, SpaceTypes, TrustInv, EdgeInv, EdgeStmts
<1>4. \A t \in ToSet(ops') : EdgeOrder(s, t) /\ MayPrecede(s, t)
  <2>1. \A t \in ToSet(ops') : Precedes(ops, s, t)
    BY <1>1, <1>2, PrecedesTail
  <2> QED
    BY <2>1, OrderIs, <1>2 DEF TrustInv, EdgeInv, EdgeStmts
<1>5. \A t : Issued(t) = Issued(t)' \cup (IF s.op = "insert" /\ s.table = t THEN s.rows ELSE {})
  BY <1>1, <1>2, IssuedTail
<1> HIDE DEF s
<1> DEFINE TablesIs ==
              \A t \in Tables :
                 /\ ~On(s, t) => db'[t] = db[t]
                 /\ On(s, t) /\ s.op = "insert" =>
                       db'[t] = {r \in db[t] : \A n \in s.rows : ~SameKey(t, r, n)} \cup s.rows
                 /\ On(s, t) /\ s.op = "delete" => db'[t] = {r \in db[t] : r.file \notin s.files}
           MarkersAre ==
              \A k \in MetaKeys :
                 db'.index_meta[k] = IF Sets(s, k) THEN s.rows[k] ELSE db.index_meta[k]
<1>6. TablesIs /\ MarkersAre
  <2>1. CASE s.op = "meta"
    <3>1. /\ \A t \in Tables : db'[t] = db[t]
          /\ \A k \in MetaKeys : db'.index_meta[k] =
                IF k \in DOMAIN s.rows THEN s.rows[k] ELSE db.index_meta[k]
      BY <1>1, <1>3, <2>1, PerformMeta
    <3> QED
      BY <2>1, <3>1 DEF On, Sets
  <2>2. CASE s.op = "insert"
    <3>1. s.table \in Tables
      BY <1>3, <2>2 DEF Shape
    <3>2. /\ db'.index_meta = db.index_meta
          /\ \A t \in Tables \ {s.table} : db'[t] = db[t]
          /\ db'[s.table] = {r \in db[s.table] : \A n \in s.rows : ~SameKey(s.table, r, n)}
                               \cup s.rows
      BY <1>1, <1>3, <2>2, <3>1, PerformInsert
    <3> QED
      BY <2>2, <3>1, <3>2 DEF On, Sets
  <2>3. CASE s.op = "delete"
    <3>1. s.table \in Tables
      BY <1>3, <2>3 DEF Shape
    <3>2. /\ db'.index_meta = db.index_meta
          /\ \A t \in Tables \ {s.table} : db'[t] = db[t]
          /\ db'[s.table] = {r \in db[s.table] : r.file \notin s.files}
      BY SMTT(60), <1>1, <1>3, <2>3, <3>1, PerformDelete
    <3> QED
      BY <2>3, <3>1, <3>2 DEF On, Sets
  <2> QED
    BY <1>3, <2>1, <2>2, <2>3 DEF Shape
<1>7. Performed(s)
  BY <1>1, <1>2, <1>3, <1>4, <1>5, <1>6 DEF Performed
<1> QED
  BY <1>7

\* The rows of the call graph, and the markers, after a statement.
LEMMA GraphRows ==
  ASSUME NEW s, Performed(s)
  PROVE  /\ \A t \in {"raw_edge", "calls"} :
               /\ ~On(s, t) => db'[t] = db[t] /\ Issued(t)' = Issued(t)
               /\ On(s, t) /\ s.op = "insert" =>
                     db'[t] = db[t] \cup s.rows /\ Issued(t) = Issued(t)' \cup s.rows
               /\ On(s, t) /\ s.op = "delete" =>
                     /\ db'[t] = {r \in db[t] : r.file \notin s.files}
                     /\ Issued(t)' = Issued(t)
         /\ ~Sets(s, "raw_edge_complete") => (Complete' <=> Complete)
         /\ ~Sets(s, "edges_resolved") => (Resolved' <=> Resolved)
         /\ s = HealClear => ~Complete' /\ ~Resolved'
         /\ s = RawMark => Complete'
         /\ s = Stamp => (Complete' <=> Complete)
         /\ s = ClearMarkers => ~Complete'
         /\ s \in {IncrClear, SoftClear} => ~Resolved'
<1>1. \A t \in {"raw_edge", "calls"} :
               /\ ~On(s, t) => db'[t] = db[t] /\ Issued(t)' = Issued(t)
               /\ On(s, t) /\ s.op = "insert" =>
                     db'[t] = db[t] \cup s.rows /\ Issued(t) = Issued(t)' \cup s.rows
               /\ On(s, t) /\ s.op = "delete" =>
                     /\ db'[t] = {r \in db[t] : r.file \notin s.files}
                     /\ Issued(t)' = Issued(t)
  <2>1. \A t \in {"raw_edge", "calls"} : t \in Tables /\ \A r, n : ~SameKey(t, r, n)
    BY DEF Tables, SameKey
  <2> QED
    BY <2>1 DEF Performed, On
<1>2. /\ db'.index_meta.raw_edge_complete = IF Sets(s, "raw_edge_complete")
                                            THEN s.rows.raw_edge_complete
                                            ELSE db.index_meta.raw_edge_complete
      /\ db'.index_meta.edges_resolved = IF Sets(s, "edges_resolved")
                                         THEN s.rows.edges_resolved
                                         ELSE db.index_meta.edges_resolved
  BY DEF Performed, MetaKeys
<1>3. /\ ~Sets(s, "raw_edge_complete") => (Complete' <=> Complete)
      /\ ~Sets(s, "edges_resolved") => (Resolved' <=> Resolved)
  BY <1>2 DEF Complete, Resolved
<1>4. s = HealClear => ~Complete' /\ ~Resolved'
  <2>1. SUFFICES ASSUME s = HealClear PROVE ~Complete' /\ ~Resolved'
    OBVIOUS
  <2>2. s.op = "meta" /\ s.rows = [raw_edge_complete |-> FALSE, edges_resolved |-> FALSE]
    BY <2>1, MarksMeta
  <2> QED
    BY <1>2, <2>2 DEF Sets, Complete, Resolved
<1>5. s = RawMark => Complete'
  <2>1. SUFFICES ASSUME s = RawMark PROVE Complete'
    OBVIOUS
  <2>2. s.op = "meta" /\ s.rows = [raw_edge_complete |-> TRUE]
    BY <2>1, MarksMeta
  <2> QED
    BY <1>2, <2>2 DEF Sets, Complete
<1>6. s = Stamp => (Complete' <=> Complete)
  <2>1. SUFFICES ASSUME s = Stamp PROVE Complete' <=> Complete
    OBVIOUS
  <2>2. s.op = "meta" /\ s.rows = [edges_resolved |-> TRUE]
    BY <2>1, MarksMeta
  <2> QED
    BY <1>2, <2>2 DEF Sets, Complete
<1>7. s = ClearMarkers => ~Complete'
  <2>1. SUFFICES ASSUME s = ClearMarkers PROVE ~Complete'
    OBVIOUS
  <2>2. s.op = "meta" /\ s.rows = [identity |-> None, raw_edge_complete |-> FALSE]
    BY <2>1, MarksMeta
  <2> QED
    BY <1>2, <2>2 DEF Sets, Complete
<1>8. s = IncrClear => ~Resolved'
  <2>1. SUFFICES ASSUME s = IncrClear PROVE ~Resolved'
    OBVIOUS
  <2>2. s.op = "meta" /\ s.rows = [identity |-> None, edges_resolved |-> FALSE]
    BY <2>1, MarksMeta
  <2> QED
    BY <1>2, <2>2 DEF Sets, Resolved
<1>9. s = SoftClear => ~Resolved'
  <2>1. SUFFICES ASSUME s = SoftClear PROVE ~Resolved'
    OBVIOUS
  <2>2. s.op = "meta" /\ s.rows = [edges_resolved |-> FALSE]
    BY <2>1, MarksMeta
  <2> QED
    BY <1>2, <2>2 DEF Sets, Resolved
<1> QED
  BY <1>1, <1>3, <1>4, <1>5, <1>6, <1>7, <1>8, <1>9

LEMMA PerformEdges ==
  ASSUME SpaceInv, CommitInv, TrustInv, NEW s, Performed(s), ops' = Tail(ops)
  PROVE  EdgeInv'
<1>1. /\ EdgeStmt(s) /\ Shape(s) /\ UNCHANGED <<disk, pc, job, st, buf, skipped, used>>
      /\ ops # <<>> /\ IsSeq(ops) /\ IsSeq(ops') /\ ToSet(ops) = {s} \cup ToSet(ops')
      /\ \A t \in ToSet(ops') : EdgeOrder(s, t)
  BY DEF Performed, CommitInv, CommitStmts
<1>2. EdgeStmts'
  <2>1. \A x : EdgeStmt(x) => EdgeStmt(x)'
    BY <1>1 DEF EdgeStmt
  <2>2. \A x, t : EdgeOrder(x, t) => EdgeOrder(x, t)'
    BY <1>1 DEF EdgeOrder
  <2>3. \A x, t : Precedes(ops', x, t) => Precedes(ops, x, t)
    BY <1>1, PrecedesTail
  <2> QED
    BY <1>1, <2>1, <2>2, <2>3 DEF TrustInv, EdgeInv, EdgeStmts
<1>3. EdgesIn(db'.calls)
  <2>1. \A c \in db'.calls : \/ c \in db.calls
                             \/ On(s, "calls") /\ s.op = "insert" /\ c \in s.rows
    BY <1>1, GraphRows DEF Shape, On
  <2> QED
    BY <1>1, <2>1 DEF TrustInv, EdgeInv, EdgeTypes, EdgesIn, EdgeStmt
<1>4. TypedEdges(db'.raw_edge)
  <2>1. \A e \in db'.raw_edge : \/ e \in db.raw_edge
                                \/ On(s, "raw_edge") /\ s.op = "insert" /\ e \in s.rows
    BY <1>1, GraphRows DEF Shape, On
  <2> QED
    BY <1>1, <2>1 DEF TrustInv, EdgeInv, EdgeTypes, TypedEdges, EdgeStmt
<1>5. EdgeTypes'
  BY <1>1, <1>3, <1>4 DEF TrustInv, EdgeInv, EdgeTypes, Reads, TypedEdges
<1>6. pc = "begin" /\ job.mode = "full" => ClearMarkers \in ToSet(ops') \/ ~Complete'
  <2>1. SUFFICES ASSUME pc = "begin", job.mode = "full", s # ClearMarkers
                 PROVE  ClearMarkers \in ToSet(ops') \/ ~Complete'
    BY GraphRows
  <2>2. Complete' <=> Complete
    BY <1>1, <2>1, GraphRows DEF EdgeStmt
  <2> QED
    BY <1>1, <2>1, <2>2 DEF TrustInv, EdgeInv, EdgeMarks
<1>7. ASSUME pc = "phase2", HealClear \in ToSet(ops') \/ \E t \in ToSet(ops') : On(t, "raw_edge")
      PROVE  RawMark \in ToSet(ops')
  <2>1. RawMark \in ToSet(ops)
    BY <1>1, <1>7 DEF TrustInv, EdgeInv, EdgeMarks
  <2>2. s # RawMark
    BY <1>1, <1>7 DEF EdgeOrder
  <2> QED
    BY <1>1, <2>1, <2>2
<1>8. ASSUME pc = "phase2", RawMark \in ToSet(ops') PROVE ~Complete'
  <2>1. ~Complete
    BY <1>1, <1>8 DEF TrustInv, EdgeInv, EdgeMarks
  <2>2. s # RawMark
    BY <1>1, <1>8 DEF EdgeOrder
  <2>3. Sets(s, "raw_edge_complete") => s = HealClear
    BY <1>1, <1>8, <2>2 DEF EdgeStmt
  <2> QED
    BY <2>1, <2>3, GraphRows
<1>9. ASSUME pc = "phase2", ops' # <<>> PROVE Stamp \in ToSet(ops')
  <2>1. Stamp \in ToSet(ops)
    BY <1>1, <1>9 DEF TrustInv, EdgeInv, EdgeMarks
  <2>2. \E t : t \in ToSet(ops')
    BY <1>1, <1>9, TailSeq
  <2>3. s # Stamp
    BY <1>1, <2>2 DEF EdgeOrder
  <2> QED
    BY <1>1, <2>1, <2>3
<1>10. EdgeMarks'
  BY <1>1, <1>6, <1>7, <1>8, <1>9 DEF EdgeMarks
<1> QED
  BY <1>2, <1>5, <1>10 DEF EdgeInv

\* The raw edges to be: only the bulk delete takes some away.
LEMMA PerformRawRows ==
  ASSUME SpaceInv, CommitInv, TrustInv, NEW s, Performed(s)
  PROVE  /\ RawRows' \subseteq RawRows
         /\ \A e \in RawRows : \/ e \in RawRows'
                               \/ /\ pc = "begin" /\ On(s, "raw_edge") /\ s.op = "delete"
                                  /\ e.file \in Affected
<1>1. /\ EdgeStmt(s) /\ PhaseStmt(s) /\ Shape(s) /\ pc' = pc /\ buf' = buf
      /\ ToSet(ops) = {s} \cup ToSet(ops') /\ \A t \in ToSet(ops') : EdgeOrder(s, t)
  BY DEF Performed
<1>2. CASE ~On(s, "raw_edge")
  <2>1. db'.raw_edge = db.raw_edge /\ Issued("raw_edge")' = Issued("raw_edge")
    BY <1>2, GraphRows
  <2>2. \A f : Deletes(ops', "raw_edge", f) <=> Deletes(ops, "raw_edge", f)
    BY <1>1, <1>2 DEF Deletes, On
  <2> QED
    BY <1>1, <2>1, <2>2 DEF RawRows
<1>3. CASE On(s, "raw_edge") /\ s.op = "insert"
  <2>1. db'.raw_edge = db.raw_edge \cup s.rows /\ Issued("raw_edge") = Issued("raw_edge")' \cup s.rows
    BY <1>3, GraphRows
  <2>2. \A f : ~Deletes(ops', "raw_edge", f) /\ ~Deletes(ops, "raw_edge", f)
    BY <1>1, <1>3 DEF Deletes, On, EdgeOrder
  <2> QED
    BY <1>1, <2>1, <2>2 DEF RawRows
<1>4. CASE On(s, "raw_edge") /\ s.op = "delete"
  <2>1. /\ db'.raw_edge = {r \in db.raw_edge : r.file \notin s.files}
        /\ Issued("raw_edge")' = Issued("raw_edge")
    BY <1>4, GraphRows
  <2>2. \A f : Deletes(ops, "raw_edge", f) <=> f \in s.files \/ Deletes(ops', "raw_edge", f)
    BY <1>1, <1>4 DEF Deletes, On
  <2>3. pc \in {"begin", "phase2"} /\ (pc = "begin" => s.files = Affected)
    BY <1>1, <1>4 DEF EdgeStmt, PhaseStmt
  <2> QED
    BY <1>1, <1>4, <2>1, <2>2, <2>3 DEF RawRows
<1> QED
  BY <1>1, <1>2, <1>3, <1>4 DEF Shape, On

\* A file whose row counts after the statement has counted before it.
LEMMA PerformMetas ==
  ASSUME SpaceInv, CommitInv, TrustInv, NEW s, Performed(s), NEW m \in Metas',
         m.file \notin torn' \cup MidDelete'
  PROVE  /\ m \in Metas /\ m.file \notin torn \cup MidDelete
         /\ pc = "begin" /\ job.mode = "incr" /\ On(s, "raw_edge") /\ s.op = "delete" =>
               m.file \notin Affected
<1>1. /\ PhaseStmt(s) /\ Shape(s) /\ UNCHANGED <<pc, job, buf, skipped>>
      /\ ToSet(ops) = {s} \cup ToSet(ops')
      /\ \A t \in ToSet(ops') : EdgeOrder(s, t) /\ MayPrecede(s, t)
      /\ torn' = IF s.op = "delete" /\ s.table = "file_meta" THEN torn \ s.files ELSE torn
  BY DEF Performed
<1>2. /\ ~On(s, "file_meta") => db'.file_meta = db.file_meta
      /\ On(s, "file_meta") /\ s.op = "insert" => db'.file_meta \subseteq db.file_meta \cup s.rows
      /\ On(s, "file_meta") /\ s.op = "delete" =>
            db'.file_meta = {r \in db.file_meta : r.file \notin s.files}
      /\ Issued("file_meta") = Issued("file_meta")' \cup
            (IF s.op = "insert" /\ s.table = "file_meta" THEN s.rows ELSE {})
  BY DEF Performed, Tables
<1>3. m \in Metas
  BY <1>1, <1>2 DEF Metas, Shape, On
<1>4. pc \in {"begin", "commit"} => Metas' = db'.file_meta
  <2>1. pc \in {"begin", "commit"} => Issued("file_meta") = {}
    BY NoneIssued DEF CommitInv, RowTables
  <2>2. pc \in {"begin", "commit"} => buf.file_meta = {} /\ skipped.permanent = {}
    BY DEF CommitInv, CommitTypes, NoBuf
  <2> QED
    BY <1>1, <1>2, <2>1, <2>2 DEF Metas
<1>5. s.op = "delete" /\ s.table = "file_meta" => m.file \notin s.files
  <2>1. SUFFICES ASSUME s.op = "delete", s.table = "file_meta" PROVE m.file \notin s.files
    OBVIOUS
  <2>2. pc \in {"begin", "commit"}
    BY <1>1, <2>1 DEF PhaseStmt, RowTables
  <2> QED
    BY <1>2, <1>4, <2>1, <2>2 DEF On
<1>6. m.file \notin torn
  BY <1>1, <1>5
<1>7. ASSUME pc = "begin"
      PROVE  /\ m \in db'.file_meta /\ m \in db.file_meta /\ m.file \in Stored'
             /\ \A t \in ToSet(ops) : t.op = "delete" => t.files = Affected
  <2>1. m \in db'.file_meta /\ m \in db.file_meta
    <3>1. ~(s.op = "insert" /\ s.table = "file_meta")
      BY <1>1, <1>7 DEF PhaseStmt, RowTables
    <3> QED
      BY <1>1, <1>2, <1>4, <1>7, <3>1 DEF On, Shape
  <2> QED
    BY <1>7, <2>1 DEF Stored, FilesOf, CommitInv, CommitStmts, PhaseStmt
<1>8. m.file \notin MidDelete
  <2>1. SUFFICES ASSUME m.file \in MidDelete PROVE FALSE
    OBVIOUS
  <2>2. pc = "begin" /\ Deletes(ops, "file_meta", m.file) /\ ~Deletes(ops, "symbol", m.file)
    BY <2>1, MidDeleteIs
  <2>3. ~Deletes(ops', "symbol", m.file)
    BY <1>1, <2>2 DEF Deletes
  <2>4. m.file \in Affected
    BY <1>7, <2>2 DEF Deletes
  <2>5. ~(s.op = "delete" /\ s.table = "file_meta")
    BY <1>1, <1>5, <1>7, <2>2, <2>4
  <2>6. Deletes(ops', "file_meta", m.file)
    BY <1>1, <2>2, <2>5 DEF Deletes
  <2> QED
    BY <1>1, <1>7, <2>2, <2>3, <2>6, MidDeleteIs
<1>9. ASSUME pc = "begin", job.mode = "incr", On(s, "raw_edge"), s.op = "delete",
             m.file \in Affected
      PROVE  FALSE
  <2>1. ~Deletes(ops', "symbol", m.file)
    BY <1>1, <1>9 DEF Deletes, EdgeOrder, On
  <2>2. Delete("file_meta", Affected) \in ToSet(ops)
    BY <1>7, <1>9 DEF CommitInv, Removing, RowTables
  <2>3. /\ Delete("file_meta", Affected).op = "delete"
        /\ Delete("file_meta", Affected).table = "file_meta"
        /\ Delete("file_meta", Affected).files = Affected
    BY DeleteFields DEF Tables
  <2>4. Deletes(ops', "file_meta", m.file)
    BY <1>1, <1>9, <2>2, <2>3 DEF Deletes, On
  <2> QED
    BY <1>1, <1>7, <1>9, <2>1, <2>4, MidDeleteIs
<1> QED
  BY <1>3, <1>6, <1>8, <1>9

LEMMA PerformRaw ==
  ASSUME SpaceInv, CommitInv, TrustInv, NEW s, Performed(s), used.heal = 0
  PROVE  RawInv'
<1>1. /\ EdgeStmt(s) /\ PhaseStmt(s) /\ Shape(s)
      /\ UNCHANGED <<disk, pc, job, st, buf, skipped, used>>
      /\ ToSet(ops) = {s} \cup ToSet(ops')
      /\ \A t \in ToSet(ops') : EdgeOrder(s, t) /\ MayPrecede(s, t)
  BY DEF Performed
<1>2. RawOn' => RawOn
  <2>1. SUFFICES ASSUME Complete', ~Complete PROVE RawOn
    BY <1>1 DEF RawOn
  <2>2. Sets(s, "raw_edge_complete") /\ s \notin {ClearMarkers, HealClear}
    BY <2>1, GraphRows
  <2> QED
    BY <1>1, <2>2 DEF EdgeStmt, RawOn
<1>3. pc = "begin" /\ job.mode = "full" => ~RawOn'
  <2>1. SUFFICES ASSUME pc = "begin", job.mode = "full" PROVE ~Complete'
    BY <1>1 DEF RawOn
  <2>2. ClearMarkers \in ToSet(ops) => s = ClearMarkers
    BY <1>1 DEF EdgeOrder
  <2>3. s # ClearMarkers => (Complete' <=> Complete)
    BY <1>1, <2>1, GraphRows DEF EdgeStmt
  <2> QED
    BY <2>1, <2>2, <2>3, GraphRows DEF TrustInv, EdgeInv, EdgeMarks
<1>4. RawWhole'
  <2>1. SUFFICES ASSUME RawOn', NEW m \in Metas', m.file \notin torn' \cup MidDelete',
                        m.stamp = disk[m.file]
                 PROVE  {e \in RawRows' : e.file = m.file} = EdgesOf[m.file][m.stamp.content]
    BY <1>1 DEF RawWhole
  <2>2. /\ m \in Metas /\ m.file \notin torn \cup MidDelete
        /\ pc = "begin" /\ job.mode = "incr" /\ On(s, "raw_edge") /\ s.op = "delete" =>
               m.file \notin Affected
    BY <2>1, PerformMetas
  <2>3. pc = "begin" => job.mode = "incr"
    BY <1>3, <2>1 DEF SpaceInv, SpacePhase
  <2>4. {e \in RawRows' : e.file = m.file} = {e \in RawRows : e.file = m.file}
    BY <2>2, <2>3, PerformRawRows
  <2>5. {e \in RawRows : e.file = m.file} = EdgesOf[m.file][m.stamp.content]
    BY <1>2, <2>1, <2>2 DEF TrustInv, RawInv, RawWhole
  <2> QED
    BY <2>4, <2>5
<1>5. RawUntouched'
  <2>1. \A f : Reads(f)' <=> Reads(f)
    BY <1>1 DEF Reads
  <2> QED
    BY <1>1, <2>1, PerformRawRows DEF TrustInv, RawInv, RawUntouched
<1>6. RawBehind'
  <2>1. /\ Issued("raw_edge")' \subseteq Issued("raw_edge")
        /\ Issued("file_meta")' \subseteq Issued("file_meta")
    BY DEF Performed
  <2>2. ASSUME NEW m \in db'.file_meta, m \notin db.file_meta
        PROVE  m \in Issued("file_meta") /\ Issued("raw_edge")' = {}
    <3>1. On(s, "file_meta") /\ s.op = "insert" /\ m \in s.rows
      BY <2>2 DEF Performed, Tables, Shape, On
    <3>2. m \in Issued("file_meta")
      BY <3>1 DEF Performed, On
    <3>3. \A t \in ToSet(ops') : ~(t.op = "insert" /\ t.table = "raw_edge")
      BY <1>1, <3>1 DEF MayPrecede, On
    <3> QED
      BY <3>2, <3>3 DEF Issued
  <2> QED
    BY <1>1, <2>1, <2>2 DEF TrustInv, RawInv, RawBehind
<1>7. RawRemoving'
  <2>1. SUFFICES ASSUME pc = "begin"
                 PROVE  \/ Delete("raw_edge", Affected) \in ToSet(ops')
                        \/ \A e \in db'.raw_edge : e.file \notin Affected
    BY <1>1 DEF RawRemoving, Affected
  <2>2. s.op # "insert" \/ ~On(s, "raw_edge")
    BY <1>1, <2>1 DEF EdgeStmt
  <2>3. db'.raw_edge \subseteq db.raw_edge
    BY <1>1, <2>2, GraphRows DEF Shape, On
  <2>4. CASE s = Delete("raw_edge", Affected)
    <3>1. On(s, "raw_edge") /\ s.op = "delete" /\ s.files = Affected
      BY <2>4, DeleteFields DEF On, Tables
    <3> QED
      BY <3>1, GraphRows
  <2> QED
    BY <1>1, <2>1, <2>3, <2>4 DEF TrustInv, RawInv, RawRemoving
<1> QED
  BY <1>4, <1>5, <1>6, <1>7 DEF RawInv

\* The calls rows to be: no statement but the one that empties the table ahead of a
\* rebuild changes them.
LEMMA PerformCallRows ==
  ASSUME NEW s, Performed(s), pc = "phase2"
  PROVE  CallRows' = CallRows /\ db'.symbol = db.symbol
<1>1. /\ EdgeStmt(s) /\ PhaseStmt(s) /\ Shape(s)
      /\ ToSet(ops) = {s} \cup ToSet(ops') /\ \A t \in ToSet(ops') : EdgeOrder(s, t)
  BY DEF Performed
<1>2. db'.symbol = db.symbol
  <2>1. ~On(s, "symbol")
    BY <1>1 DEF PhaseStmt, On, RowTables, Shape
  <2> QED
    BY <2>1 DEF Performed, Tables
<1>3. CASE ~On(s, "calls")
  <2>1. db'.calls = db.calls /\ Issued("calls")' = Issued("calls")
    BY <1>3, GraphRows
  <2>2. \A f : Deletes(ops', "calls", f) <=> Deletes(ops, "calls", f)
    BY <1>1, <1>3 DEF Deletes, On
  <2> QED
    BY <1>2, <2>1, <2>2 DEF CallRows
<1>4. CASE On(s, "calls") /\ s.op = "insert"
  <2>1. db'.calls = db.calls \cup s.rows /\ Issued("calls") = Issued("calls")' \cup s.rows
    BY <1>4, GraphRows
  <2>2. \A f : ~Deletes(ops', "calls", f) /\ ~Deletes(ops, "calls", f)
    BY <1>1, <1>4 DEF Deletes, On, EdgeOrder
  <2> QED
    BY <1>2, <2>1, <2>2 DEF CallRows
<1>5. CASE On(s, "calls") /\ s.op = "delete"
  <2>1. /\ db'.calls = {r \in db.calls : r.file \notin s.files}
        /\ Issued("calls")' = Issued("calls")
    BY <1>5, GraphRows
  <2>2. \A f : Deletes(ops, "calls", f) <=> f \in s.files \/ Deletes(ops', "calls", f)
    BY <1>1, <1>5 DEF Deletes, On
  <2> QED
    BY <1>2, <2>1, <2>2 DEF CallRows
<1> QED
  BY <1>1, <1>3, <1>4, <1>5 DEF Shape, On

\* The symbols to be: only the bulk delete takes some away.
LEMMA PerformSymbols ==
  ASSUME CommitInv, NEW s, Performed(s)
  PROVE  \A f : SymbolRows(f)' = SymbolRows(f) \/ (pc = "begin" /\ f \in Affected)
<1>1. /\ PhaseStmt(s) /\ Shape(s) /\ buf' = buf
      /\ ~On(s, "symbol") => db'.symbol = db.symbol
      /\ On(s, "symbol") /\ s.op = "insert" =>
            db'.symbol = {r \in db.symbol : \A n \in s.rows : ~SameKey("symbol", r, n)} \cup s.rows
      /\ On(s, "symbol") /\ s.op = "delete" =>
            db'.symbol = {r \in db.symbol : r.file \notin s.files}
      /\ Issued("symbol") = Issued("symbol")' \cup
            (IF s.op = "insert" /\ s.table = "symbol" THEN s.rows ELSE {})
  BY DEF Performed, Tables
<1>2. CASE ~On(s, "symbol")
  BY <1>1, <1>2 DEF SymbolRows, On, Shape
<1>3. CASE On(s, "symbol") /\ s.op = "insert"
  <2>1. s.rows \subseteq Issued("symbol") /\ \A n \in s.rows : SymbolRow(n)
    BY <1>1, <1>3 DEF On, PhaseStmt
  <2>2. db'.symbol = {r \in db.symbol : \A n \in s.rows : r.fqn # n.fqn} \cup s.rows
    BY <1>1, <1>3 DEF SameKey
  <2>3. db'.symbol = db.symbol \cup s.rows
    BY <2>1, <2>2, SymbolsAdd
  <2> QED
    BY <1>1, <1>3, <2>3 DEF SymbolRows, On
<1>4. CASE On(s, "symbol") /\ s.op = "delete"
  <2>1. pc = "begin" /\ s.files = Affected
    BY <1>1, <1>4 DEF PhaseStmt, On, RowTables
  <2>2. ASSUME NEW f, f \notin Affected PROVE SymbolRows(f)' = SymbolRows(f)
    BY <1>1, <1>4, <2>1, <2>2 DEF SymbolRows, On
  <2> QED
    BY <2>1, <2>2
<1> QED
  BY <1>1, <1>2, <1>3, <1>4 DEF Shape, On

LEMMA PerformCleared ==
  ASSUME SpaceInv, CommitInv, TrustInv, EdgeInv', NEW s, Performed(s), Heeded
  PROVE  CallsCleared'
<1>1. /\ EdgeStmt(s) /\ PhaseStmt(s) /\ Shape(s) /\ ops # <<>> /\ IsSeq(ops')
      /\ UNCHANGED <<disk, pc, job, st, buf, skipped, used>>
      /\ ToSet(ops) = {s} \cup ToSet(ops') /\ \A t \in ToSet(ops') : EdgeOrder(s, t)
  BY DEF Performed
<1>2. CallsCleared /\ EdgeMarks /\ EdgeMarks'
  BY DEF TrustInv, CallsInv, EdgeInv
<1>3. CASE pc = "begin" /\ job.mode = "incr"
  <2>1. ~Resolved'
    <3>1. IncrClear \in ToSet(ops) => s = IncrClear
      BY <1>1 DEF EdgeOrder
    <3>2. s # IncrClear => (Resolved' <=> Resolved)
      BY <1>1, <1>3, GraphRows DEF EdgeStmt
    <3> QED
      BY <1>2, <1>3, <3>1, <3>2, GraphRows DEF CallsCleared
  <2> QED
    BY <1>1, <1>3, <2>1, SoundIs DEF CallsCleared
<1>4. CASE pc = "begin" /\ job.mode = "full"
  <2>1. ~Complete'
    <3>1. ClearMarkers \in ToSet(ops) => s = ClearMarkers
      BY <1>1 DEF EdgeOrder
    <3>2. s # ClearMarkers => (Complete' <=> Complete)
      BY <1>1, <1>4, GraphRows DEF EdgeStmt
    <3> QED
      BY <1>2, <1>4, <3>1, <3>2, GraphRows DEF EdgeMarks
  <2>2. SoftClear \in ToSet(ops') \/ ~Resolved'
    <3>1. s # SoftClear => (Resolved' <=> Resolved)
      BY <1>1, <1>4, GraphRows DEF EdgeStmt
    <3> QED
      BY <1>1, <1>2, <1>4, <3>1, GraphRows DEF CallsCleared
  <2>3. Delete("calls", Files) \in ToSet(ops') \/ db'.calls = {}
    <3>1. db'.calls \subseteq db.calls
      <4>1. On(s, "calls") => s.op = "delete"
        BY <1>1, <1>4 DEF EdgeStmt
      <4> QED
        BY <4>1, GraphRows
    <3>2. CASE s = Delete("calls", Files)
      <4>1. On(s, "calls") /\ s.op = "delete" /\ s.files = Files
        BY <3>2, DeleteFields DEF On, Tables
      <4> QED
        BY <4>1, GraphRows DEF TrustInv, EdgeInv, EdgeTypes, EdgesIn
    <3> QED
      BY <1>1, <1>2, <1>4, <3>1, <3>2 DEF CallsCleared
  <2> QED
    BY <1>1, <1>4, <2>1, <2>2, <2>3, SoundIs DEF CallsCleared
<1>5. CASE pc \in {"stream", "tail", "commit"}
  <2>1. (Resolved' <=> Resolved) /\ db'.calls = db.calls
    BY <1>1, <1>5, GraphRows DEF EdgeStmt
  <2> QED
    BY <1>1, <1>2, <1>5, <2>1, SoundIs DEF CallsCleared
<1>6. CASE pc = "phase2" /\ s = Stamp
  <2>1. ToSet(ops') = {}
    BY <1>1, <1>6 DEF EdgeOrder
  <2>2. ops' = <<>>
    BY <1>1, <2>1, TailSeq
  <2>3. /\ CallRows' = CallRows /\ db'.symbol = db.symbol /\ RawRows' = RawRows
        /\ Stamp \in ToSet(ops)
    BY <1>1, <1>6, PerformCallRows, PerformRawRows
  <2>4. \A t : Issued(t)' = {}
    BY <2>1 DEF Issued
  <2>5. buf.raw_edge = {}
    BY <1>6 DEF CommitInv, CommitTypes, NoBuf
  <2>6. CallRows' = db'.calls /\ RawRows' = db'.raw_edge
    BY <1>1, <2>1, <2>4, <2>5 DEF CallRows, RawRows, Deletes
  <2>7. db'.calls = resolve_raw_edges(db'.symbol, db'.raw_edge)
    BY <1>2, <1>6, <2>3, <2>6 DEF CallsCleared
  <2> QED
    BY <1>1, <1>6, <2>1, <2>7, SoundIs DEF CallsCleared
<1>7. CASE pc = "phase2" /\ s # Stamp
  <2>1. Stamp \in ToSet(ops) /\ Stamp \in ToSet(ops')
    BY <1>1, <1>2, <1>7 DEF EdgeMarks
  <2>2. ~Resolved'
    <3>1. HealClear \in ToSet(ops) => s = HealClear
      BY <1>1 DEF EdgeOrder
    <3>2. s # HealClear => (Resolved' <=> Resolved)
      BY <1>1, <1>7, GraphRows DEF EdgeStmt
    <3> QED
      BY <1>2, <1>7, <2>1, <3>1, <3>2, GraphRows DEF CallsCleared
  <2>3. CallRows' = CallRows /\ db'.symbol = db.symbol /\ RawRows' = RawRows
    BY <1>1, <1>7, PerformCallRows, PerformRawRows
  <2> QED
    BY <1>1, <1>2, <1>7, <2>1, <2>2, <2>3, SoundIs DEF CallsCleared
<1>8. CASE pc \notin {"begin", "stream", "tail", "commit", "phase2"}
  <2>1. ~On(s, "raw_edge") /\ ~On(s, "calls") /\ ~On(s, "symbol")
    BY <1>1, <1>8 DEF EdgeStmt, PhaseStmt, On, RowTables, Shape
  <2>2. db'.symbol = db.symbol
    BY <2>1 DEF Performed, Tables
  <2>3. (Complete' <=> Complete) /\ (Resolved' <=> Resolved)
    BY <1>1, <1>8, GraphRows DEF EdgeStmt
  <2> QED
    BY <1>1, <1>2, <1>8, <2>1, <2>2, <2>3, GraphRows, SoundIs DEF CallsCleared
<1>9. pc = "begin" => job.mode \in {"full", "incr"}
  BY DEF SpaceInv, SpacePhase
<1> QED
  BY <1>3, <1>4, <1>5, <1>6, <1>7, <1>8, <1>9

LEMMA TrustPerform ==
  ASSUME SpaceInv, CommitInv, TrustInv, PerformNext
  PROVE  TrustInv'
<1>1. PICK s : Performed(s)
  BY PerformedIs
<1>2. /\ UNCHANGED <<disk, pc, job, st, buf, skipped, used>> /\ ops' = Tail(ops)
      /\ EdgeStmt(s) /\ PhaseStmt(s)
  BY <1>1 DEF Performed, PerformNext
<1>3. EdgeInv'
  BY <1>1, <1>2, PerformEdges
<1>4. RawInv'
  BY <1>1, <1>2, PerformRaw DEF RawInv
<1>5. ASSUME Heeded PROVE CallsRemoved'
  BY <1>1, <1>2, <1>5, PerformSymbols DEF TrustInv, CallsInv, CallsRemoved
<1>6. ASSUME Heeded PROVE CallsRemembered'
  <2>1. SUFFICES ASSUME job.mode = "incr", pc \in {"begin", "stream", "tail", "commit"},
                        job.graphComplete = TRUE, Complete'
                 PROVE  (\E old, raw : Remember(old, raw))'
    BY <1>2 DEF CallsRemembered
  <2>2. Complete /\ db'.calls = db.calls
    BY <1>1, <1>2, <2>1, GraphRows DEF EdgeStmt
  <2>3. PICK old, raw : Remember(old, raw)
    BY <1>6, <2>1, <2>2 DEF TrustInv, CallsInv, CallsRemembered
  <2>4. ASSUME NEW f \in Files \ Affected
        PROVE  /\ SymbolRows(f)' = SymbolRows(f)
               /\ {e \in RawRows' : e.file = f} = {e \in RawRows : e.file = f}
    BY <1>1, PerformSymbols, PerformRawRows
  <2>5. Affected' = Affected
    BY <1>2 DEF Affected
  <2>6. Remember(old, raw)'
    BY <1>2, <2>2, <2>3, <2>4, <2>5 DEF Remember
  <2> QED
    BY <2>6
<1>7. ASSUME Heeded PROVE CallsCleared'
  BY <1>1, <1>3, <1>7, PerformCleared
<1> QED
  BY <1>2, <1>3, <1>4, <1>5, <1>6, <1>7 DEF TrustInv, CallsInv, Heeded

LEMMA TrustStep ==
  ASSUME SpaceInv, CommitInv, CommitInv', TrustInv, LossTypes, [Next]_vars, AllSeen'
  PROVE  TrustInv'
<1>0. RowsSeen /\ ~StatementLost /\ ~RollbackLost
  BY LossStep DEF AllSeen
<1>1. CASE Trigger \/ TakeRebuild
  <2>1. Spent(used')
    BY <1>1, SpentOther
    DEF Trigger, TakeRescan, TakeWatcherBatch, TakeRebuild, Spent, TrustInv, EdgeInv, EdgeTypes
  <2>2. \E changes, forced : StartRun(changes, forced)
    BY <1>1 DEF Trigger, TakeRescan, TakeWatcherBatch, TakeRebuild
  <2> QED
    BY <2>1, <2>2, TrustStart
<1>2. CASE RunStep
  <2>1. ASSUME NEW f \in Files, StatFile(f) \/ ReadAndEmbed(f) \/ StoreFile(f) PROVE TrustInv'
    BY <2>1, TrustReading, TrustStore
  <2> QED
    BY <1>0, <1>2, <2>1, TrustPerform, TrustBeginFull, TrustBeginIncremental, TrustStartStream,
       TrustEndSteps, TrustFlush, TrustCommitRows, TrustFullPhase2, TrustIncrementalPhase2,
       TrustNoChange, TrustSucceeds DEF RunStep
<1>3. CASE Fault
  <2>1. ASSUME NEW f \in Files, TransientSkip(f) \/ FatalEmbed(f) PROVE TrustInv'
    BY <2>1, TrustReading
  <2> QED
    BY <1>0, <1>3, <2>1, TrustEndSteps, TrustSoftFails DEF Fault
<1>4. CASE Environment
  BY <1>1, <1>4, TrustEdit, TrustAround DEF Environment
<1>5. CASE UNCHANGED vars
  BY <1>5, TrustAround
<1> QED
  BY <1>1, <1>2, <1>3, <1>4, <1>5 DEF Next

\* The raw edges stored for a committed file, while the marker calls them complete.
LEMMA StoredRaw ==
  ASSUME TrustInv, CommitInv, used.heal = 0, Complete, NEW m \in db.file_meta,
         m.file \notin torn \cup MidDelete, m.stamp = disk[m.file]
  PROVE  {e \in db.raw_edge : e.file = m.file} = EdgesOf[m.file][m.stamp.content]
<1>1. {e \in RawRows : e.file = m.file} = EdgesOf[m.file][m.stamp.content]
  BY DEF TrustInv, RawInv, RawWhole, RawOn, Metas
<1>2. CASE pc # "phase2"
  <2>1. \A e \in Issued("raw_edge") \cup buf.raw_edge : e.file # m.file
    BY <1>2 DEF TrustInv, RawInv, RawBehind
  <2> QED
    BY <1>1, <1>2, <2>1 DEF RawRows
<1>3. CASE pc = "phase2"
  <2>1. \A s \in ToSet(ops) : ~On(s, "raw_edge")
    BY <1>3 DEF TrustInv, EdgeInv, EdgeMarks
  <2>2. Issued("raw_edge") = {} /\ \A f : ~Deletes(ops, "raw_edge", f)
    BY <2>1 DEF Issued, Deletes, On
  <2>3. buf.raw_edge = {}
    BY <1>3 DEF CommitInv, CommitTypes, NoBuf
  <2> QED
    BY <1>1, <2>2, <2>3 DEF RawRows
<1> QED
  BY <1>2, <1>3

LEMMA TrustRaw ==
  ASSUME SpaceInv, CommitInv, TrustInv, used.heal = 0
  PROVE  RawEdgesCurrent
<1>1. ASSUME Complete, NEW f \in Committed, StampOf(f) = disk[f]
      PROVE  {e \in db.raw_edge : e.file = f} = EdgesOf[f][disk[f].content]
  <2>1. f \in Stored /\ f \notin torn \cup MidDelete
    BY DEF Committed
  <2>2. PICK m \in db.file_meta : m.file = f
    BY <2>1 DEF Stored, FilesOf
  <2>3. \A r \in db.file_meta : r.file = f => r = m
    BY <2>2 DEF CommitInv, CommitTypes
  <2>4. m.stamp = disk[f]
    BY <1>1, <2>1, <2>2, <2>3 DEF StampOf
  <2> QED
    BY <1>1, <2>1, <2>2, <2>4, StoredRaw
<1> QED
  BY <1>1 DEF RawEdgesCurrent, Complete

LEMMA TrustEdges ==
  ASSUME OrderKept, TrustInv, used.soft = 0
  PROVE  EdgesSound
BY DEF Heeded, TrustInv, CallsInv, CallsCleared

\* Everything at once, as long as no statement has failed unseen.
Trusted == LossTypes /\ (AllSeen => SpaceInv /\ CommitInv /\ TrustInv)

LEMMA TrustedAlways ==
  /\ Init => Trusted
  /\ Trusted /\ [Next]_vars => Trusted'
<1>1. Init => Trusted
  BY SpaceInit, CommitInit, TrustInit, LossInit DEF Trusted
<1>2. ASSUME Trusted, [Next]_vars PROVE Trusted'
  <2>1. LossTypes' /\ (AllSeen' => AllSeen /\ ClearsSeen')
    BY <1>2, LossStep DEF Trusted, AllSeen
  <2> QED
    BY <1>2, <2>1, SpaceStep, CommitStep, TrustStep DEF Trusted
<1> QED
  BY <1>1, <1>2

\* The raw edges can be trusted: as long as no heal went past a file it could not
\* read and no statement failed unseen (those that write and delete raw edges are
\* unchecked), whatever run crashed, failed or was cancelled before, while the marker
\* says that the raw edges are complete every committed file that is as it was
\* indexed has exactly the raw edges of its content (resolve_edges_phase2,
\* streaming_index).
THEOREM RawEdgesTrusted == Spec => [](AllSeen /\ used.heal = 0 => RawEdgesCurrent)
<1>1. Trusted => (AllSeen /\ used.heal = 0 => RawEdgesCurrent)
  BY TrustRaw DEF Trusted
<1> QED
  BY <1>1, TrustedAlways, PTL DEF Spec

\* The call edges can be trusted: as long as every statement whose result the code
\* ignores or does not see succeeds, while both markers are set the calls rows are
\* those a full Phase 2 makes of the stored symbols and raw edges, although
\* incremental runs resolve only part of them (edges_resolved in incremental_run and
\* full_rebuild).
THEOREM EdgesTrusted == OrderKept => (Spec => [](AllSeen /\ used.soft = 0 => EdgesSound))
<1> SUFFICES ASSUME OrderKept PROVE Spec => [](AllSeen /\ used.soft = 0 => EdgesSound)
  OBVIOUS
<1>1. Trusted => (AllSeen /\ used.soft = 0 => EdgesSound)
  BY TrustEdges DEF Trusted
<1> QED
  BY <1>1, TrustedAlways, PTL DEF Spec

\* The call graph is what its markers say: the edges are resolved from raw edges that
\* are those of the files, whatever happened to the runs, as long as no heal skipped
\* an unreadable file, no ignored statement failed and none failed unseen (the last
\* is part of CallGraphSound).
THEOREM CallGraphTrusted ==
  OrderKept => (Spec => [](used.heal = 0 /\ used.soft = 0 => CallGraphSound))
<1> SUFFICES ASSUME OrderKept
             PROVE  Spec => [](used.heal = 0 /\ used.soft = 0 => CallGraphSound)
  OBVIOUS
<1>1. Spec => [](AllSeen /\ used.heal = 0 => RawEdgesCurrent)
  BY RawEdgesTrusted
<1>2. Spec => [](AllSeen /\ used.soft = 0 => EdgesSound)
  BY EdgesTrusted
<1>3. (AllSeen /\ used.heal = 0 => RawEdgesCurrent) /\ (AllSeen /\ used.soft = 0 => EdgesSound)
        => (used.heal = 0 /\ used.soft = 0 => CallGraphSound)
  BY DEF CallGraphSound
<1> QED
  BY <1>1, <1>2, <1>3, PTL
=============================================================================
